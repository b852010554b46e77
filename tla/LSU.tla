--------------------------------- MODULE LSU ---------------------------------
(***************************************************************************)
(* The load-store unit (uarchsim/lsu.cc) with the calls the pipeline makes *)
(* on it.                                                                  *)
(*                                                                         *)
(* Loads and stores are dispatched in program order into circular buffers, *)
(* the LQ and the SQ, and each keeps the tails of both at that time: the   *)
(* slots that separate what is older from what is younger.  Loads execute  *)
(* out of order and may pass stores whose address is unknown; a store that *)
(* learns its address looks for younger loads that should have waited.     *)
(* Stores write memory when they retire.                                   *)
(*                                                                         *)
(* Memory is bytes; an access is aligned and its value is a function from  *)
(* byte offset to byte, so that accesses of different sizes overlap as     *)
(* they do in the program.  Sign extension is left out.  Whether a line    *)
(* has arrived is a free choice, and so is the memory dependence           *)
(* prediction of a load.                                                   *)
(***************************************************************************)
EXTENDS Ring, Sequences, FiniteSets

CONSTANTS
  lq_size, sq_size,
  Sizes,       \* access sizes in bytes
  MemBytes,    \* bytes of memory
  Byte,        \* the values a byte can have
  Faulting,    \* addresses whose translation fails
  Atomics,     \* whether there are load-reserved and store-conditional
  MaxWindow,   \* bound on the memory operations and branches in flight
  NoAddr       \* the load reservation of a core that has none

ASSUME LSUAssumption ==
  /\ lq_size \in Nat \ {0} /\ sq_size \in Nat \ {0}
  /\ MemBytes \in Nat \ {0}
  /\ Sizes \subseteq {1, 2, 4, 8} /\ Sizes # {} /\ Byte # {}
  /\ \A n \in Sizes : MemBytes % n = 0
  /\ Faulting \subseteq 0..(MemBytes - 1) /\ NoAddr \notin 0..(MemBytes - 1)
  /\ Atomics \in BOOLEAN /\ MaxWindow \in Nat

VARIABLES
  LQ, lq_head, lq_tail, lq_head_phase, lq_tail_phase, lq_length,
  SQ, sq_head, sq_tail, sq_head_phase, sq_tail_phase, sq_length,
  load_reservation,
  mem,
  window   \* memory operations and branches in flight, oldest first

lqVars == <<LQ, lq_head, lq_tail, lq_head_phase, lq_tail_phase, lq_length>>
sqVars == <<SQ, sq_head, sq_tail, sq_head_phase, sq_tail_phase, sq_length>>
vars   == <<lqVars, sqVars, load_reservation, mem, window>>

LSlot == 0..(lq_size - 1)
SSlot == 0..(sq_size - 1)
Addr  == 0..(MemBytes - 1)
Aligned(n) == {a \in Addr : a % n = 0}
Bytes(n)   == [0..(n - 1) -> Byte]
Value      == UNION {Bytes(n) : n \in Sizes}
Zero       == CHOOSE v \in Value : TRUE

Entry == [valid : BOOLEAN, size : Sizes, amo : BOOLEAN, addr_avail : BOOLEAN,
          addr : Addr, value_avail : BOOLEAN, value : Value, mdp_stall : BOOLEAN]

(* LQ_index, LQ_phase, SQ_index and SQ_phase of an instruction, and what   *)
(* the active list says of it.                                             *)
Inst == [type : {"load", "store", "branch"}, lq : LSlot \X BOOLEAN,
         sq : SSlot \X BOOLEAN, done : BOOLEAN, exception : BOOLEAN,
         load_viol : BOOLEAN]

LQ_tails == <<lq_tail, lq_tail_phase>>
SQ_tails == <<sq_tail, sq_tail_phase>>

stall(bundle_load, bundle_store) ==
  \/ sq_length + bundle_store > sq_size
  \/ lq_length + bundle_load > lq_size

L(k) == LQ[window[k].lq[1]]
S(k) == SQ[window[k].sq[1]]
IsLoad(k)  == k \in DOMAIN window /\ window[k].type = "load"
IsStore(k) == k \in DOMAIN window /\ window[k].type = "store"

-----------------------------------------------------------------------------
Blank == [valid |-> FALSE, size |-> CHOOSE n \in Sizes : TRUE, amo |-> FALSE,
          addr_avail |-> FALSE, addr |-> 0, value_avail |-> FALSE,
          value |-> Zero, mdp_stall |-> FALSE]

Init ==
  /\ LQ = [i \in LSlot |-> Blank] /\ SQ = [i \in SSlot |-> Blank]
  /\ lq_head = 0 /\ lq_tail = 0 /\ lq_length = 0
  /\ sq_head = 0 /\ sq_tail = 0 /\ sq_length = 0
  /\ lq_head_phase = FALSE /\ lq_tail_phase = FALSE
  /\ sq_head_phase = FALSE /\ sq_tail_phase = FALSE
  /\ load_reservation = NoAddr
  /\ mem \in [Addr -> Byte]
  /\ window = <<>>

(* An atomic operation stops fetch until it has retired.                   *)
Fetches ==
  \A k \in DOMAIN window :
    /\ window[k].type = "load" => ~L(k).amo
    /\ window[k].type = "store" => ~S(k).amo

Room == Len(window) < MaxWindow

New(type) == [type |-> type, lq |-> LQ_tails, sq |-> SQ_tails, done |-> FALSE,
              exception |-> FALSE, load_viol |-> FALSE]
Fresh(n, amo, mdp_stall) ==
  [Blank EXCEPT !.valid = TRUE, !.size = n, !.amo = amo, !.mdp_stall = mdp_stall]

DispatchLoad(n, amo, mdp_stall) ==
  /\ Room /\ Fetches /\ ~stall(1, 0)
  /\ amo => Atomics
  /\ LQ' = [LQ EXCEPT ![lq_tail] = Fresh(n, amo, mdp_stall)]
  /\ lq_tail' = Next1(lq_tail, lq_size)
  /\ lq_tail_phase' = NextPhase(lq_tail, lq_tail_phase, lq_size)
  /\ lq_length' = lq_length + 1
  /\ window' = Append(window, New("load"))
  /\ UNCHANGED <<lq_head, lq_head_phase, sqVars, load_reservation, mem>>

DispatchStore(n, amo) ==
  /\ Room /\ Fetches /\ ~stall(0, 1)
  /\ amo => Atomics
  /\ SQ' = [SQ EXCEPT ![sq_tail] = Fresh(n, amo, FALSE)]
  /\ sq_tail' = Next1(sq_tail, sq_size)
  /\ sq_tail_phase' = NextPhase(sq_tail, sq_tail_phase, sq_size)
  /\ sq_length' = sq_length + 1
  /\ window' = Append(window, New("store"))
  /\ UNCHANGED <<lqVars, sq_head, sq_head_phase, load_reservation, mem>>

(* A branch keeps what checkpoint() returns. *)
DispatchBranch ==
  /\ Room /\ Fetches
  /\ window' = Append(window, New("branch"))
  /\ UNCHANGED <<lqVars, sqVars, load_reservation, mem>>

-----------------------------------------------------------------------------
(* Two aligned accesses conflict when the larger one's mask maps both      *)
(* addresses to the same block.                                            *)
Conflict(a, n, b, m) ==
  LET max_size == IF n > m THEN n ELSE m IN a \div max_size = b \div max_size

(* ld_violation(): the first load from the store's LQ index to the tail    *)
(* that conflicts and has its value.  The mutant starts one load late.     *)
FirstYoungerNext(k) == 1
FirstYounger(k) == 0

Violating(k, a) ==
  LET from == window[k].lq
      n == Occupancy(from[1], from[2], lq_tail, lq_tail_phase, lq_size)
      hit == {d \in FirstYounger(k)..(n - 1) :
                LET e == LQ[Ahead(d, from[1], lq_size)] IN
                /\ e.addr_avail /\ e.value_avail
                /\ Conflict(a, S(k).size, e.addr, e.size)}
  IN  IF hit = {} THEN {}
      ELSE {Ahead(CHOOSE d \in hit : \A c \in hit : d <= c, from[1], lq_size)}

(* store_addr(): record the address; a translation fault ends it with an   *)
(* exception, otherwise the violating load is marked.                      *)
MarkedBy(k, a) ==
  IF a \in Faulting
    THEN [window EXCEPT ![k].exception = TRUE]
    ELSE [j \in DOMAIN window |->
            [window[j] EXCEPT !.load_viol =
               @ \/ (window[j].type = "load" /\ window[j].lq[1] \in Violating(k, a))]]

WithAddr(e, a)  == [e EXCEPT !.addr_avail = TRUE, !.addr = a]
WithValue(e, v) == [e EXCEPT !.value_avail = TRUE, !.value = v]

(* A store executes as a whole, or as two micro-operations: the upper one  *)
(* has the address and the lower one the value.                            *)
ExecuteStore(k, a, v) ==
  /\ IsStore(k) /\ ~S(k).addr_avail /\ ~S(k).value_avail
  /\ a \in Aligned(S(k).size) /\ v \in Bytes(S(k).size)
  /\ SQ' = [SQ EXCEPT ![window[k].sq[1]] = WithValue(WithAddr(@, a), v)]
  /\ window' = MarkedBy(k, a)
  /\ UNCHANGED <<lqVars, sq_head, sq_tail, sq_head_phase, sq_tail_phase,
                 sq_length, load_reservation, mem>>

ExecuteUpper(k, a) ==
  /\ IsStore(k) /\ ~S(k).addr_avail
  /\ a \in Aligned(S(k).size)
  /\ SQ' = [SQ EXCEPT ![window[k].sq[1]] = WithAddr(@, a)]
  /\ window' = MarkedBy(k, a)
  /\ UNCHANGED <<lqVars, sq_head, sq_tail, sq_head_phase, sq_tail_phase,
                 sq_length, load_reservation, mem>>

ExecuteLower(k, v) ==
  /\ IsStore(k) /\ ~S(k).value_avail
  /\ v \in Bytes(S(k).size)
  /\ SQ' = [SQ EXCEPT ![window[k].sq[1]] = WithValue(@, v)]
  /\ UNCHANGED <<lqVars, sq_head, sq_tail, sq_head_phase, sq_tail_phase,
                 sq_length, load_reservation, mem, window>>

-----------------------------------------------------------------------------
(* disambiguate(): from the load's SQ index back to the head, the first    *)
(* store that makes the load stall or gives it its value; none means that  *)
(* it reads memory.  An unknown address is passed unless the prediction    *)
(* says to stall.                                                          *)
Verdict(e, s) ==
  CASE ~s.addr_avail -> IF e.mdp_stall THEN "stall" ELSE "pass"
    [] s.addr_avail /\ ~Conflict(s.addr, s.size, e.addr, e.size) -> "pass"
    [] OTHER -> IF s.size = e.size /\ s.value_avail THEN "forward" ELSE "stall"

(* The number of stores older than the load, youngest first in the scan;   *)
(* a load whose SQ index is the head has none.  The mutant starts the scan *)
(* at the tail.                                                            *)
PriorStoresFromTail(at) == sq_length
PriorStores(at) ==
  IF at = <<sq_head, sq_head_phase>> THEN 0
  ELSE LET d == Distance(at[1], sq_head, sq_size) IN IF d = 0 THEN sq_size ELSE d

Outcome(e, at) ==
  LET prior(d) == SQ[Ahead(PriorStores(at) - d, sq_head, sq_size)]
      decides == {d \in 1..PriorStores(at) : Verdict(e, prior(d)) # "pass"}
      first   == CHOOSE d \in decides : \A c \in decides : d <= c
  IN  IF decides = {} THEN [kind |-> "memory", value |-> Zero]
      ELSE [kind |-> Verdict(e, prior(first)), value |-> prior(first).value]

Read(a, n) == [b \in 0..(n - 1) |-> mem[a + b]]

(* execute_load(): a load-reserved waits for the head of the LQ, and a     *)
(* load that reads memory for its line.                                    *)
MustWait(k, e) ==
  e.amo /\ window[k].lq # <<lq_head, lq_head_phase>>

Serveable(k, e) == ~MustWait(k, e) /\ Outcome(e, window[k].sq).kind # "stall"

ServedEntry(k, e) ==
  LET o == Outcome(e, window[k].sq)
  IN  CASE o.kind = "forward" -> WithValue(e, o.value)
        [] o.kind = "memory" ->
             WithValue(e, IF e.addr \in Faulting THEN e.value
                                                 ELSE Read(e.addr, e.size))

FaultsOn(k, e) ==
  Outcome(e, window[k].sq).kind = "memory" /\ e.addr \in Faulting

ExecutedLoad(k, e) ==
  /\ LQ' = [LQ EXCEPT ![window[k].lq[1]] = ServedEntry(k, e)]
  /\ window' = [window EXCEPT ![k].exception = @ \/ FaultsOn(k, e)]

(* load_addr(), with the line present or not. *)
LoadAddr(k, a, arrived) ==
  /\ IsLoad(k) /\ ~L(k).addr_avail
  /\ a \in Aligned(L(k).size)
  /\ LET e == WithAddr(L(k), a)
         now == /\ Serveable(k, e)
                /\ arrived \/ Outcome(e, window[k].sq).kind = "forward"
     IN  IF now THEN ExecutedLoad(k, e)
         ELSE LQ' = [LQ EXCEPT ![window[k].lq[1]] = e] /\ UNCHANGED window
  /\ UNCHANGED <<lq_head, lq_tail, lq_head_phase, lq_tail_phase, lq_length,
                 sqVars, load_reservation, mem>>

(* load_unstall(): the oldest waiting load that can be served now; older   *)
(* ones that need nothing but memory still miss.                           *)
Waits(k) == IsLoad(k) /\ L(k).addr_avail /\ ~L(k).value_avail

load_unstall(k) ==
  /\ Waits(k) /\ Serveable(k, L(k))
  /\ \A j \in 1..(k - 1) : Waits(j) /\ Serveable(j, L(j)) =>
       Outcome(L(j), window[j].sq).kind = "memory"
  /\ ExecutedLoad(k, L(k))
  /\ UNCHANGED <<lq_head, lq_tail, lq_head_phase, lq_tail_phase, lq_length,
                 sqVars, load_reservation, mem>>

-----------------------------------------------------------------------------
OpenBranch(k) == k \in DOMAIN window /\ window[k].type = "branch" /\ ~window[k].done

ResolveCorrect(k) ==
  /\ OpenBranch(k)
  /\ window' = [window EXCEPT ![k].done = TRUE]
  /\ UNCHANGED <<lqVars, sqVars, load_reservation, mem>>

(* restore(): the tails of the branch, lengths computed from the pointers, *)
(* valid bits set anew.  The mutant leaves out the case of a full queue.   *)
LengthModulo(head, hph, tail, tph, n) == (n + tail - head) % n
RestoredLength(head, hph, tail, tph, n) ==
  LET len == (n + tail - head) % n IN IF len = 0 /\ tph # hph THEN n ELSE len

Revalidated(Q, head, len, n) ==
  [i \in DOMAIN Q |-> [Q[i] EXCEPT !.valid = Distance(i, head, n) < len]]

Mispredict(k) ==
  /\ OpenBranch(k)
  /\ LET lt == window[k].lq
         st == window[k].sq
     IN  /\ lq_tail' = lt[1] /\ lq_tail_phase' = lt[2]
         /\ sq_tail' = st[1] /\ sq_tail_phase' = st[2]
         /\ lq_length' = RestoredLength(lq_head, lq_head_phase, lt[1], lt[2], lq_size)
         /\ sq_length' = RestoredLength(sq_head, sq_head_phase, st[1], st[2], sq_size)
         /\ LQ' = Revalidated(LQ, lq_head, lq_length', lq_size)
         /\ SQ' = Revalidated(SQ, sq_head, sq_length', sq_size)
  /\ window' = SubSeq([window EXCEPT ![k].done = TRUE], 1, k)
  /\ UNCHANGED <<lq_head, lq_head_phase, sq_head, sq_head_phase,
                 load_reservation, mem>>

-----------------------------------------------------------------------------
Completed(k) ==
  CASE window[k].type = "load"   -> L(k).value_avail
    [] window[k].type = "store"  ->
         S(k).addr_avail /\ (S(k).value_avail \/ window[k].exception)
    [] window[k].type = "branch" -> window[k].done
ToSquash(k) == window[k].exception \/ window[k].load_viol

HeadCompleted == window # <<>> /\ Completed(1)

(* commit(load): a load-reserved sets the reservation. *)
RetireLoad ==
  /\ HeadCompleted /\ IsLoad(1) /\ ~ToSquash(1)
  /\ load_reservation' = IF L(1).amo THEN LQ[lq_head].addr ELSE load_reservation
  /\ LQ' = [LQ EXCEPT ![lq_head].valid = FALSE]
  /\ lq_head' = Next1(lq_head, lq_size)
  /\ lq_head_phase' = NextPhase(lq_head, lq_head_phase, lq_size)
  /\ lq_length' = lq_length - 1
  /\ window' = Tail(window)
  /\ UNCHANGED <<lq_tail, lq_tail_phase, sqVars, mem>>

(* commit(store): memory is written, unless a store-conditional has lost   *)
(* its reservation.                                                        *)
SentToMemory(e) == e.amo => load_reservation = e.addr
Overlaid(m, e) ==
  [a \in Addr |-> IF a \in e.addr..(e.addr + e.size - 1) THEN e.value[a - e.addr]
                                                         ELSE m[a]]

RetireStore ==
  /\ HeadCompleted /\ IsStore(1) /\ ~ToSquash(1)
  /\ mem' = IF SentToMemory(SQ[sq_head]) THEN Overlaid(mem, SQ[sq_head]) ELSE mem
  /\ SQ' = [SQ EXCEPT ![sq_head].valid = FALSE]
  /\ sq_head' = Next1(sq_head, sq_size)
  /\ sq_head_phase' = NextPhase(sq_head, sq_head_phase, sq_size)
  /\ sq_length' = sq_length - 1
  /\ window' = Tail(window)
  /\ UNCHANGED <<lqVars, sq_tail, sq_tail_phase, load_reservation>>

RetireBranch ==
  /\ HeadCompleted /\ window[1].type = "branch" /\ ~ToSquash(1)
  /\ window' = Tail(window)
  /\ UNCHANGED <<lqVars, sqVars, load_reservation, mem>>

(* flush(), for an exception or a load violation at the head. *)
RetireSquash ==
  /\ HeadCompleted /\ ToSquash(1)
  /\ lq_head' = 0 /\ lq_tail' = 0 /\ lq_length' = 0
  /\ sq_head' = 0 /\ sq_tail' = 0 /\ sq_length' = 0
  /\ lq_head_phase' = FALSE /\ lq_tail_phase' = FALSE
  /\ sq_head_phase' = FALSE /\ sq_tail_phase' = FALSE
  /\ LQ' = [i \in LSlot |-> [LQ[i] EXCEPT !.valid = FALSE]]
  /\ SQ' = [i \in SSlot |-> [SQ[i] EXCEPT !.valid = FALSE]]
  /\ window' = <<>>
  /\ UNCHANGED <<load_reservation, mem>>

(* The simulator takes the reservation away when it turns to another core. *)
yield_load_reservation ==
  /\ load_reservation # NoAddr
  /\ load_reservation' = NoAddr
  /\ UNCHANGED <<lqVars, sqVars, mem, window>>

Retire == RetireLoad \/ RetireStore \/ RetireBranch \/ RetireSquash

Next ==
  \/ \E n \in Sizes, amo, mdp_stall \in BOOLEAN : DispatchLoad(n, amo, mdp_stall)
  \/ \E n \in Sizes, amo \in BOOLEAN : DispatchStore(n, amo)
  \/ DispatchBranch
  \/ \E k \in 1..MaxWindow, a \in Addr, v \in Value : ExecuteStore(k, a, v)
  \/ \E k \in 1..MaxWindow, a \in Addr : ExecuteUpper(k, a)
  \/ \E k \in 1..MaxWindow, v \in Value : ExecuteLower(k, v)
  \/ \E k \in 1..MaxWindow, a \in Addr, arrived \in BOOLEAN : LoadAddr(k, a, arrived)
  \/ \E k \in 1..MaxWindow : load_unstall(k)
  \/ \E k \in 1..MaxWindow : ResolveCorrect(k)
  \/ \E k \in 1..MaxWindow : Mispredict(k)
  \/ RetireLoad
  \/ RetireStore
  \/ RetireBranch
  \/ RetireSquash
  \/ yield_load_reservation

Spec == Init /\ [][Next]_vars

-----------------------------------------------------------------------------
(* Properties.                                                             *)

LoadsIn(n)  == {k \in 1..n : window[k].type = "load"}
StoresIn(n) == {k \in 1..n : window[k].type = "store"}

(***************************************************************************)
(* Lengths, valid bits and phases tell the same story: the queues hold the *)
(* window's loads and stores in program order, each instruction's indices  *)
(* are the slots behind its elders, and the valid entries are exactly the  *)
(* ones in flight, whatever was restored and flushed (lsu.cc dispatch,     *)
(* restore, commit, flush and their assertions).                           *)
(***************************************************************************)
QueuesMirrorWindow ==
  LET n == Len(window) IN
  /\ lq_length = Cardinality(LoadsIn(n))
  /\ sq_length = Cardinality(StoresIn(n))
  /\ lq_length = Occupancy(lq_head, lq_head_phase, lq_tail, lq_tail_phase, lq_size)
  /\ sq_length = Occupancy(sq_head, sq_head_phase, sq_tail, sq_tail_phase, sq_size)
  /\ {i \in LSlot : LQ[i].valid} = {window[k].lq[1] : k \in LoadsIn(n)}
  /\ {i \in SSlot : SQ[i].valid} = {window[k].sq[1] : k \in StoresIn(n)}
  /\ \A k \in 1..n :
       LET at == window[k] IN
       /\ Occupancy(lq_head, lq_head_phase, at.lq[1], at.lq[2], lq_size)
            = Cardinality(LoadsIn(k - 1))
       /\ Occupancy(sq_head, sq_head_phase, at.sq[1], at.sq[2], sq_size)
            = Cardinality(StoresIn(k - 1))

(***************************************************************************)
(* Loads see memory in program order: once every older store has address   *)
(* and value, a load that has its value has the bytes that these stores    *)
(* leave at its address - unless it or something older is already marked   *)
(* to be squashed.  So no load commits a stale value, however loads,       *)
(* stores, retirements and recoveries interleave (lsu.cc disambiguate,     *)
(* ld_violation).                                                          *)
(***************************************************************************)
StoresDone(k) ==
  \A j \in StoresIn(k - 1) : S(j).addr_avail /\ S(j).value_avail

(* Memory after the stores before position k. *)
MemoryBefore(k) ==
  LET m[j \in 0..(k - 1)] ==
        IF j = 0 THEN mem
        ELSE IF window[j].type = "store" /\ SentToMemory(S(j))
               THEN Overlaid(m[j - 1], S(j)) ELSE m[j - 1]
  IN  m[k - 1]

LoadValueExact ==
  \A k \in LoadsIn(Len(window)) :
    /\ L(k).value_avail /\ StoresDone(k)
    /\ \A j \in 1..k : ~ToSquash(j)
    => \A b \in 0..(L(k).size - 1) :
         L(k).value[b] = MemoryBefore(k)[L(k).addr + b]

(***************************************************************************)
(* The lanes execute what the issue queue holds, the oldest first if need  *)
(* be; a line arrives; Retire runs in every cycle.                         *)
(***************************************************************************)
Fairness ==
  /\ WF_vars(\E a \in Addr, v \in Value : ExecuteStore(1, a, v))
  /\ WF_vars(\E v \in Value : ExecuteLower(1, v))
  /\ WF_vars(\E a \in Addr : ExecuteUpper(1, a))
  /\ WF_vars(\E a \in Addr : LoadAddr(1, a, TRUE))
  /\ WF_vars(load_unstall(1))
  /\ WF_vars(ResolveCorrect(1) \/ Mispredict(1))
  /\ WF_vars(Retire)

FairSpec == Spec /\ Fairness

(* A dispatch stall for want of an entry of either queue ends, also when   *)
(* the queue is full of loads that wait for each other's stores or for the *)
(* LQ head (dispatch.cc:81).                                               *)
QueueStallEnds ==
  /\ stall(1, 0) ~> ~stall(1, 0)
  /\ stall(0, 1) ~> ~stall(0, 1)

=============================================================================
