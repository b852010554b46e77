--------------------------- MODULE BackendProofs ---------------------------
(***************************************************************************)
(* The out-of-order engine for every number of lanes, depth of pipeline,   *)
(* size of the issue queue and number of registers: every instruction in   *)
(* flight is in exactly one place, the issue queue's lists are consistent, *)
(* no wakeup is lost, and operands are read after they are written.        *)
(*                                                                         *)
(* The first half treats the lists of the queue and the places of          *)
(* instructions as operators on constants, when an instruction moves,      *)
(* enters or leaves and when a branch is resolved; the second goes through *)
(* the stages of a cycle.                                                  *)
(***************************************************************************)
EXTENDS Backend, RingProofs, SequenceTheorems

(* The types of the state.                                                 *)
StageName == {"retire", "writeback", "load_replay", "execute", "register_read",
              "schedule", "dispatch"}
Inst  == [kind : Kind, tags : SUBSET PhysReg, dest_valid : BOOLEAN,
          log_reg : LogReg, phys_reg : PhysReg, predicted : BOOLEAN,
          branch_ID : 0..n_branches, completed : BOOLEAN]
Entry == [valid : BOOLEAN, index : ALIndex, branch_mask : SUBSET Branch,
          lane_id : SUBSET Lane, tags : SUBSET PhysReg, ready : SUBSET PhysReg,
          inum : ALIndex \cup {NoInum}, inum_ready : BOOLEAN,
          prev : Slot \cup {NoSlot}, next : Slot \cup {NoSlot}]
Queue == [q : [Slot -> Entry], length : 0..size, fl : [Slot -> Slot],
          fl_head : Slot, fl_tail : Slot, fl_length : 0..size,
          oldest : Slot \cup {NoSlot}, youngest : Slot \cup {NoSlot},
          part_next : Nat]
LaneState(l) == [rr : LaneReg, ex : [0..(ex_depth[l] - 1) -> LaneReg],
                 wb : LaneReg]
LanesOK(L) == /\ L = [l \in Lane |-> L[l]]
              /\ \A l \in Lane : L[l] \in LaneState(l)

TypeOK ==
  /\ stage \in StageName
  /\ lane \in 0..((IF stage = "retire" THEN RETIRE_WIDTH ELSE issue_width) - 1)
  /\ committed \in [LogReg -> PhysReg]
  /\ window \in Seq(Inst) /\ Len(window) <= n_active
  /\ AL_head \in ALIndex
  /\ PRF_ready \in SUBSET PhysReg /\ PRF_written \in SUBSET PhysReg
  /\ IQ \in Queue
  /\ LanesOK(Execution_Lanes)
  /\ stalled \in SUBSET ALIndex

-----------------------------------------------------------------------------
(* The issue queue.  Its free list is a ring of the entries out of use,    *)
(* each once; its linked list follows the order of the ages K.             *)
Occupied(Q) == {i \in Slot : Q[i].valid}
Nth(iq, d)  == iq.fl[Ahead(d, iq.fl_head, size)]

FreeListOK(iq) ==
  /\ iq.length = Cardinality(Occupied(iq.q))
  /\ iq.length + iq.fl_length = size
  /\ iq.fl_tail = Ahead(iq.fl_length, iq.fl_head, size)
  /\ \A d \in 0..(iq.fl_length - 1) : ~iq.q[Nth(iq, d)].valid
  /\ \A d, e \in 0..(iq.fl_length - 1) : Nth(iq, d) = Nth(iq, e) => d = e
  /\ \A i \in Slot \ Occupied(iq.q) : \E d \in 0..(iq.fl_length - 1) : Nth(iq, d) = i

Behind(V, K, i, j) ==
  IF j = NoSlot THEN \A m \in V : ~(K[i] < K[m])
  ELSE j \in V /\ K[i] < K[j] /\ \A m \in V : ~(K[i] < K[m] /\ K[m] < K[j])
Ahd(V, K, i, j) ==
  IF j = NoSlot THEN \A m \in V : ~(K[m] < K[i])
  ELSE j \in V /\ K[j] < K[i] /\ \A m \in V : ~(K[j] < K[m] /\ K[m] < K[i])

Linked(q, V, K, oldest, youngest) ==
  /\ IF V = {} THEN oldest = NoSlot /\ youngest = NoSlot
     ELSE /\ oldest \in V /\ \A m \in V : ~(K[m] < K[oldest])
          /\ youngest \in V /\ \A m \in V : ~(K[youngest] < K[m])
  /\ \A i \in V : Behind(V, K, i, q[i].next) /\ Ahd(V, K, i, q[i].prev)

-----------------------------------------------------------------------------
(* Where the instructions are: in register d of lane l (-1 is the one      *)
(* before Register Read, ex_depth[l] the one before Writeback), in an      *)
(* entry of the queue, or among the stalled loads.                         *)
PosIn(h, i) == Distance(i, h, n_active) + 1
AtIn(h, k)  == Ahead(k - 1, h, n_active)
Cell(L, l, d) == IF d = -1 THEN L[l].rr
                 ELSE IF d = ex_depth[l] THEN L[l].wb ELSE L[l].ex[d]
InCell(L, l, d, i) == l \in Lane /\ d \in (-1)..ex_depth[l] /\ Cell(L, l, d).valid
                        /\ Cell(L, l, d).index = i
InEntry(Q, s, i) == s \in Slot /\ Q[s].valid /\ Q[s].index = i
Holds(L, Q, S, a, b, i) ==
  \/ InCell(L, a, b, i)
  \/ a = -1 /\ InEntry(Q, b, i)
  \/ a = -2 /\ b = 0 /\ i \in S

InFlight(w, h, i) == PosIn(h, i) <= Len(w) /\ ~w[PosIn(h, i)].completed
OpenIn(w, k) == {w[j].branch_ID : j \in {i \in DOMAIN w : i < k /\ Open(w[i])}}

Placed(w, h, L, Q, S) ==
  /\ \A a, b \in Int, i \in ALIndex : Holds(L, Q, S, a, b, i) => InFlight(w, h, i)
  /\ \A a, b, c, d \in Int, i \in ALIndex :
       Holds(L, Q, S, a, b, i) /\ Holds(L, Q, S, c, d, i) => a = c /\ b = d
  /\ \A i \in ALIndex : InFlight(w, h, i) => \E a, b \in Int : Holds(L, Q, S, a, b, i)

(* What a place keeps of its instruction.                                  *)
Kept(w, h, L, Q, S) ==
  /\ \A s \in Slot : Q[s].valid =>
       /\ Q[s].branch_mask = OpenIn(w, PosIn(h, Q[s].index))
       /\ Q[s].tags = w[PosIn(h, Q[s].index)].tags
  /\ \A l \in Lane, d \in Int : d \in (-1)..ex_depth[l] /\ Cell(L, l, d).valid =>
       Cell(L, l, d).branch_mask = OpenIn(w, PosIn(h, Cell(L, l, d).index))
  /\ \A i \in S : w[PosIn(h, i)].kind = "load"

(* The registers that a stage is about to fill are empty.                  *)
Drained(s, n, L) ==
  /\ \A l \in Lane :
       \/ s = "load_replay" \/ (s = "writeback" /\ l < n) \/ (s = "execute" /\ l >= n)
       => ~L[l].wb.valid
  /\ \A l \in Lane :
       (s = "execute" /\ l < n) \/ (s = "register_read" /\ l >= n) => ~L[l].ex[0].valid

-----------------------------------------------------------------------------
(* Only branches are open, and they have IDs of their own; instructions    *)
(* have destinations of their own.                                         *)
WindowOK(w) ==
  /\ \A k \in 1..Len(w) : Open(w[k]) => w[k].kind = "branch"
  /\ \A j, k \in 1..Len(w) : Open(w[j]) /\ Open(w[k]) /\ w[j].branch_ID = w[k].branch_ID
                               => j = k
  /\ \A j, k \in 1..Len(w) : w[j].dest_valid /\ w[k].dest_valid
                               /\ w[j].phys_reg = w[k].phys_reg => j = k

(* t is what some logical register maps to before position k.              *)
Writes(x, r) == x.dest_valid /\ x.log_reg = r
Mapped(w, c, t, k) ==
  \E r \in LogReg :
    \/ c[r] = t /\ \A j \in 1..(k - 1) : ~Writes(w[j], r)
    \/ \E j \in 1..(k - 1) : /\ Writes(w[j], r) /\ w[j].phys_reg = t
                             /\ \A m \in (j + 1)..(k - 1) : ~Writes(w[m], r)
Sources(w, c) ==
  \A k \in 1..Len(w) : \A t \in w[k].tags : Mapped(w, c, t, k)

(* Instruction j, not a load, is about to leave the execute stages of l.   *)
Finishing(w, h, L, l, j) ==
  w[j].kind # "load" /\ InCell(L, l, ex_depth[l] - 1, AtIn(h, j))

(* A register that is read as written has been, and one that is ready has  *)
(* been or is about to be.                                                 *)
Values(w, c, h, L, R, W) ==
  /\ \A r \in LogReg : c[r] \in W
  /\ \A k \in 1..Len(w) : w[k].dest_valid /\ w[k].completed => w[k].phys_reg \in W
  /\ \A l \in Lane : L[l].wb.valid => Dest(w[PosIn(h, L[l].wb.index)]) \subseteq W
  /\ \A k \in 1..Len(w) : w[k].dest_valid /\ w[k].phys_reg \in R \ W =>
       \E l \in Lane : Finishing(w, h, L, l, k)

(* The lanes that execute before the next Register Read.                   *)
Remaining(s, n) == {l \in Lane : s # "register_read" /\ (s = "execute" => l >= n)}

Operands(s, n, w, h, L, W) ==
  \A l \in Lane : L[l].rr.valid =>
    \A t \in w[PosIn(h, L[l].rr.index)].tags :
      \/ t \in W
      \/ \E j \in 1..Len(w), m \in Remaining(s, n) :
           /\ j < PosIn(h, L[l].rr.index) /\ w[j].dest_valid /\ w[j].phys_reg = t
           /\ Finishing(w, h, L, m, j)

Ages(h, Q) == [i \in Slot |-> PosIn(h, Q[i].index)]

QueueInv == /\ FreeListOK(IQ)
            /\ Linked(IQ.q, Occupied(IQ.q), Ages(AL_head, IQ.q), IQ.oldest, IQ.youngest)
PlaceInv == /\ Placed(window, AL_head, Execution_Lanes, IQ.q, stalled)
            /\ Kept(window, AL_head, Execution_Lanes, IQ.q, stalled)
            /\ Drained(stage, lane, Execution_Lanes)
            /\ WindowOK(window)

-----------------------------------------------------------------------------
(* Entries of the queue.                                                   *)

(* What the assumptions say of the constants.                              *)
LEMMA Constants ==
  /\ size \in Nat \ {0} /\ n_active \in Nat \ {0} /\ issue_width \in Nat \ {0}
  /\ RETIRE_WIDTH \in Nat \ {0}
  /\ n_log_regs \in Nat \ {0} /\ n_phys_regs \in Nat /\ n_branches \in Nat
  /\ n_phys_regs > n_log_regs
  /\ Slot = 0..(size - 1) /\ NoSlot \notin Slot /\ 0 \in Slot
  /\ ALIndex = 0..(n_active - 1) /\ 0 \in ALIndex /\ NoInum \notin ALIndex
  /\ \A l \in Lane : ex_depth[l] \in Nat \ {0}
  /\ LogReg \subseteq PhysReg
BY IssueQueueAssumption, BackendAssumption
   DEF Slot, NoSlot, ALIndex, LogReg, PhysReg

(* The fields of an entry.                                                 *)
LEMMA EntryFields ==
  ASSUME NEW e \in Entry
  PROVE  /\ e.valid \in BOOLEAN /\ e.index \in ALIndex
         /\ e.branch_mask \in SUBSET Branch /\ e.lane_id \in SUBSET Lane
         /\ e.tags \in SUBSET PhysReg /\ e.ready \in SUBSET PhysReg
         /\ e.inum \in ALIndex \cup {NoInum} /\ e.inum_ready \in BOOLEAN
         /\ e.prev \in Slot \cup {NoSlot} /\ e.next \in Slot \cup {NoSlot}
BY DEF Entry

(* Two entries with the same instruction.                                  *)
SameInst(e, f) ==
  /\ e.index = f.index /\ e.branch_mask = f.branch_mask /\ e.lane_id = f.lane_id
  /\ e.tags = f.tags /\ e.ready = f.ready
  /\ e.inum = f.inum /\ e.inum_ready = f.inum_ready
SameLinks(e, f) == e.valid = f.valid /\ e.prev = f.prev /\ e.next = f.next

(* Setting one field of an entry.                                          *)
LEMMA SetValid ==
  ASSUME NEW e \in Entry, NEW v \in BOOLEAN
  PROVE  /\ [e EXCEPT !.valid = v] \in Entry
         /\ [e EXCEPT !.valid = v].valid = v
         /\ [e EXCEPT !.valid = v].prev = e.prev /\ [e EXCEPT !.valid = v].next = e.next
         /\ SameInst([e EXCEPT !.valid = v], e)
BY DEF Entry, SameInst

(* Setting the pointer to the older entry.                                 *)
LEMMA SetPrev ==
  ASSUME NEW e \in Entry, NEW s \in Slot \cup {NoSlot}
  PROVE  /\ [e EXCEPT !.prev = s] \in Entry
         /\ [e EXCEPT !.prev = s].prev = s
         /\ [e EXCEPT !.prev = s].valid = e.valid /\ [e EXCEPT !.prev = s].next = e.next
         /\ SameInst([e EXCEPT !.prev = s], e)
BY DEF Entry, SameInst

(* Setting the pointer to the younger entry.                               *)
LEMMA SetNext ==
  ASSUME NEW e \in Entry, NEW s \in Slot \cup {NoSlot}
  PROVE  /\ [e EXCEPT !.next = s] \in Entry
         /\ [e EXCEPT !.next = s].next = s
         /\ [e EXCEPT !.next = s].valid = e.valid /\ [e EXCEPT !.next = s].prev = e.prev
         /\ SameInst([e EXCEPT !.next = s], e)
BY DEF Entry, SameInst

(* Waking operands.                                                        *)
LEMMA SetReady ==
  ASSUME NEW e \in Entry, NEW R \in SUBSET PhysReg,
         NEW f, f = [e EXCEPT !.ready = R]
  PROVE  /\ f \in Entry /\ SameLinks(f, e)
         /\ f.index = e.index
         /\ f.tags = e.tags
         /\ f.branch_mask = e.branch_mask
         /\ f.ready = R
BY DEF Entry, SameLinks

(* The store has been found.                                               *)
LEMMA SetInumReady ==
  ASSUME NEW e \in Entry, NEW f, f = [e EXCEPT !.inum_ready = TRUE]
  PROVE  /\ f \in Entry /\ SameLinks(f, e)
         /\ f.index = e.index
         /\ f.tags = e.tags
         /\ f.branch_mask = e.branch_mask
         /\ f.ready = e.ready
BY DEF Entry, SameLinks

(* A branch is resolved.                                                   *)
LEMMA SetMask ==
  ASSUME NEW e \in Entry, NEW M \in SUBSET Branch,
         NEW f, f = [e EXCEPT !.branch_mask = M]
  PROVE  /\ f \in Entry /\ SameLinks(f, e)
         /\ f.index = e.index
         /\ f.tags = e.tags
         /\ f.branch_mask = M
         /\ f.ready = e.ready
BY DEF Entry, SameLinks

(* The fields of the queue.                                                *)
LEMMA QueueFields ==
  ASSUME NEW iq \in Queue
  PROVE  /\ iq.q \in [Slot -> Entry] /\ iq.fl \in [Slot -> Slot]
         /\ iq.length \in 0..size /\ iq.fl_length \in 0..size
         /\ iq.fl_head \in Slot /\ iq.fl_tail \in Slot
         /\ iq.oldest \in Slot \cup {NoSlot} /\ iq.youngest \in Slot \cup {NoSlot}
         /\ iq.part_next \in Nat
BY DEF Queue

-----------------------------------------------------------------------------
(* remove().                                                               *)

(* What it does to an entry.                                               *)
LEMMA UnlinkedEntry ==
  ASSUME NEW Q \in [Slot -> Entry], NEW i \in Slot
  PROVE  /\ Unlinked(Q, i) \in [Slot -> Entry]
         /\ \A j \in Slot :
              /\ SameInst(Unlinked(Q, i)[j], Q[j])
              /\ Unlinked(Q, i)[j].valid <=> (j # i /\ Q[j].valid)
              /\ Unlinked(Q, i)[j].next =
                   IF j # i /\ j # Q[i].next /\ j = Q[i].prev THEN Q[i].next ELSE Q[j].next
              /\ Unlinked(Q, i)[j].prev =
                   IF j # i /\ j = Q[i].next THEN Q[i].prev ELSE Q[j].prev
<1>1. Q[i].prev \in Slot \cup {NoSlot} /\ Q[i].next \in Slot \cup {NoSlot}
  BY EntryFields
<1>2. ASSUME NEW j \in Slot
      PROVE  /\ Unlinked(Q, i)[j] \in Entry
             /\ SameInst(Unlinked(Q, i)[j], Q[j])
             /\ Unlinked(Q, i)[j].valid <=> (j # i /\ Q[j].valid)
             /\ Unlinked(Q, i)[j].next =
                  IF j # i /\ j # Q[i].next /\ j = Q[i].prev THEN Q[i].next ELSE Q[j].next
             /\ Unlinked(Q, i)[j].prev =
                  IF j # i /\ j = Q[i].next THEN Q[i].prev ELSE Q[j].prev
  <2>0. Q[j] \in Entry /\ Q[j].valid \in BOOLEAN
    BY EntryFields
  <2>1. CASE j = i
    <3>1. Unlinked(Q, i)[j] = [Q[j] EXCEPT !.valid = FALSE]
      BY <2>1 DEF Unlinked
    <3>2. PICK v \in BOOLEAN : v = FALSE
      OBVIOUS
    <3> QED  BY <3>1, <3>2, <2>0, <2>1, SetValid
  <2>2. CASE j # i /\ j = Q[i].next
    <3>1. Unlinked(Q, i)[j] = [Q[j] EXCEPT !.prev = Q[i].prev]
      BY <2>2 DEF Unlinked
    <3> QED  BY <3>1, <1>1, <2>0, <2>2, SetPrev
  <2>3. CASE j # i /\ j # Q[i].next /\ j = Q[i].prev
    <3>1. Unlinked(Q, i)[j] = [Q[j] EXCEPT !.next = Q[i].next]
      BY <2>3 DEF Unlinked
    <3> QED  BY <3>1, <1>1, <2>0, <2>3, SetNext
  <2>4. CASE j # i /\ j # Q[i].next /\ j # Q[i].prev
    <3>1. Unlinked(Q, i)[j] = Q[j]
      BY <2>4 DEF Unlinked
    <3> QED  BY <3>1, <2>0, <2>4 DEF SameInst
  <2> QED  BY <2>1, <2>2, <2>3, <2>4
<1>3. Unlinked(Q, i) = [j \in Slot |-> Unlinked(Q, i)[j]]
  BY DEF Unlinked
<1> QED  BY <1>2, <1>3

(* What it does to the queue.                                              *)
LEMMA RemovedFields ==
  ASSUME NEW iq \in Queue, NEW i \in Slot
  PROVE  /\ Removed(iq, i).q = Unlinked(iq.q, i)
         /\ Removed(iq, i).length = iq.length - 1
         /\ Removed(iq, i).fl = [iq.fl EXCEPT ![iq.fl_tail] = i]
         /\ Removed(iq, i).fl_head = iq.fl_head
         /\ Removed(iq, i).fl_tail = Next1(iq.fl_tail, size)
         /\ Removed(iq, i).fl_length = iq.fl_length + 1
         /\ Removed(iq, i).oldest = (IF iq.oldest = i THEN iq.q[i].next ELSE iq.oldest)
         /\ Removed(iq, i).youngest = (IF iq.youngest = i THEN iq.q[i].prev ELSE iq.youngest)
         /\ Removed(iq, i).part_next = iq.part_next
<1>1. iq = [q |-> iq.q, length |-> iq.length, fl |-> iq.fl,
            fl_head |-> iq.fl_head, fl_tail |-> iq.fl_tail,
            fl_length |-> iq.fl_length, oldest |-> iq.oldest,
            youngest |-> iq.youngest, part_next |-> iq.part_next]
  BY DEF Queue
<1>2. PICK Q, n, F, t, m, o, y :
        /\ Q = Unlinked(iq.q, i) /\ n = iq.length - 1
        /\ F = [iq.fl EXCEPT ![iq.fl_tail] = i]
        /\ t = Next1(iq.fl_tail, size) /\ m = iq.fl_length + 1
        /\ o = (IF iq.oldest = i THEN iq.q[i].next ELSE iq.oldest)
        /\ y = (IF iq.youngest = i THEN iq.q[i].prev ELSE iq.youngest)
  OBVIOUS
<1>3. Removed(iq, i) = [iq EXCEPT !.q = Q, !.length = n, !.fl = F, !.fl_tail = t,
                                  !.fl_length = m, !.oldest = o, !.youngest = y]
  BY <1>2 DEF Removed
<1>4. Removed(iq, i) = [q |-> Q, length |-> n, fl |-> F, fl_head |-> iq.fl_head,
                        fl_tail |-> t, fl_length |-> m, oldest |-> o, youngest |-> y,
                        part_next |-> iq.part_next]
  BY <1>1, <1>3
<1> QED  BY <1>2, <1>4

(* It is a queue again if its parts have their types.                      *)
LEMMA RemovedType ==
  ASSUME NEW iq \in Queue, NEW i \in Slot, NEW r, r = Removed(iq, i),
         r.q \in [Slot -> Entry], r.length \in 0..size, r.fl \in [Slot -> Slot],
         r.fl_head \in Slot, r.fl_tail \in Slot, r.fl_length \in 0..size,
         r.oldest \in Slot \cup {NoSlot}, r.youngest \in Slot \cup {NoSlot},
         r.part_next \in Nat
  PROVE  r \in Queue
<1>1. iq = [q |-> iq.q, length |-> iq.length, fl |-> iq.fl,
            fl_head |-> iq.fl_head, fl_tail |-> iq.fl_tail,
            fl_length |-> iq.fl_length, oldest |-> iq.oldest,
            youngest |-> iq.youngest, part_next |-> iq.part_next]
  BY DEF Queue
<1>2. PICK Q, n, F, t, m, o, y :
        /\ Q = Unlinked(iq.q, i) /\ n = iq.length - 1
        /\ F = [iq.fl EXCEPT ![iq.fl_tail] = i]
        /\ t = Next1(iq.fl_tail, size) /\ m = iq.fl_length + 1
        /\ o = (IF iq.oldest = i THEN iq.q[i].next ELSE iq.oldest)
        /\ y = (IF iq.youngest = i THEN iq.q[i].prev ELSE iq.youngest)
  OBVIOUS
<1>3. Removed(iq, i) = [iq EXCEPT !.q = Q, !.length = n, !.fl = F, !.fl_tail = t,
                                  !.fl_length = m, !.oldest = o, !.youngest = y]
  BY <1>2 DEF Removed
<1>4. r = [q |-> Q, length |-> n, fl |-> F, fl_head |-> iq.fl_head,
                        fl_tail |-> t, fl_length |-> m, oldest |-> o, youngest |-> y,
                        part_next |-> iq.part_next]
  BY <1>1, <1>3
<1> QED  BY <1>4 DEF Queue

(* Valid entries are finitely many.                                        *)
LEMMA OccupiedFinite ==
  ASSUME NEW Q
  PROVE  /\ Occupied(Q) \subseteq Slot /\ IsFiniteSet(Occupied(Q))
         /\ Cardinality(Occupied(Q)) \in Nat
<1>1. IsFiniteSet(Slot)
  BY Constants, FS_Interval
<1>2. Occupied(Q) \subseteq Slot
  BY DEF Occupied
<1>3. IsFiniteSet(Occupied(Q))
  BY <1>1, <1>2, FS_Subset
<1> QED  BY <1>2, <1>3, FS_CardinalityType

(* The slots of the free list are distinct.                                *)
LEMMA AheadInjective ==
  ASSUME NEW h \in Slot, NEW d \in Slot, NEW e \in Slot,
         Ahead(d, h, size) = Ahead(e, h, size)
  PROVE  d = e
BY Constants DEF Ahead

(* One step behind the tail.                                               *)
LEMMA NextOfAhead ==
  ASSUME NEW h \in Slot, NEW d \in 0..size
  PROVE  /\ d \in Slot => Next1(Ahead(d, h, size), size) = Ahead(d + 1, h, size)
         /\ Ahead(d, h, size) \in Slot
         /\ d > 0 => Ahead(d, h, size) = Ahead(d - 1, Next1(h, size), size)
         /\ Next1(h, size) \in Slot
         /\ Ahead(0, h, size) = h
BY Constants DEF Ahead, Next1

(* A valid entry removed goes to the end of the free list.                 *)
LEMMA RemovedFree ==
  ASSUME NEW iq \in Queue, FreeListOK(iq), NEW i \in Occupied(iq.q)
  PROVE  /\ Removed(iq, i) \in Queue
         /\ Occupied(Removed(iq, i).q) = Occupied(iq.q) \ {i}
         /\ FreeListOK(Removed(iq, i))
<1>0. PICK r, V, n, h : /\ r = Removed(iq, i) /\ V = Occupied(iq.q)
                         /\ n = iq.fl_length /\ h = iq.fl_head
  OBVIOUS
<1>1. /\ i \in Slot /\ iq.q[i].valid /\ iq.q \in [Slot -> Entry]
      /\ iq.fl \in [Slot -> Slot] /\ h \in Slot /\ iq.fl_tail \in Slot
      /\ n \in 0..size /\ iq.length \in 0..size
  <2>1. i \in Slot /\ iq.q[i].valid
    BY DEF Occupied
  <2> QED  BY <2>1, <1>0, QueueFields
<1>2. /\ r.q = Unlinked(iq.q, i) /\ r.length = iq.length - 1
      /\ r.fl = [iq.fl EXCEPT ![iq.fl_tail] = i] /\ r.fl_head = h
      /\ r.fl_tail = Next1(iq.fl_tail, size) /\ r.fl_length = n + 1
  BY <1>0, <1>1, RemovedFields
<1>a. \A j \in Slot : r.q[j].valid <=> (j # i /\ iq.q[j].valid)
  <2>1. r.q = Unlinked(iq.q, i) /\ iq.q \in [Slot -> Entry] /\ i \in Slot
    BY <1>1, <1>2
  <2> QED  BY <2>1, UnlinkedEntry
<1>b. size \in Nat \ {0} /\ Slot = 0..(size - 1)
  BY Constants
<1>3. Occupied(r.q) = V \ {i}
  BY <1>0, <1>a DEF Occupied
<1>4. IsFiniteSet(V) /\ i \in V /\ iq.length = Cardinality(V)
  BY <1>0, OccupiedFinite DEF FreeListOK
<1>5. r.length = Cardinality(Occupied(r.q)) /\ Cardinality(V) \in Nat
      /\ Cardinality(Occupied(r.q)) \in Nat
  BY <1>2, <1>3, <1>4, FS_RemoveElement, FS_CardinalityType, OccupiedFinite
<1>6. iq.length > 0 /\ iq.length + n = size /\ n \in Slot
  <2>1. iq.length + n = size
    BY <1>0 DEF FreeListOK
  <2> QED  BY <2>1, <1>1, <1>2, <1>4, <1>5, <1>b
<1>7. iq.fl_tail = Ahead(n, h, size)
  BY <1>0 DEF FreeListOK
<1>8. r.fl_tail = Ahead(n + 1, h, size) /\ r.fl_tail \in Slot
  <2>1. n + 1 \in 0..size
    BY <1>1, <1>6, <1>b
  <2>2. r.fl_tail = Ahead(n + 1, h, size)
    BY <1>1, <1>2, <1>6, <1>7, NextOfAhead
  <2>3. h \in Slot
    BY <1>1
  <2>4. Ahead(n + 1, h, size) \in Slot
    BY <2>1, <2>3, NextOfAhead
  <2> QED  BY <2>2, <2>4
<1>9. \A d \in 0..n : Nth(r, d) = IF d = n THEN i ELSE Nth(iq, d)
  <2> SUFFICES ASSUME NEW d \in 0..n
               PROVE  Nth(r, d) = IF d = n THEN i ELSE Nth(iq, d)
    OBVIOUS
  <2>1. d \in Slot /\ Ahead(d, h, size) \in Slot
    <3>1. d \in Slot /\ d \in 0..size
      <4>1. n \in Slot
        BY <1>6
      <4> QED  BY <4>1, <1>b
    <3> QED  BY <3>1, <1>1, NextOfAhead
  <2>2. Ahead(d, h, size) = iq.fl_tail <=> d = n
    BY <2>1, <1>1, <1>6, <1>7, AheadInjective
  <2> QED  BY <2>1, <2>2, <1>0, <1>1, <1>2 DEF Nth
<1>10. \A d \in 0..(n - 1) : Nth(iq, d) \in Slot /\ ~iq.q[Nth(iq, d)].valid
  <2>1. \A d \in 0..(n - 1) : d \in 0..size
    BY <1>1, <1>b
  <2> QED  BY <2>1, <1>0, <1>1, NextOfAhead DEF FreeListOK, Nth
<1>11. \A d \in 0..n : ~r.q[Nth(r, d)].valid
  <2> SUFFICES ASSUME NEW d \in 0..n
               PROVE  ~r.q[Nth(r, d)].valid
    OBVIOUS
  <2>1. CASE d = n
    BY <2>1, <1>9, <1>1, <1>a
  <2>2. CASE d # n
    <3>1. d \in 0..(n - 1)
      BY <2>2, <1>1
    <3> QED  BY <3>1, <2>2, <1>9, <1>10, <1>a
  <2> QED  BY <2>1, <2>2
<1>12. \A d, e \in 0..n : Nth(r, d) = Nth(r, e) => d = e
  <2>1. \A d \in 0..n : d # n => d \in 0..(n - 1)
    BY <1>1
  <2>2. \A d, e \in 0..(n - 1) : Nth(iq, d) = Nth(iq, e) => d = e
    BY <1>0 DEF FreeListOK
  <2>3. \A d \in 0..(n - 1) : Nth(iq, d) # i
    BY <1>10, <1>1
  <2> QED  BY <2>1, <2>2, <2>3, <1>9
<1>13. \A j \in Slot \ Occupied(r.q) : \E d \in 0..n : Nth(r, d) = j
  <2> SUFFICES ASSUME NEW j \in Slot \ Occupied(r.q)
               PROVE  \E d \in 0..n : Nth(r, d) = j
    OBVIOUS
  <2>1. CASE j = i
    <3>1. n \in 0..n
      BY <1>1
    <3> QED  BY <3>1, <2>1, <1>9
  <2>2. CASE j # i
    <3>1. j \in Slot \ V
      BY <2>2, <1>3
    <3>2. PICK d \in 0..(n - 1) : Nth(iq, d) = j
      BY <3>1, <1>0 DEF FreeListOK
    <3>3. d \in 0..n /\ d # n
      BY <1>1
    <3> QED  BY <3>2, <3>3, <1>9
  <2> QED  BY <2>1, <2>2
<1>14. r.length + r.fl_length = size /\ r.fl_length - 1 = n
       /\ r.length \in 0..size /\ r.fl_length \in 0..size
  BY <1>1, <1>2, <1>6
<1>15. FreeListOK(r)
  BY <1>0, <1>2, <1>5, <1>8, <1>11, <1>12, <1>13, <1>14 DEF FreeListOK
<1>16. r \in Queue
  <2>0. r.q \in [Slot -> Entry]
    <3>1. i \in Slot /\ iq.q \in [Slot -> Entry] /\ r.q = Unlinked(iq.q, i)
      BY <1>1, <1>2
    <3>2. Unlinked(iq.q, i) \in [Slot -> Entry]
      BY <3>1, UnlinkedEntry
    <3> QED  BY <3>1, <3>2
  <2>1. r.q \in [Slot -> Entry] /\ r.fl \in [Slot -> Slot]
    BY <2>0, <1>1, <1>2
  <2>2. iq.q[i].next \in Slot \cup {NoSlot} /\ iq.q[i].prev \in Slot \cup {NoSlot}
    BY <1>1, EntryFields
  <2>3. /\ r.oldest \in Slot \cup {NoSlot} /\ r.youngest \in Slot \cup {NoSlot}
        /\ r.part_next \in Nat /\ r.fl_head \in Slot
    BY <2>2, <1>0, <1>1, <1>2, RemovedFields, QueueFields
  <2> QED  BY <2>1, <2>3, <1>0, <1>1, <1>8, <1>14, RemovedType
<1> QED  BY <1>0, <1>3, <1>15, <1>16

(* Ages tell the valid entries apart.                                      *)
Distinct(V, K) == /\ V \subseteq Slot /\ \A i \in Slot : K[i] \in Int
                  /\ \A i, j \in V : K[i] = K[j] => i = j

(* Its neighbours are linked to each other.                                *)
LEMMA RemovedLinked ==
  ASSUME NEW iq \in Queue, NEW K, NEW i, NEW V, V = Occupied(iq.q), i \in V,
         Distinct(V, K), Linked(iq.q, V, K, iq.oldest, iq.youngest)
  PROVE  Linked(Removed(iq, i).q, V \ {i}, K, Removed(iq, i).oldest, Removed(iq, i).youngest)
<1>0. i \in Slot /\ iq.q \in [Slot -> Entry] /\ V \subseteq Slot /\ NoSlot \notin V
  BY QueueFields, Constants DEF Occupied
<1>1. PICK Q : Q = iq.q
  OBVIOUS
<1>2. PICK R, o, y : /\ R = Removed(iq, i).q /\ R = Unlinked(Q, i)
                     /\ o = Removed(iq, i).oldest /\ y = Removed(iq, i).youngest
                     /\ o = (IF iq.oldest = i THEN Q[i].next ELSE iq.oldest)
                     /\ y = (IF iq.youngest = i THEN Q[i].prev ELSE iq.youngest)
  BY <1>0, <1>1, RemovedFields
<1>3. PICK W : W = V \ {i}
  OBVIOUS
<1>4. Behind(V, K, i, Q[i].next) /\ Ahd(V, K, i, Q[i].prev)
  BY <1>1 DEF Linked
<1>5. \A j \in V : K[j] \in Int /\ (K[j] = K[i] => j = i)
  BY DEF Distinct
<1>6. IF W = {} THEN o = NoSlot /\ y = NoSlot
      ELSE /\ o \in W /\ \A m \in W : ~(K[m] < K[o])
           /\ y \in W /\ \A m \in W : ~(K[y] < K[m])
  <2>1. /\ iq.oldest \in V /\ \A m \in V : ~(K[m] < K[iq.oldest])
        /\ iq.youngest \in V /\ \A m \in V : ~(K[iq.youngest] < K[m])
    BY DEF Linked
  <2>2. CASE W = {}
    <3>1. \A m \in V : m = i
      BY <2>2, <1>3
    <3>2. iq.oldest = i /\ iq.youngest = i
      BY <2>1, <3>1
    <3>3. Q[i].next = NoSlot
      BY <3>1, <1>4, <1>5 DEF Behind
    <3>4. Q[i].prev = NoSlot
      BY <3>1, <1>4, <1>5 DEF Ahd
    <3> QED  BY <3>2, <3>3, <3>4, <1>2, <2>2
  <2>3. ASSUME W # {}
        PROVE  o \in W /\ \A m \in W : ~(K[m] < K[o])
    <3>1. CASE iq.oldest = i
      <4>1. PICK m \in W : TRUE
        BY <2>3
      <4>2. m \in V /\ K[i] < K[m]
        BY <4>1, <3>1, <2>1, <1>3, <1>5
      <4>3. Q[i].next # NoSlot
        BY <4>2, <1>4 DEF Behind
      <4>4. o \in V /\ K[i] < K[o] /\ \A k \in V : ~(K[i] < K[k] /\ K[k] < K[o])
        BY <4>3, <1>4, <1>2, <3>1 DEF Behind
      <4>5. \A k \in W : K[i] < K[k]
        BY <3>1, <2>1, <1>3, <1>5
      <4> QED  BY <4>4, <4>5, <1>3, <1>5
    <3>2. CASE iq.oldest # i
      BY <3>2, <1>2, <1>3, <2>1
    <3> QED  BY <3>1, <3>2
  <2>4. ASSUME W # {}
        PROVE  y \in W /\ \A m \in W : ~(K[y] < K[m])
    <3>1. CASE iq.youngest = i
      <4>1. PICK m \in W : TRUE
        BY <2>4
      <4>2. m \in V /\ K[m] < K[i]
        BY <4>1, <3>1, <2>1, <1>3, <1>5
      <4>3. Q[i].prev # NoSlot
        BY <4>2, <1>4 DEF Ahd
      <4>4. y \in V /\ K[y] < K[i] /\ \A k \in V : ~(K[y] < K[k] /\ K[k] < K[i])
        BY <4>3, <1>4, <1>2, <3>1 DEF Ahd
      <4>5. \A k \in W : K[k] < K[i]
        BY <3>1, <2>1, <1>3, <1>5
      <4> QED  BY <4>4, <4>5, <1>3, <1>5
    <3>2. CASE iq.youngest # i
      BY <3>2, <1>2, <1>3, <2>1
    <3> QED  BY <3>1, <3>2
  <2> QED  BY <2>2, <2>3, <2>4
<1>7. ASSUME NEW j \in W
      PROVE  Behind(W, K, j, R[j].next) /\ Ahd(W, K, j, R[j].prev)
  <2>1. /\ j \in V /\ j # i /\ j \in Slot /\ W \subseteq V
        /\ Behind(V, K, j, Q[j].next) /\ Ahd(V, K, j, Q[j].prev)
    BY <1>0, <1>1, <1>3 DEF Linked
  <2>2. /\ R[j].next = (IF j # Q[i].next /\ j = Q[i].prev THEN Q[i].next ELSE Q[j].next)
        /\ R[j].prev = (IF j = Q[i].next THEN Q[i].prev ELSE Q[j].prev)
    BY <1>0, <1>1, <1>2, <2>1, UnlinkedEntry
  <2>3. K[i] \in Int /\ K[j] \in Int /\ K[i] # K[j] /\ i \in V
    BY <2>1, <1>5
  <2>4. j = Q[i].prev => j # Q[i].next
    BY <1>4, <2>1, <2>3, <1>0 DEF Ahd, Behind
  <2>5. j = Q[i].prev <=> Q[j].next = i
    <3>1. j = Q[i].prev => K[j] < K[i] /\ \A m \in V : ~(K[j] < K[m] /\ K[m] < K[i])
      BY <1>4, <2>1, <1>0 DEF Ahd
    <3>2. ASSUME j = Q[i].prev PROVE Q[j].next = i
      <4>1. Q[j].next # NoSlot
        BY <3>1, <3>2, <2>1, <2>3 DEF Behind
      <4>2. /\ Q[j].next \in V /\ K[j] < K[Q[j].next]
            /\ \A m \in V : ~(K[j] < K[m] /\ K[m] < K[Q[j].next])
        BY <4>1, <2>1 DEF Behind
      <4> QED  BY <4>2, <3>1, <3>2, <2>3, <1>5
    <3>3. ASSUME Q[j].next = i PROVE j = Q[i].prev
      <4>1. K[j] < K[i] /\ \A m \in V : ~(K[j] < K[m] /\ K[m] < K[i])
        BY <3>3, <2>1, <1>0 DEF Behind
      <4>2. Q[i].prev # NoSlot
        BY <4>1, <2>1, <1>4 DEF Ahd
      <4>3. /\ Q[i].prev \in V /\ K[Q[i].prev] < K[i]
            /\ \A m \in V : ~(K[Q[i].prev] < K[m] /\ K[m] < K[i])
        BY <4>2, <1>4 DEF Ahd
      <4>4. PICK p : p = Q[i].prev
        OBVIOUS
      <4>5. K[p] = K[j]
        BY <4>1, <4>3, <4>4, <2>1, <2>3, <1>5
      <4> QED  BY <4>3, <4>4, <4>5, <2>1 DEF Distinct
    <3> QED  BY <3>2, <3>3
  <2>6. j = Q[i].next <=> Q[j].prev = i
    <3>1. j = Q[i].next => K[i] < K[j] /\ \A m \in V : ~(K[i] < K[m] /\ K[m] < K[j])
      BY <1>4, <2>1, <1>0 DEF Behind
    <3>2. ASSUME j = Q[i].next PROVE Q[j].prev = i
      <4>1. Q[j].prev # NoSlot
        BY <3>1, <3>2, <2>1, <2>3 DEF Ahd
      <4>2. /\ Q[j].prev \in V /\ K[Q[j].prev] < K[j]
            /\ \A m \in V : ~(K[Q[j].prev] < K[m] /\ K[m] < K[j])
        BY <4>1, <2>1 DEF Ahd
      <4> QED  BY <4>2, <3>1, <3>2, <2>3, <1>5
    <3>3. ASSUME Q[j].prev = i PROVE j = Q[i].next
      <4>1. K[i] < K[j] /\ \A m \in V : ~(K[i] < K[m] /\ K[m] < K[j])
        BY <3>3, <2>1, <1>0 DEF Ahd
      <4>2. Q[i].next # NoSlot
        BY <4>1, <2>1, <1>4 DEF Behind
      <4>3. /\ Q[i].next \in V /\ K[i] < K[Q[i].next]
            /\ \A m \in V : ~(K[i] < K[m] /\ K[m] < K[Q[i].next])
        BY <4>2, <1>4 DEF Behind
      <4>4. PICK p : p = Q[i].next
        OBVIOUS
      <4>5. K[p] = K[j]
        BY <4>1, <4>3, <4>4, <2>1, <2>3, <1>5
      <4> QED  BY <4>3, <4>4, <4>5, <2>1 DEF Distinct
    <3> QED  BY <3>2, <3>3
  <2>7. Behind(W, K, j, R[j].next)
    <3>1. CASE Q[j].next # i
      <4>1. R[j].next = Q[j].next
        BY <3>1, <2>2, <2>5
      <4> QED  BY <4>1, <3>1, <2>1, <1>3 DEF Behind
    <3>2. CASE Q[j].next = i
      <4>1. R[j].next = Q[i].next
        BY <3>2, <2>2, <2>4, <2>5
      <4>2. K[j] < K[i] /\ \A m \in V : ~(K[j] < K[m] /\ K[m] < K[i])
        BY <3>2, <2>1, <1>0 DEF Behind
      <4>3. CASE Q[i].next = NoSlot
        <5>1. \A m \in V : ~(K[i] < K[m])
          BY <4>3, <1>4 DEF Behind
        <5>2. \A m \in W : ~(K[j] < K[m])
          BY <5>1, <4>2, <2>3, <1>3, <1>5
        <5> QED  BY <5>2, <4>1, <4>3 DEF Behind
      <4>4. CASE Q[i].next # NoSlot
        <5>1. /\ Q[i].next \in V /\ K[i] < K[Q[i].next]
              /\ \A m \in V : ~(K[i] < K[m] /\ K[m] < K[Q[i].next])
          BY <4>4, <1>4 DEF Behind
        <5>2. PICK p : p = Q[i].next
          OBVIOUS
        <5>3. p \in W /\ K[j] < K[p]
          BY <5>1, <5>2, <4>2, <2>3, <1>3, <1>5
        <5>4. \A m \in W : ~(K[j] < K[m] /\ K[m] < K[p])
          BY <5>1, <5>2, <4>2, <2>3, <1>3, <1>5
        <5> QED  BY <5>2, <5>3, <5>4, <4>1, <4>4 DEF Behind
      <4> QED  BY <4>3, <4>4
    <3> QED  BY <3>1, <3>2
  <2>8. Ahd(W, K, j, R[j].prev)
    <3>1. CASE Q[j].prev # i
      <4>1. R[j].prev = Q[j].prev
        BY <3>1, <2>2, <2>6
      <4> QED  BY <4>1, <3>1, <2>1, <1>3 DEF Ahd
    <3>2. CASE Q[j].prev = i
      <4>1. R[j].prev = Q[i].prev
        BY <3>2, <2>2, <2>6
      <4>2. K[i] < K[j] /\ \A m \in V : ~(K[i] < K[m] /\ K[m] < K[j])
        BY <3>2, <2>1, <1>0 DEF Ahd
      <4>3. CASE Q[i].prev = NoSlot
        <5>1. \A m \in V : ~(K[m] < K[i])
          BY <4>3, <1>4 DEF Ahd
        <5>2. \A m \in W : ~(K[m] < K[j])
          BY <5>1, <4>2, <2>3, <1>3, <1>5
        <5> QED  BY <5>2, <4>1, <4>3 DEF Ahd
      <4>4. CASE Q[i].prev # NoSlot
        <5>1. /\ Q[i].prev \in V /\ K[Q[i].prev] < K[i]
              /\ \A m \in V : ~(K[Q[i].prev] < K[m] /\ K[m] < K[i])
          BY <4>4, <1>4 DEF Ahd
        <5>2. PICK p : p = Q[i].prev
          OBVIOUS
        <5>3. p \in W /\ K[p] < K[j]
          BY <5>1, <5>2, <4>2, <2>3, <1>3, <1>5
        <5>4. \A m \in W : ~(K[p] < K[m] /\ K[m] < K[j])
          BY <5>1, <5>2, <4>2, <2>3, <1>3, <1>5
        <5> QED  BY <5>2, <5>3, <5>4, <4>1, <4>4 DEF Ahd
      <4> QED  BY <4>3, <4>4
    <3> QED  BY <3>1, <3>2
  <2> QED  BY <2>7, <2>8
<1>8. Linked(R, W, K, o, y)
  BY <1>6, <1>7 DEF Linked
<1> QED  BY <1>2, <1>3, <1>8

(* The issue queue and the ages of its entries.                            *)
QueueOK(iq, K) ==
  /\ iq \in Queue /\ FreeListOK(iq) /\ Distinct(Occupied(iq.q), K)
  /\ Linked(iq.q, Occupied(iq.q), K, iq.oldest, iq.youngest)
SameInsts(iq, r) == /\ \A j \in Slot : SameInst(r.q[j], iq.q[j])
                    /\ r.part_next = iq.part_next

(* remove() keeps the lists.                                               *)
LEMMA RemovedQueue ==
  ASSUME NEW iq, NEW K, QueueOK(iq, K), NEW i \in Occupied(iq.q)
  PROVE  /\ QueueOK(Removed(iq, i), K) /\ SameInsts(iq, Removed(iq, i))
         /\ Occupied(Removed(iq, i).q) = Occupied(iq.q) \ {i}
<1>1. iq \in Queue /\ iq.q \in [Slot -> Entry] /\ i \in Slot
  BY QueueFields DEF QueueOK, Occupied
<1>2. /\ Removed(iq, i) \in Queue /\ FreeListOK(Removed(iq, i))
      /\ Occupied(Removed(iq, i).q) = Occupied(iq.q) \ {i}
  BY RemovedFree DEF QueueOK
<1>3. Linked(Removed(iq, i).q, Occupied(iq.q) \ {i}, K,
             Removed(iq, i).oldest, Removed(iq, i).youngest)
  BY RemovedLinked DEF QueueOK
<1>4. Distinct(Occupied(iq.q) \ {i}, K)
  BY DEF QueueOK, Distinct
<1>5. SameInsts(iq, Removed(iq, i))
  <2>1. Removed(iq, i).q = Unlinked(iq.q, i) /\ Removed(iq, i).part_next = iq.part_next
    BY <1>1, RemovedFields
  <2>2. \A j \in Slot : SameInst(Unlinked(iq.q, i)[j], iq.q[j])
    BY <1>1, UnlinkedEntry
  <2> QED  BY <2>1, <2>2 DEF SameInsts
<1> QED  BY <1>2, <1>3, <1>4, <1>5 DEF QueueOK

-----------------------------------------------------------------------------
(* squash().                                                               *)
Passed(iq, n, b) ==
  IF iq.q[n].valid /\ b \in iq.q[n].branch_mask THEN Removed(iq, n) ELSE iq
Scanning(f, iq, b, m) ==
  f = [n \in 0..m |-> IF n = 0 THEN iq ELSE Passed(f[n - 1], n - 1, b)]

(* Its scan is a function.                                                 *)
LEMMA ScanExists ==
  ASSUME NEW iq, NEW b, NEW n \in Nat
  PROVE  \E f : Scanning(f, iq, b, n)
<1> DEFINE T == {i \in 0..n : ~ \E f : Scanning(f, iq, b, i)}
<1>1. SUFFICES ASSUME n \in T PROVE FALSE
  OBVIOUS
<1>2. T \in SUBSET Nat /\ T # {}
  BY <1>1
<1>3. PICK x \in T : \A y \in T : x <= y
  BY <1>2, LeastNumber
<1>4. x \in Nat /\ x <= n /\ ~ \E f : Scanning(f, iq, b, x)
  OBVIOUS
<1>5. CASE x = 0
  <2>1. Scanning([j \in 0..0 |-> iq], iq, b, 0)
    BY DEF Scanning
  <2> QED  BY <2>1, <1>4, <1>5
<1>6. CASE x # 0
  <2>1. PICK y \in Nat : y + 1 = x /\ y < x /\ y \in 0..n
    <3>1. x - 1 \in Nat /\ (x - 1) + 1 = x /\ x - 1 < x /\ x - 1 \in 0..n
      BY <1>4, <1>6
    <3> QED  BY <3>1
  <2>2. y \notin T
    BY <1>3, <2>1, <1>4
  <2>3. PICK g : Scanning(g, iq, b, y)
    BY <2>1, <2>2
  <2>4. PICK last : last = Passed(g[y], y, b)
    OBVIOUS
  <2>5. PICK f : f = [j \in 0..x |-> IF j = x THEN last ELSE g[j]]
    OBVIOUS
  <2>6. \A j \in 0..y : f[j] = g[j] /\ j \in 0..x
    BY <2>1, <2>5
  <2>7. f[x] = last /\ x \in 0..x /\ x - 1 = y /\ y \in 0..y
    BY <2>1, <2>5, <1>4
  <2>8. \A j \in 0..y : g[j] = IF j = 0 THEN iq ELSE Passed(g[j - 1], j - 1, b)
    BY <2>3 DEF Scanning
  <2>9. \A j \in 0..x : f[j] = IF j = 0 THEN iq ELSE Passed(f[j - 1], j - 1, b)
    <3> SUFFICES ASSUME NEW j \in 0..x
                 PROVE  f[j] = IF j = 0 THEN iq ELSE Passed(f[j - 1], j - 1, b)
      OBVIOUS
    <3>1. CASE j = x
      BY <3>1, <2>4, <2>6, <2>7, <1>6
    <3>2. CASE j # x
      <4>1. j \in 0..y
        BY <3>2, <2>1
      <4>2. j # 0 => j - 1 \in 0..y
        BY <4>1, <2>1
      <4> QED  BY <4>1, <4>2, <2>6, <2>8
    <3> QED  BY <3>1, <3>2
  <2>10. f = [j \in 0..x |-> f[j]]
    BY <2>5
  <2>11. Scanning(f, iq, b, x)
    BY <2>9, <2>10 DEF Scanning
  <2> QED  BY <2>11, <1>4
<1> QED  BY <1>5, <1>6

(* The entries that depend on the branch are gone, the others keep their   *)
(* instruction, and the lists are whole.                                   *)
LEMMA SquashedQueue ==
  ASSUME NEW iq, NEW K, QueueOK(iq, K), NEW b
  PROVE  /\ QueueOK(Squashed(iq, b), K) /\ SameInsts(iq, Squashed(iq, b))
         /\ Occupied(Squashed(iq, b).q) =
              {i \in Occupied(iq.q) : b \notin iq.q[i].branch_mask}
<1>1. size \in Nat \ {0} /\ Slot = 0..(size - 1)
  BY Constants
<1>2. PICK f : /\ Scanning(f, iq, b, size)
               /\ Squashed(iq, b) = [f[size] EXCEPT !.q = [i \in Slot |-> f[size].q[i]]]
  <2>1. \E f : Scanning(f, iq, b, size)
    BY <1>1, ScanExists
  <2>2. PICK f : f = CHOOSE g : Scanning(g, iq, b, size)
    OBVIOUS
  <2>3. Scanning(f, iq, b, size)
    BY <2>1, <2>2
  <2>4. Squashed(iq, b) = [f[size] EXCEPT !.q = [i \in Slot |-> f[size].q[i]]]
    <3>1. Squashed(iq, b) = LET s == CHOOSE g : Scanning(g, iq, b, size)
                            IN  [s[size] EXCEPT !.q = [i \in Slot |-> @[i]]]
      BY Zenon DEF Squashed, Scanning, Passed
    <3> QED  BY <3>1, <2>2
  <2> QED  BY <2>3, <2>4
<1>3. f[0] = iq /\ \A n \in 1..size : f[n] = Passed(f[n - 1], n - 1, b)
  <2>1. \A n \in 0..size : f[n] = IF n = 0 THEN iq ELSE Passed(f[n - 1], n - 1, b)
    BY <1>2 DEF Scanning
  <2>2. 0 \in 0..size /\ \A n \in 1..size : n \in 0..size /\ n # 0
    BY <1>1
  <2> QED  BY <2>1, <2>2
<1> DEFINE Good(n) == /\ QueueOK(f[n], K) /\ SameInsts(iq, f[n])
                      /\ Occupied(f[n].q) = {i \in Occupied(iq.q) :
                           i < n => b \notin iq.q[i].branch_mask}
           T == {n \in 0..size : ~Good(n)}
<1>4. Good(0)
  <2>1. SameInsts(iq, iq)
    BY DEF SameInsts, SameInst
  <2>2. Occupied(iq.q) = {i \in Occupied(iq.q) : i < 0 => b \notin iq.q[i].branch_mask}
    BY <1>1 DEF Occupied
  <2> QED  BY <2>1, <2>2, <1>3
<1>5. ASSUME NEW n \in 1..size, NEW m, m = n - 1, Good(m) PROVE Good(n)
  <2>1. m \in Slot /\ n = m + 1 /\ f[n] = Passed(f[m], m, b)
    BY <1>1, <1>3, <1>5
  <2>2. PICK r : r = f[m]
    OBVIOUS
  <2>3. QueueOK(r, K) /\ SameInsts(iq, r)
        /\ Occupied(r.q) = {i \in Occupied(iq.q) : i < m => b \notin iq.q[i].branch_mask}
    BY <1>5, <2>2
  <2>4. r.q[m].branch_mask = iq.q[m].branch_mask
    BY <2>1, <2>3 DEF SameInsts, SameInst
  <2>5. r.q[m].valid <=> m \in Occupied(iq.q)
    BY <2>1, <2>3, <1>1 DEF Occupied
  <2>6. CASE r.q[m].valid /\ b \in r.q[m].branch_mask
    <3>1. f[n] = Removed(r, m) /\ m \in Occupied(r.q)
      BY <2>1, <2>2, <2>6 DEF Passed, Occupied
    <3>2. /\ QueueOK(f[n], K) /\ SameInsts(r, f[n])
          /\ Occupied(f[n].q) = Occupied(r.q) \ {m}
      BY <3>1, <2>3, RemovedQueue
    <3>3. SameInsts(iq, f[n])
      BY <3>2, <2>3 DEF SameInsts, SameInst
    <3>4. Occupied(f[n].q) = {i \in Occupied(iq.q) : i < n => b \notin iq.q[i].branch_mask}
      <4>1. \A i \in Occupied(iq.q) : i \in Slot
        BY DEF Occupied
      <4> QED  BY <4>1, <3>2, <2>1, <2>3, <2>4, <2>6, <1>1
    <3> QED  BY <3>2, <3>3, <3>4
  <2>7. CASE ~(r.q[m].valid /\ b \in r.q[m].branch_mask)
    <3>1. f[n] = r
      BY <2>1, <2>2, <2>7 DEF Passed
    <3>2. Occupied(r.q) = {i \in Occupied(iq.q) : i < n => b \notin iq.q[i].branch_mask}
      <4>1. \A i \in Occupied(iq.q) : i \in Slot
        BY DEF Occupied
      <4> QED  BY <4>1, <2>1, <2>3, <2>4, <2>5, <2>7, <1>1
    <3> QED  BY <3>1, <3>2, <2>3
  <2> QED  BY <2>6, <2>7
<1>6. Good(size)
  <2> SUFFICES ASSUME T # {} PROVE FALSE
    BY <1>1
  <2>1. T \in SUBSET Nat
    BY <1>1
  <2>2. PICK x \in T : \A y \in T : x <= y
    BY <2>1, LeastNumber
  <2>3. x \in 1..size /\ x - 1 \in 0..size /\ x - 1 < x /\ x \in Int
    BY <1>1, <1>4
  <2>4. x - 1 \notin T
    BY <2>2, <2>3
  <2>5. PICK m : m = x - 1
    OBVIOUS
  <2>6. Good(m)
    BY <2>3, <2>4, <2>5
  <2>7. Good(x)
    BY <2>3, <2>5, <2>6, <1>5
  <2> QED  BY <2>7
<1>7. Squashed(iq, b) = f[size]
  <2>1. f[size] \in Queue
    BY <1>6 DEF QueueOK
  <2>2. PICK r : r = f[size]
    OBVIOUS
  <2>3. r.q = [i \in Slot |-> r.q[i]]
    BY <2>1, <2>2, QueueFields
  <2>4. [r EXCEPT !.q = r.q] = r
    BY <2>1, <2>2 DEF Queue
  <2> QED  BY <2>2, <2>3, <2>4, <1>2
<1>8. {i \in Occupied(iq.q) : i < size => b \notin iq.q[i].branch_mask} =
        {i \in Occupied(iq.q) : b \notin iq.q[i].branch_mask}
  BY <1>1 DEF Occupied
<1> QED  BY <1>6, <1>7, <1>8

-----------------------------------------------------------------------------
(* The operations that leave the lists alone.                              *)

(* Replacing the entries.                                                  *)
LEMMA QueueUpdate ==
  ASSUME NEW iq \in Queue, NEW Q \in [Slot -> Entry], NEW r, r = [iq EXCEPT !.q = Q]
  PROVE  /\ r \in Queue /\ r.q = Q /\ r.length = iq.length
         /\ r.fl = iq.fl /\ r.fl_head = iq.fl_head /\ r.fl_tail = iq.fl_tail
         /\ r.fl_length = iq.fl_length
         /\ r.oldest = iq.oldest /\ r.youngest = iq.youngest
BY DEF Queue

(* Giving priority to another partition.                                   *)
LEMMA PartitionUpdate ==
  ASSUME NEW iq \in Queue, NEW n \in Nat, NEW r, r = [iq EXCEPT !.part_next = n]
  PROVE  /\ r \in Queue /\ r.q = iq.q /\ r.length = iq.length
         /\ r.fl = iq.fl /\ r.fl_head = iq.fl_head /\ r.fl_tail = iq.fl_tail
         /\ r.fl_length = iq.fl_length
         /\ r.oldest = iq.oldest /\ r.youngest = iq.youngest
BY DEF Queue

(* The order of the ages is all that matters of them.                      *)
SameOrder(V, K, J) ==
  \A i, j \in V : (K[i] < K[j] <=> J[i] < J[j]) /\ (J[i] = J[j] => K[i] = K[j])

SameLists(iq, r) ==
  /\ r.length = iq.length /\ r.fl = iq.fl /\ r.fl_head = iq.fl_head
  /\ r.fl_tail = iq.fl_tail /\ r.fl_length = iq.fl_length
  /\ r.oldest = iq.oldest /\ r.youngest = iq.youngest
  /\ \A j \in Slot : SameLinks(r.q[j], iq.q[j])

(* A queue with the same lists is as consistent.                           *)
LEMMA SameListsQueue ==
  ASSUME NEW iq, NEW K, QueueOK(iq, K), NEW r \in Queue, SameLists(iq, r),
         NEW J, \A i \in Slot : J[i] \in Int, SameOrder(Occupied(iq.q), K, J)
  PROVE  QueueOK(r, J) /\ Occupied(r.q) = Occupied(iq.q)
<1>1. PICK V : V = Occupied(iq.q)
  OBVIOUS
<1>2. \A j \in Slot : /\ r.q[j].valid = iq.q[j].valid
                      /\ r.q[j].prev = iq.q[j].prev /\ r.q[j].next = iq.q[j].next
  BY DEF SameLists, SameLinks
<1>3. Occupied(r.q) = V /\ V \subseteq Slot
  BY <1>1, <1>2 DEF Occupied
<1>4. FreeListOK(r)
  <2>1. /\ r.length = iq.length /\ r.fl = iq.fl /\ r.fl_head = iq.fl_head
        /\ r.fl_tail = iq.fl_tail /\ r.fl_length = iq.fl_length
    BY DEF SameLists
  <2>2. FreeListOK(iq) /\ iq \in Queue
    BY DEF QueueOK
  <2>3. \A d : Nth(r, d) = Nth(iq, d)
    BY <2>1 DEF Nth
  <2>4. \A d \in 0..(iq.fl_length - 1) : Nth(iq, d) \in Slot
    <3> SUFFICES ASSUME NEW d \in 0..(iq.fl_length - 1) PROVE Nth(iq, d) \in Slot
      OBVIOUS
    <3>1. d \in 0..size /\ iq.fl_head \in Slot /\ iq.fl \in [Slot -> Slot]
      BY <2>2, QueueFields, Constants
    <3>2. Ahead(d, iq.fl_head, size) \in Slot
      BY <3>1, NextOfAhead
    <3> QED  BY <3>1, <3>2 DEF Nth
  <2>5. \A d \in 0..(iq.fl_length - 1) : ~r.q[Nth(iq, d)].valid
    BY <2>2, <2>4, <1>2 DEF FreeListOK
  <2> QED  BY <2>1, <2>2, <2>3, <2>5, <1>1, <1>3 DEF FreeListOK
<1>5. Distinct(V, J) /\ Distinct(V, K)
  BY <1>1, <1>3 DEF QueueOK, Distinct, SameOrder
<1>6. \A i, j \in V : K[i] < K[j] <=> J[i] < J[j]
  BY <1>1 DEF SameOrder
<1>7. Linked(iq.q, V, K, iq.oldest, iq.youngest)
  BY <1>1 DEF QueueOK
<1>8. Linked(r.q, V, J, r.oldest, r.youngest)
  <2>1. r.oldest = iq.oldest /\ r.youngest = iq.youngest
    BY DEF SameLists
  <2>2. \A i \in V : Behind(V, J, i, r.q[i].next)
    <3> SUFFICES ASSUME NEW i \in V PROVE Behind(V, J, i, r.q[i].next)
      OBVIOUS
    <3>1. Behind(V, K, i, iq.q[i].next) /\ r.q[i].next = iq.q[i].next
      BY <1>2, <1>3, <1>7 DEF Linked
    <3> QED  BY <3>1, <1>6 DEF Behind
  <2>3. \A i \in V : Ahd(V, J, i, r.q[i].prev)
    <3> SUFFICES ASSUME NEW i \in V PROVE Ahd(V, J, i, r.q[i].prev)
      OBVIOUS
    <3>1. Ahd(V, K, i, iq.q[i].prev) /\ r.q[i].prev = iq.q[i].prev
      BY <1>2, <1>3, <1>7 DEF Linked
    <3> QED  BY <3>1, <1>6 DEF Ahd
  <2>4. IF V = {} THEN r.oldest = NoSlot /\ r.youngest = NoSlot
        ELSE /\ r.oldest \in V /\ \A m \in V : ~(J[m] < J[r.oldest])
             /\ r.youngest \in V /\ \A m \in V : ~(J[r.youngest] < J[m])
    BY <1>6, <1>7, <2>1 DEF Linked
  <2> QED  BY <2>2, <2>3, <2>4 DEF Linked
<1> QED  BY <1>1, <1>3, <1>4, <1>5, <1>8 DEF QueueOK

(* wakeup() of registers.                                                  *)
LEMMA WokenQueue ==
  ASSUME NEW iq \in Queue, NEW R \in SUBSET PhysReg
  PROVE  /\ Woken(iq, R) \in Queue /\ SameLists(iq, Woken(iq, R))
         /\ \A s \in Slot :
              /\ Woken(iq, R).q[s].index = iq.q[s].index
              /\ Woken(iq, R).q[s].tags = iq.q[s].tags
              /\ Woken(iq, R).q[s].branch_mask = iq.q[s].branch_mask
              /\ iq.q[s].valid => Woken(iq, R).q[s].ready =
                                    iq.q[s].ready \cup (R \cap iq.q[s].tags)
<1>1. iq.q \in [Slot -> Entry]
  BY QueueFields
<1>2. PICK Q : Q = [s \in Slot |->
                      IF iq.q[s].valid
                        THEN [iq.q[s] EXCEPT !.ready = @ \cup (R \cap iq.q[s].tags)]
                        ELSE iq.q[s]]
  OBVIOUS
<1>3. ASSUME NEW s \in Slot
      PROVE  /\ Q[s] \in Entry /\ SameLinks(Q[s], iq.q[s])
             /\ Q[s].index = iq.q[s].index /\ Q[s].tags = iq.q[s].tags
             /\ Q[s].branch_mask = iq.q[s].branch_mask
             /\ iq.q[s].valid => Q[s].ready = iq.q[s].ready \cup (R \cap iq.q[s].tags)
  <2>1. iq.q[s] \in Entry
    BY <1>1
  <2>2. PICK e, S : e = iq.q[s] /\ S = e.ready \cup (R \cap e.tags)
    OBVIOUS
  <2>3. e \in Entry /\ S \in SUBSET PhysReg
    BY <2>1, <2>2, EntryFields
  <2>4. CASE iq.q[s].valid
    <3>1. Q[s] = [e EXCEPT !.ready = S]
      BY <2>2, <2>4, <1>2
    <3> QED  BY <3>1, <2>2, <2>3, SetReady
  <2>5. CASE ~iq.q[s].valid
    <3>1. Q[s] = iq.q[s]
      BY <2>5, <1>2
    <3> QED  BY <3>1, <2>1, <2>5 DEF SameLinks
  <2> QED  BY <2>4, <2>5
<1>4. Q \in [Slot -> Entry]
  BY <1>2, <1>3
<1>5. Woken(iq, R) = [iq EXCEPT !.q = Q]
  BY <1>2, Zenon DEF Woken
<1> QED  BY <1>3, <1>4, <1>5, QueueUpdate DEF SameLists

(* wakeup() of the instructions that wait for a store.                     *)
LEMMA InumWokenQueue ==
  ASSUME NEW iq \in Queue, NEW inum
  PROVE  /\ InumWoken(iq, inum) \in Queue /\ SameLists(iq, InumWoken(iq, inum))
         /\ \A s \in Slot :
              /\ InumWoken(iq, inum).q[s].index = iq.q[s].index
              /\ InumWoken(iq, inum).q[s].tags = iq.q[s].tags
              /\ InumWoken(iq, inum).q[s].branch_mask = iq.q[s].branch_mask
              /\ InumWoken(iq, inum).q[s].ready = iq.q[s].ready
<1>1. iq.q \in [Slot -> Entry]
  BY QueueFields
<1>2. PICK Q : Q = [s \in Slot |->
                      IF iq.q[s].valid /\ iq.q[s].inum = inum
                        THEN [iq.q[s] EXCEPT !.inum_ready = TRUE] ELSE iq.q[s]]
  OBVIOUS
<1>3. ASSUME NEW s \in Slot
      PROVE  /\ Q[s] \in Entry /\ SameLinks(Q[s], iq.q[s])
             /\ Q[s].index = iq.q[s].index /\ Q[s].tags = iq.q[s].tags
             /\ Q[s].branch_mask = iq.q[s].branch_mask
             /\ Q[s].ready = iq.q[s].ready
  <2>1. iq.q[s] \in Entry
    BY <1>1
  <2>2. PICK e : e = iq.q[s]
    OBVIOUS
  <2>3. CASE iq.q[s].valid /\ iq.q[s].inum = inum
    <3>1. Q[s] = [e EXCEPT !.inum_ready = TRUE]
      BY <2>2, <2>3, <1>2
    <3> QED  BY <3>1, <2>1, <2>2, SetInumReady
  <2>4. CASE ~(iq.q[s].valid /\ iq.q[s].inum = inum)
    <3>1. Q[s] = iq.q[s]
      BY <2>4, <1>2
    <3> QED  BY <3>1, <2>1 DEF SameLinks
  <2> QED  BY <2>3, <2>4
<1>4. Q \in [Slot -> Entry]
  BY <1>2, <1>3
<1>5. InumWoken(iq, inum) = [iq EXCEPT !.q = Q]
  BY <1>2, Zenon DEF InumWoken
<1> QED  BY <1>3, <1>4, <1>5, QueueUpdate DEF SameLists

(* clear_branch_bit().                                                     *)
LEMMA ClearedQueue ==
  ASSUME NEW iq \in Queue, NEW b
  PROVE  /\ clear_branch_bit(iq, b) \in Queue /\ SameLists(iq, clear_branch_bit(iq, b))
         /\ \A s \in Slot :
              /\ clear_branch_bit(iq, b).q[s].index = iq.q[s].index
              /\ clear_branch_bit(iq, b).q[s].tags = iq.q[s].tags
              /\ clear_branch_bit(iq, b).q[s].branch_mask = iq.q[s].branch_mask \ {b}
              /\ clear_branch_bit(iq, b).q[s].ready = iq.q[s].ready
<1>1. iq.q \in [Slot -> Entry]
  BY QueueFields
<1>2. PICK Q : Q = [s \in Slot |-> [iq.q[s] EXCEPT !.branch_mask = @ \ {b}]]
  OBVIOUS
<1>3. ASSUME NEW s \in Slot
      PROVE  /\ Q[s] \in Entry /\ SameLinks(Q[s], iq.q[s])
             /\ Q[s].index = iq.q[s].index /\ Q[s].tags = iq.q[s].tags
             /\ Q[s].branch_mask = iq.q[s].branch_mask \ {b}
             /\ Q[s].ready = iq.q[s].ready
  <2>1. PICK e, M : e = iq.q[s] /\ M = e.branch_mask \ {b}
    OBVIOUS
  <2>2. e \in Entry /\ M \in SUBSET Branch 
    BY <1>1, <2>1, EntryFields
  <2>3. Q[s] = [e EXCEPT !.branch_mask = M]
    BY <1>2, <2>1
  <2> QED  BY <2>1, <2>2, <2>3, SetMask
<1>4. Q \in [Slot -> Entry]
  BY <1>2, <1>3
<1>5. clear_branch_bit(iq, b) = [iq EXCEPT !.q = Q]
  BY <1>2, Zenon DEF clear_branch_bit
<1> QED  BY <1>3, <1>4, <1>5, QueueUpdate DEF SameLists

(* The end of select_and_issue().                                          *)
LEMMA NextPartitionQueue ==
  ASSUME NEW iq \in Queue
  PROVE  /\ NextPartition(iq) \in Queue /\ SameLists(iq, NextPartition(iq))
         /\ NextPartition(iq).q = iq.q
<1>1. iq.part_next \in Nat /\ part_size \in Nat
  BY QueueFields, IssueQueueAssumption
<1>2. SameLists(iq, iq)
  BY DEF SameLists, SameLinks
<1>3. PICK n : n = IF iq.part_next + part_size = size THEN 0 ELSE iq.part_next + part_size
  OBVIOUS
<1>4. n \in Nat
  BY <1>1, <1>3
<1>5. NextPartition(iq) = iq \/ NextPartition(iq) = [iq EXCEPT !.part_next = n]
  BY <1>3 DEF NextPartition
<1>6. CASE NextPartition(iq) = iq
  BY <1>2, <1>6
<1>7. CASE NextPartition(iq) = [iq EXCEPT !.part_next = n]
  BY <1>4, <1>7, PartitionUpdate DEF SameLists, SameLinks
<1> QED  BY <1>5, <1>6, <1>7

-----------------------------------------------------------------------------
(* flush(), dispatch() and select_and_issue().                             *)

(* A free entry is an entry.                                               *)
LEMMA BlankType == Blank \in Entry /\ ~Blank.valid
<1>1. PICK F : F = FALSE
  OBVIOUS
<1>2. F \in BOOLEAN /\ TRUE \in BOOLEAN
  BY <1>1
<1> QED  BY <1>1, <1>2, Constants DEF Blank, Entry

(* A queue without entries, whose free list is the identity.               *)
LEMMA NoEntries ==
  ASSUME NEW r \in Queue, \A i \in Slot : ~r.q[i].valid,
         r.length = 0, r.fl = [s \in Slot |-> s], r.fl_head = 0, r.fl_tail = 0,
         r.fl_length = size, r.oldest = NoSlot, r.youngest = NoSlot,
         NEW K, \A i \in Slot : K[i] \in Int
  PROVE  QueueOK(r, K) /\ Occupied(r.q) = {}
<1>1. Occupied(r.q) = {}
  BY DEF Occupied
<1>2. size \in Nat \ {0} /\ Slot = 0..(size - 1)
  BY Constants
<1>3. \A d \in 0..(size - 1) : Nth(r, d) = d
  BY <1>2 DEF Nth, Ahead
<1>4. Ahead(size, 0, size) = 0
  BY <1>2 DEF Ahead
<1>5. Cardinality({}) = 0
  BY FS_EmptySet
<1>6. /\ r.length = Cardinality(Occupied(r.q)) /\ r.length + r.fl_length = size
      /\ r.fl_tail = Ahead(r.fl_length, r.fl_head, size)
  BY <1>1, <1>2, <1>4, <1>5
<1>7. /\ \A d \in 0..(r.fl_length - 1) : ~r.q[Nth(r, d)].valid
      /\ \A d, e \in 0..(r.fl_length - 1) : Nth(r, d) = Nth(r, e) => d = e
      /\ \A i \in Slot \ Occupied(r.q) : \E d \in 0..(r.fl_length - 1) : Nth(r, d) = i
  BY <1>2, <1>3
<1>8. FreeListOK(r)
  BY <1>6, <1>7 DEF FreeListOK
<1> QED  BY <1>1, <1>8 DEF QueueOK, Distinct, Linked

(* The constructor makes one.                                              *)
LEMMA EmptyQueueOK ==
  ASSUME NEW K, \A i \in Slot : K[i] \in Int
  PROVE  QueueOK(EmptyQueue, K) /\ Occupied(EmptyQueue.q) = {}
<1>1. PICK Q, F : Q = [i \in Slot |-> Blank] /\ F = [s \in Slot |-> s]
  OBVIOUS
<1>2. Q \in [Slot -> Entry] /\ F \in [Slot -> Slot] /\ \A i \in Slot : ~Q[i].valid
  BY <1>1, BlankType
<1>3. EmptyQueue = [q |-> Q, length |-> 0, fl |-> F,
                    fl_head |-> 0, fl_tail |-> 0, fl_length |-> size,
                    oldest |-> NoSlot, youngest |-> NoSlot, part_next |-> 0]
  BY <1>1 DEF EmptyQueue
<1>4. PICK r : r = EmptyQueue
  OBVIOUS
<1>5. 0 \in Slot /\ 0 \in 0..size /\ size \in 0..size
  BY Constants
<1>6. r \in Queue
  BY <1>2, <1>3, <1>4, <1>5 DEF Queue
<1>7. /\ r.q = Q /\ r.length = 0 /\ r.fl = F /\ r.fl_head = 0 /\ r.fl_tail = 0
      /\ r.fl_length = size /\ r.oldest = NoSlot /\ r.youngest = NoSlot
  BY <1>3, <1>4
<1>8. QueueOK(r, K) /\ Occupied(r.q) = {}
  BY <1>1, <1>2, <1>6, <1>7, NoEntries
<1> QED  BY <1>4, <1>8

(* flush() makes one.                                                      *)
LEMMA FlushedQueue ==
  ASSUME NEW iq \in Queue, NEW K, \A i \in Slot : K[i] \in Int
  PROVE  QueueOK(Flushed(iq), K) /\ Occupied(Flushed(iq).q) = {}
<1>1. PICK Q, F : /\ Q = [i \in Slot |-> [iq.q[i] EXCEPT !.valid = FALSE]]
                  /\ F = [s \in Slot |-> s]
  OBVIOUS
<1>2. Q \in [Slot -> Entry] /\ \A i \in Slot : ~Q[i].valid
  <2>1. ASSUME NEW i \in Slot PROVE Q[i] \in Entry /\ ~Q[i].valid
    <3>1. PICK e, v : e = iq.q[i] /\ v = FALSE
      OBVIOUS
    <3>2. e \in Entry /\ v \in BOOLEAN
      BY <3>1, QueueFields
    <3>3. Q[i] = [e EXCEPT !.valid = v]
      BY <3>1, <1>1
    <3> QED  BY <3>1, <3>2, <3>3, SetValid
  <2> QED  BY <2>1, <1>1
<1>3. F \in [Slot -> Slot] /\ 0 \in Slot /\ 0 \in 0..size /\ size \in 0..size
  BY <1>1, Constants
<1>4. PICK r : r = [iq EXCEPT !.q = Q, !.length = 0, !.fl = F, !.fl_head = 0,
                              !.fl_tail = 0, !.fl_length = size,
                              !.oldest = NoSlot, !.youngest = NoSlot]
  OBVIOUS
<1>5. r = Flushed(iq)
  BY <1>1, <1>4, Zenon DEF Flushed
<1>6. /\ r \in Queue
      /\ r.q = Q /\ r.length = 0 /\ r.fl = F /\ r.fl_head = 0 /\ r.fl_tail = 0
      /\ r.fl_length = size /\ r.oldest = NoSlot /\ r.youngest = NoSlot
  BY <1>2, <1>3, <1>4 DEF Queue
<1>7. QueueOK(r, K) /\ Occupied(r.q) = {}
  BY <1>1, <1>2, <1>6, NoEntries
<1> QED  BY <1>5, <1>7

(* The slot it fills, and the entry it links.                              *)
Head1(iq) == iq.fl[iq.fl_head]

(* What dispatch() does to the queue.                                      *)
LEMMA DispatchedFields ==
  ASSUME NEW iq \in Queue, iq.fl_length > 0, iq.oldest = NoSlot <=> iq.youngest = NoSlot,
         iq.length < size,
         NEW e \in Entry, NEW r, r = Dispatched(iq, e), NEW f, f = Head1(iq)
  PROVE  /\ r \in Queue /\ r.length = iq.length + 1 /\ r.fl = iq.fl
         /\ r.fl_head = Next1(iq.fl_head, size) /\ r.fl_tail = iq.fl_tail
         /\ r.fl_length = iq.fl_length - 1
         /\ r.oldest = (IF iq.oldest = NoSlot THEN f ELSE iq.oldest)
         /\ r.youngest = f /\ f \in Slot
         /\ r.q[f].valid /\ r.q[f].prev = iq.youngest /\ r.q[f].next = NoSlot
         /\ SameInst(r.q[f], e)
         /\ \A i \in Slot \ {f} :
              /\ r.q[i].valid = iq.q[i].valid /\ r.q[i].prev = iq.q[i].prev
              /\ r.q[i].next = (IF i = iq.youngest THEN f ELSE iq.q[i].next)
              /\ SameInst(r.q[i], iq.q[i])
<1>1. /\ iq.q \in [Slot -> Entry] /\ iq.fl \in [Slot -> Slot]
      /\ iq.length \in 0..size /\ iq.fl_length \in 0..size
      /\ iq.fl_head \in Slot /\ iq.fl_tail \in Slot /\ iq.part_next \in Nat
      /\ iq.oldest \in Slot \cup {NoSlot} /\ iq.youngest \in Slot \cup {NoSlot}
  BY QueueFields
<1>2. f \in Slot
  BY <1>1 DEF Head1
<1>3. PICK new : new = [e EXCEPT !.valid = TRUE, !.prev = iq.youngest, !.next = NoSlot]
  OBVIOUS
<1>4. /\ new \in Entry /\ new.valid /\ new.prev = iq.youngest /\ new.next = NoSlot
      /\ SameInst(new, e)
  <2>1. PICK y : y = iq.youngest /\ y \in Slot \cup {NoSlot}
    BY <1>1
  <2>2. new = [e EXCEPT !.valid = TRUE, !.prev = y, !.next = NoSlot]
    BY <2>1, <1>3
  <2>3. new \in Entry /\ new.valid /\ new.prev = y /\ new.next = NoSlot /\ SameInst(new, e)
    BY <2>1, <2>2 DEF Entry, SameInst
  <2> QED  BY <2>1, <2>3
<1>5. PICK Q : Q = [i \in Slot |->
                      IF i = f THEN new
                      ELSE IF ~(iq.oldest = NoSlot) /\ i = iq.youngest
                             THEN [iq.q[i] EXCEPT !.next = f] ELSE iq.q[i]]
  OBVIOUS
<1>6. PICK n, h, m, o : /\ n = iq.length + 1 /\ h = Next1(iq.fl_head, size)
                        /\ m = iq.fl_length - 1
                        /\ o = (IF iq.oldest = NoSlot THEN f ELSE iq.oldest)
  OBVIOUS
<1>7. r = [iq EXCEPT !.q = Q, !.length = n, !.fl_head = h, !.fl_length = m,
                     !.oldest = o, !.youngest = f]
  BY <1>3, <1>5, <1>6, Zenon DEF Dispatched, Head1
<1>8. ASSUME NEW i \in Slot \ {f}
      PROVE  /\ Q[i] \in Entry
             /\ Q[i].valid = iq.q[i].valid /\ Q[i].prev = iq.q[i].prev
             /\ Q[i].next = (IF i = iq.youngest THEN f ELSE iq.q[i].next)
             /\ SameInst(Q[i], iq.q[i])
  <2>1. PICK d : d = iq.q[i] /\ d \in Entry
    BY <1>1
  <2>2. CASE i = iq.youngest
    <3>1. ~(iq.oldest = NoSlot)
      BY <2>2, Constants
    <3>2. Q[i] = [d EXCEPT !.next = f]
      BY <3>1, <2>1, <2>2, <1>5
    <3> QED  BY <3>2, <2>1, <2>2, <1>2, SetNext
  <2>3. CASE i # iq.youngest
    <3>1. Q[i] = d
      BY <2>1, <2>3, <1>5
    <3> QED  BY <3>1, <2>1, <2>3 DEF SameInst
  <2> QED  BY <2>2, <2>3
<1>9. Q[f] = new
  BY <1>2, <1>5
<1>10. Q \in [Slot -> Entry]
  <2>1. \A i \in Slot : Q[i] \in Entry
    BY <1>4, <1>8, <1>9
  <2> QED  BY <2>1, <1>5
<1>11. h \in Slot /\ n \in 0..size /\ m \in 0..size /\ o \in Slot \cup {NoSlot}
  <2>1. h \in Slot
    <3>1. iq.fl_head \in Slot /\ 0 \in 0..size
      BY <1>1, Constants
    <3>2. Next1(iq.fl_head, size) \in Slot
      BY <3>1, NextOfAhead
    <3> QED  BY <3>2, <1>6
  <2>2. n \in 0..size /\ m \in 0..size
    <3>1. size \in Nat
      BY Constants
    <3> QED  BY <3>1, <1>1, <1>6
  <2> QED  BY <2>1, <2>2, <1>1, <1>2, <1>6
<1>12. /\ r \in Queue /\ r.q = Q /\ r.length = n /\ r.fl = iq.fl /\ r.fl_head = h
       /\ r.fl_tail = iq.fl_tail /\ r.fl_length = m /\ r.oldest = o /\ r.youngest = f
  BY <1>1, <1>2, <1>7, <1>10, <1>11 DEF Queue
<1> QED  BY <1>2, <1>4, <1>6, <1>8, <1>9, <1>12

(* The free list loses its first slot to the new entry.                    *)
LEMMA DispatchedFree ==
  ASSUME NEW iq \in Queue, FreeListOK(iq), iq.fl_length > 0,
         iq.oldest = NoSlot <=> iq.youngest = NoSlot,
         NEW e \in Entry, NEW r, r = Dispatched(iq, e), NEW f, f = Head1(iq)
  PROVE  /\ r \in Queue /\ FreeListOK(r) /\ f \in Slot \ Occupied(iq.q)
         /\ Occupied(r.q) = Occupied(iq.q) \cup {f}
<1>1. PICK n, h, V : n = iq.fl_length /\ h = iq.fl_head /\ V = Occupied(iq.q)
  OBVIOUS
<1>2. size \in Nat \ {0} /\ Slot = 0..(size - 1)
  BY Constants
<1>3. /\ iq.length \in 0..size /\ n \in 0..size /\ h \in Slot
      /\ iq.fl \in [Slot -> Slot] /\ iq.q \in [Slot -> Entry]
  BY <1>1, QueueFields
<1>4. iq.length + n = size /\ iq.length = Cardinality(V) /\ iq.fl_tail = Ahead(n, h, size)
  BY <1>1 DEF FreeListOK
<1>5. n > 0 /\ iq.length < size /\ n - 1 \in 0..size /\ n - 1 \in Slot
  <2>1. n > 0 /\ n \in Int /\ size \in Int /\ n <= size /\ iq.length \in Int
    BY <1>1, <1>2, <1>3
  <2>2. iq.length < size
    BY ONLY <2>1, <1>4
  <2> QED  BY ONLY <2>1, <2>2, <1>2
<1>6. /\ r \in Queue /\ r.length = iq.length + 1 /\ r.fl = iq.fl
      /\ r.fl_head = Next1(h, size) /\ r.fl_tail = iq.fl_tail
      /\ r.fl_length = n - 1 /\ f \in Slot /\ r.q[f].valid
      /\ \A i \in Slot \ {f} : r.q[i].valid = iq.q[i].valid
  BY <1>1, <1>5, DispatchedFields
<1>7. f = Nth(iq, 0)
  <2>1. Ahead(0, h, size) = h
    BY <1>2, <1>3 DEF Ahead
  <2> QED  BY <2>1, <1>1 DEF Nth, Head1
<1>8. f \in Slot \ V
  <2>1. 0 \in 0..(n - 1)
    BY <1>3, <1>5
  <2>2. ~iq.q[f].valid
    BY <2>1, <1>1, <1>7 DEF FreeListOK
  <2> QED  BY <2>2, <1>1, <1>6 DEF Occupied
<1>9. Occupied(r.q) = V \cup {f}
  BY <1>1, <1>6 DEF Occupied
<1>10. Cardinality(Occupied(r.q)) = r.length
  <2>1. IsFiniteSet(V) /\ f \notin V
    BY <1>1, <1>8, OccupiedFinite
  <2>2. Cardinality(V \cup {f}) = Cardinality(V) + 1
    BY <2>1, FS_AddElement
  <2> QED  BY <2>2, <1>4, <1>6, <1>9
<1>11. \A d \in 0..(n - 2) : Nth(r, d) = Nth(iq, d + 1) /\ d + 1 \in 0..(n - 1) /\ d + 1 # 0
  <2> SUFFICES ASSUME NEW d \in 0..(n - 2)
               PROVE  Nth(r, d) = Nth(iq, d + 1) /\ d + 1 \in 0..(n - 1) /\ d + 1 # 0
    OBVIOUS
  <2>1. d + 1 \in 0..(n - 1) /\ d + 1 # 0 /\ d \in 0..(size - 1)
    BY <1>2, <1>3
  <2>2. Ahead(d, Next1(h, size), size) = Ahead(d + 1, h, size)
    BY <2>1, <1>2, <1>3, NextAhead
  <2> QED  BY <2>1, <2>2, <1>1, <1>6 DEF Nth
<1>12. r.fl_tail = Ahead(n - 1, Next1(h, size), size)
  <2>1. n - 1 \in 0..(size - 1) /\ (n - 1) + 1 = n
    BY <1>2, <1>3, <1>5
  <2>2. Ahead(n - 1, Next1(h, size), size) = Ahead((n - 1) + 1, h, size)
    BY <2>1, <1>2, <1>3, NextAhead
  <2> QED  BY <2>1, <2>2, <1>4, <1>6
<1>13. \A d \in 0..(n - 1) : /\ Nth(iq, d) \in Slot /\ ~iq.q[Nth(iq, d)].valid
                             /\ (Nth(iq, d) = f => d = 0)
  <2> SUFFICES ASSUME NEW d \in 0..(n - 1)
               PROVE  /\ Nth(iq, d) \in Slot /\ ~iq.q[Nth(iq, d)].valid
                      /\ (Nth(iq, d) = f => d = 0)
    OBVIOUS
  <2>1. d \in 0..size /\ 0 \in 0..(n - 1)
    BY <1>2, <1>3, <1>5
  <2>2. Ahead(d, h, size) \in Slot
    BY <2>1, <1>3, NextOfAhead
  <2>3. Nth(iq, d) \in Slot
    BY <2>2, <1>1, <1>3 DEF Nth
  <2>4. ~iq.q[Nth(iq, d)].valid /\ (Nth(iq, d) = Nth(iq, 0) => d = 0)
    BY <2>1, <1>1 DEF FreeListOK
  <2> QED  BY <2>3, <2>4, <1>7
<1>14. \A d \in 0..(n - 2) : ~r.q[Nth(r, d)].valid
  BY <1>6, <1>11, <1>13
<1>15. \A d, c \in 0..(n - 2) : Nth(r, d) = Nth(r, c) => d = c
  <2>1. \A d, c \in 0..(n - 1) : Nth(iq, d) = Nth(iq, c) => d = c
    BY <1>1 DEF FreeListOK
  <2> QED  BY <2>1, <1>11
<1>16. \A i \in Slot \ Occupied(r.q) : \E d \in 0..(n - 2) : Nth(r, d) = i
  <2> SUFFICES ASSUME NEW i \in Slot \ Occupied(r.q)
               PROVE  \E d \in 0..(n - 2) : Nth(r, d) = i
    OBVIOUS
  <2>1. i \in Slot \ V /\ i # f
    BY <1>9
  <2>2. PICK c \in 0..(n - 1) : Nth(iq, c) = i
    BY <2>1, <1>1 DEF FreeListOK
  <2>3. c # 0
    BY <2>1, <2>2, <1>7
  <2>4. c - 1 \in 0..(n - 2) /\ (c - 1) + 1 = c
    BY <2>3, <1>3
  <2>5. Nth(r, c - 1) = i
    BY <2>2, <2>4, <1>11
  <2> QED  BY <2>4, <2>5
<1>17. r.fl_length - 1 = n - 2 /\ r.length + r.fl_length = size
  BY <1>2, <1>3, <1>4, <1>6
<1>18. FreeListOK(r)
  BY <1>6, <1>10, <1>12, <1>14, <1>15, <1>16, <1>17 DEF FreeListOK
<1> QED  BY <1>1, <1>6, <1>8, <1>9, <1>18

(* The new entry is the youngest.                                          *)
LEMMA DispatchedQueue ==
  ASSUME NEW iq, NEW K, QueueOK(iq, K), ~stall(iq, 1), NEW e \in Entry,
         NEW r, r = Dispatched(iq, e), NEW f, f = Head1(iq),
         NEW J, \A i \in Slot : J[i] \in Int, \A i \in Occupied(iq.q) : J[i] = K[i],
         \A i \in Occupied(iq.q) : J[i] < J[f]
  PROVE  /\ QueueOK(r, J) /\ f \in Slot \ Occupied(iq.q)
         /\ Occupied(r.q) = Occupied(iq.q) \cup {f}
         /\ SameInst(r.q[f], e)
         /\ \A i \in Slot \ {f} : SameInst(r.q[i], iq.q[i])
<1>1. PICK V, Q : V = Occupied(iq.q) /\ Q = iq.q
  OBVIOUS
<1>2. /\ iq \in Queue /\ FreeListOK(iq) /\ Distinct(V, K)
      /\ Linked(Q, V, K, iq.oldest, iq.youngest)
  BY <1>1 DEF QueueOK
<1>3. /\ NoSlot \notin V /\ iq.fl_length > 0 /\ iq.length < size
  <2>1. iq.length \in 0..size /\ iq.fl_length \in 0..size /\ size \in Nat
    BY <1>2, QueueFields, Constants
  <2>2. iq.length + iq.fl_length = size
    BY <1>2 DEF FreeListOK
  <2>3. NoSlot \notin V
    BY <1>1, Constants DEF Occupied
  <2> QED  BY <2>1, <2>2, <2>3 DEF stall
<1>4. (iq.oldest = NoSlot <=> V = {}) /\ (iq.youngest = NoSlot <=> V = {})
  BY <1>2, <1>3 DEF Linked
<1>5. /\ r \in Queue /\ FreeListOK(r) /\ f \in Slot \ V
      /\ Occupied(r.q) = V \cup {f}
  BY <1>1, <1>2, <1>3, <1>4, DispatchedFree
<1>6. /\ r.oldest = (IF iq.oldest = NoSlot THEN f ELSE iq.oldest) /\ r.youngest = f
      /\ r.q[f].prev = iq.youngest /\ r.q[f].next = NoSlot /\ SameInst(r.q[f], e)
      /\ \A i \in Slot \ {f} :
           /\ r.q[i].prev = Q[i].prev
           /\ r.q[i].next = (IF i = iq.youngest THEN f ELSE Q[i].next)
           /\ SameInst(r.q[i], Q[i])
  BY <1>1, <1>2, <1>3, <1>4, DispatchedFields
<1>7. PICK W : W = V \cup {f}
  OBVIOUS
<1>8. /\ \A i \in V : J[i] = K[i] /\ J[i] < J[f] /\ J[i] \in Int /\ i # f /\ i \in Slot
      /\ J[f] \in Int /\ f # NoSlot
  BY <1>1, <1>2, <1>5, Constants DEF Distinct
<1>9. Distinct(W, J)
  BY <1>2, <1>5, <1>7, <1>8 DEF Distinct
<1>10. r.youngest \in W /\ \A m \in W : ~(J[r.youngest] < J[m])
  BY <1>6, <1>7, <1>8
<1>11. r.oldest \in W /\ \A m \in W : ~(J[m] < J[r.oldest])
  <2>1. CASE V = {}
    BY <2>1, <1>4, <1>6, <1>7, <1>8
  <2>2. CASE V # {}
    <3>1. iq.oldest \in V /\ \A m \in V : ~(K[m] < K[iq.oldest])
      BY <2>2, <1>2 DEF Linked
    <3> QED  BY <3>1, <2>2, <1>4, <1>6, <1>7, <1>8
  <2> QED  BY <2>1, <2>2
<1>12. Behind(W, J, f, r.q[f].next)
  BY <1>6, <1>7, <1>8 DEF Behind
<1>13. Ahd(W, J, f, r.q[f].prev)
  <2>1. CASE V = {}
    BY <2>1, <1>4, <1>6, <1>7, <1>8 DEF Ahd
  <2>2. CASE V # {}
    <3>1. iq.youngest \in V /\ \A m \in V : ~(K[iq.youngest] < K[m])
      BY <2>2, <1>2 DEF Linked
    <3>2. PICK y : y = iq.youngest /\ r.q[f].prev = y
      BY <1>6
    <3>3. y \in W /\ J[y] < J[f] /\ \A m \in W : ~(J[y] < J[m] /\ J[m] < J[f])
      BY <3>1, <3>2, <1>7, <1>8
    <3> QED  BY <3>2, <3>3, <3>1, <1>3 DEF Ahd
  <2> QED  BY <2>1, <2>2
<1>14. ASSUME NEW i \in V
       PROVE  Behind(W, J, i, r.q[i].next) /\ Ahd(W, J, i, r.q[i].prev)
  <2>1. /\ Behind(V, K, i, Q[i].next) /\ Ahd(V, K, i, Q[i].prev) /\ V # {}
        /\ i \in Slot \ {f}
    BY <1>2, <1>8 DEF Linked
  <2>2. iq.youngest \in V /\ \A m \in V : ~(K[iq.youngest] < K[m])
    BY <2>1, <1>2 DEF Linked
  <2>3. PICK n, p : n = Q[i].next /\ p = Q[i].prev /\ r.q[i].prev = p
                    /\ r.q[i].next = (IF i = iq.youngest THEN f ELSE n)
    BY <2>1, <1>6
  <2>4. Ahd(W, J, i, p)
    <3>1. CASE p = NoSlot
      <4>1. \A m \in V : ~(K[m] < K[i])
        BY <3>1, <2>1, <2>3 DEF Ahd
      <4>2. \A m \in W : ~(J[m] < J[i])
        BY <4>1, <1>7, <1>8
      <4> QED  BY <4>2, <3>1 DEF Ahd
    <3>2. CASE p # NoSlot
      <4>1. p \in V /\ K[p] < K[i] /\ \A m \in V : ~(K[p] < K[m] /\ K[m] < K[i])
        BY <3>2, <2>1, <2>3 DEF Ahd
      <4>2. p \in W /\ J[p] < J[i] /\ \A m \in W : ~(J[p] < J[m] /\ J[m] < J[i])
        BY <4>1, <1>7, <1>8
      <4> QED  BY <4>2, <3>2 DEF Ahd
    <3> QED  BY <3>1, <3>2
  <2>5. CASE i = iq.youngest
    <3>1. \A m \in W : ~(J[i] < J[m] /\ J[m] < J[f])
      BY <2>2, <2>5, <1>7, <1>8
    <3> QED  BY <3>1, <2>3, <2>4, <2>5, <1>7, <1>8 DEF Behind
  <2>6. CASE i # iq.youngest
    <3>1. n # NoSlot
      <4>1. K[i] # K[iq.youngest]
        BY <2>2, <2>6, <1>2 DEF Distinct
      <4>2. K[i] < K[iq.youngest]
        BY <4>1, <2>2, <1>8
      <4> QED  BY <4>2, <2>1, <2>2, <2>3 DEF Behind
    <3>2. n \in V /\ K[i] < K[n] /\ \A m \in V : ~(K[i] < K[m] /\ K[m] < K[n])
      BY <3>1, <2>1, <2>3 DEF Behind
    <3>3. n \in W /\ J[i] < J[n] /\ \A m \in W : ~(J[i] < J[m] /\ J[m] < J[n])
      BY <3>2, <1>7, <1>8
    <3> QED  BY <3>1, <3>3, <2>3, <2>4, <2>6 DEF Behind
  <2> QED  BY <2>5, <2>6
<1>15. Linked(r.q, W, J, r.oldest, r.youngest)
  <2>1. \A i \in W : Behind(W, J, i, r.q[i].next) /\ Ahd(W, J, i, r.q[i].prev)
    BY <1>7, <1>12, <1>13, <1>14
  <2>2. W # {}
    BY <1>7
  <2> QED  BY <2>1, <2>2, <1>10, <1>11 DEF Linked
<1> QED  BY <1>1, <1>5, <1>6, <1>7, <1>9, <1>15 DEF QueueOK

(* The walk of select_and_issue() along the next pointers.                 *)
Walked(iq, f, k) ==
  IF k = 0 THEN iq.oldest
  ELSE IF f[k - 1] = NoSlot THEN NoSlot ELSE iq.q[f[k - 1]].next
Walking(f, iq, m) == f = [k \in 0..m |-> Walked(iq, f, k)]

(* It is a function.                                                       *)
LEMMA WalkExists ==
  ASSUME NEW iq, NEW n \in Nat
  PROVE  \E f : Walking(f, iq, n)
<1> DEFINE T == {i \in 0..n : ~ \E f : Walking(f, iq, i)}
<1>1. SUFFICES ASSUME n \in T PROVE FALSE
  OBVIOUS
<1>2. T \in SUBSET Nat /\ T # {}
  BY <1>1
<1>3. PICK x \in T : \A y \in T : x <= y
  BY <1>2, LeastNumber
<1>4. x \in Nat /\ x <= n /\ ~ \E f : Walking(f, iq, x)
  OBVIOUS
<1>5. CASE x = 0
  <2>1. Walking([j \in 0..0 |-> iq.oldest], iq, 0)
    BY DEF Walking, Walked
  <2> QED  BY <2>1, <1>4, <1>5
<1>6. CASE x # 0
  <2>1. PICK y \in Nat : y + 1 = x /\ y < x /\ y \in 0..n
    <3>1. x - 1 \in Nat /\ (x - 1) + 1 = x /\ x - 1 < x /\ x - 1 \in 0..n
      BY <1>4, <1>6
    <3> QED  BY <3>1
  <2>2. y \notin T
    BY <1>3, <2>1, <1>4
  <2>3. PICK g : Walking(g, iq, y)
    BY <2>1, <2>2
  <2>4. PICK last : last = IF g[y] = NoSlot THEN NoSlot ELSE iq.q[g[y]].next
    OBVIOUS
  <2>5. PICK f : f = [j \in 0..x |-> IF j = x THEN last ELSE g[j]]
    OBVIOUS
  <2>6. \A j \in 0..y : f[j] = g[j] /\ j \in 0..x
    BY <2>1, <2>5
  <2>7. f[x] = last /\ x \in 0..x /\ x - 1 = y /\ y \in 0..y
    BY <2>1, <2>5, <1>4
  <2>8. \A j \in 0..y : g[j] = Walked(iq, g, j)
    BY <2>3 DEF Walking
  <2>9. \A j \in 0..x : f[j] = Walked(iq, f, j)
    <3> SUFFICES ASSUME NEW j \in 0..x
                 PROVE  f[j] = Walked(iq, f, j)
      OBVIOUS
    <3>1. CASE j = x
      <4>1. f[j - 1] = g[y]
        BY <3>1, <2>6, <2>7
      <4> QED  BY <3>1, <4>1, <2>4, <2>7, <1>6 DEF Walked
    <3>2. CASE j # x
      <4>1. j \in 0..y
        BY <3>2, <2>1
      <4>2. j # 0 => j - 1 \in 0..y
        BY <4>1, <2>1
      <4>3. j # 0 => f[j - 1] = g[j - 1]
        BY <4>2, <2>6
      <4> QED  BY <4>1, <4>3, <2>6, <2>8 DEF Walked
    <3> QED  BY <3>1, <3>2
  <2>10. f = [j \in 0..x |-> f[j]]
    BY <2>5
  <2>11. Walking(f, iq, x)
    BY <2>9, <2>10 DEF Walking
  <2> QED  BY <2>11, <1>4
<1> QED  BY <1>5, <1>6

(* Every entry it examines is one of the queue's.                          *)
LEMMA ScannedSlot ==
  ASSUME NEW iq \in Queue, NEW k \in Slot
  PROVE  Scanned(iq, k) \in Slot \cup {NoSlot}
<1>1. size \in Nat \ {0} /\ Slot = 0..(size - 1) /\ iq.part_next \in Nat
  BY Constants, QueueFields
<1>2. CASE ~IDEAL_AGE_BASED
  <2>1. iq.part_next + k \in Nat
    BY <1>1
  <2>2. \A a \in Nat : a % size \in 0..(size - 1)
    BY <1>1
  <2> QED  BY <2>1, <2>2, <1>1, <1>2 DEF Scanned
<1>3. CASE IDEAL_AGE_BASED
  <2>1. PICK f : Walking(f, iq, size) /\ InAge(iq) = f
    <3>1. \E f : Walking(f, iq, size)
      BY <1>1, WalkExists
    <3>2. PICK f : f = CHOOSE g : Walking(g, iq, size)
      OBVIOUS
    <3>3. InAge(iq) = f
      BY <3>2, Zenon DEF InAge, Walking, Walked
    <3> QED  BY <3>1, <3>2, <3>3
  <2>2. \A j \in 0..size : f[j] = Walked(iq, f, j)
    BY <2>1 DEF Walking
  <2> DEFINE T == {j \in 0..size : f[j] \notin Slot \cup {NoSlot}}
  <2>3. T = {}
    <3> SUFFICES ASSUME T # {} PROVE FALSE
      OBVIOUS
    <3>1. T \in SUBSET Nat
      BY <1>1
    <3>2. PICK x \in T : \A y \in T : x <= y
      BY <3>1, LeastNumber
    <3>3. f[x] = Walked(iq, f, x) /\ x \in 0..size
      BY <2>2
    <3>4. x # 0
      BY <3>3, QueueFields DEF Walked
    <3>5. x - 1 \in 0..size /\ x - 1 < x /\ x \in Int
      BY <3>3, <3>4, <1>1
    <3>6. x - 1 \notin T
      BY <3>2, <3>5
    <3>7. PICK s : s = f[x - 1] /\ s \in Slot \cup {NoSlot}
      BY <3>5, <3>6
    <3>8. s \in Slot => iq.q[s].next \in Slot \cup {NoSlot}
      BY QueueFields, EntryFields
    <3>9. f[x] \in Slot \cup {NoSlot}
      BY <3>3, <3>4, <3>7, <3>8 DEF Walked
    <3> QED  BY <3>9
  <2>4. k \in 0..size
    BY <1>1
  <2> QED  BY <2>1, <2>3, <2>4, <1>3 DEF Scanned
<1> QED  BY <1>2, <1>3

(* The entry that select_and_issue() selects waits for nothing, and one of *)
(* its candidate lanes is free.                                            *)
LEMMA SelectedReady ==
  ASSUME NEW iq \in Queue, NEW F, CanIssue(iq, F), NEW i, i = Selected(iq, F)
  PROVE  /\ i \in Occupied(iq.q) /\ iq.q[i].ready = iq.q[i].tags
         /\ iq.q[i].lane_id \cap F # {}
<1> DEFINE T == {k \in Slot : Issuable(iq, k, F)}
<1>1. Slot = 0..(size - 1) /\ size \in Nat
  BY Constants
<1>2. T \in SUBSET Nat /\ T # {}
  BY <1>1 DEF CanIssue
<1>3. PICK x \in T : \A y \in T : x <= y
  BY <1>2, LeastNumber
<1>4. \E k \in Slot : Issuable(iq, k, F) /\ \A l \in Slot : Issuable(iq, l, F) => k <= l
  BY <1>3
<1>5. PICK k : k = CHOOSE m \in Slot :
                     Issuable(iq, m, F) /\ \A l \in Slot : Issuable(iq, l, F) => m <= l
  OBVIOUS
<1>6. k \in Slot /\ Issuable(iq, k, F)
  <2> DEFINE P(n) == n \in Slot /\ Issuable(iq, n, F)
                       /\ \A l \in Slot : Issuable(iq, l, F) => n <= l
  <2>1. \E n : P(n)
    BY <1>4
  <2>2. P(CHOOSE n : P(n))
    BY <2>1
  <2>3. k = CHOOSE n : P(n)
    BY <1>5
  <2> QED  BY <2>2, <2>3
<1>7. i = Scanned(iq, k)
  BY <1>5, Zenon DEF Selected
<1>8. i \in Slot
  BY <1>6, <1>7, ScannedSlot DEF Issuable
<1> QED  BY <1>6, <1>7, <1>8 DEF Issuable, IsReady, Occupied

-----------------------------------------------------------------------------
(* The pipeline registers of the lanes.                                    *)
Reg(l) == (-1)..ex_depth[l]

(* A lane has at least one execute stage.                                  *)
LEMMA LaneDepth ==
  ASSUME NEW l \in Lane
  PROVE  /\ ex_depth[l] \in Nat \ {0} /\ Reg(l) \subseteq Int
         /\ -1 \in Reg(l) /\ 0 \in Reg(l) /\ ex_depth[l] \in Reg(l)
         /\ ex_depth[l] - 1 \in Reg(l) /\ l \in Int /\ l >= 0
         /\ \A d \in Reg(l) : d # -1 /\ d # ex_depth[l] => d \in 0..(ex_depth[l] - 1)
         /\ \A d \in 0..(ex_depth[l] - 1) : d \in Reg(l) /\ d # -1 /\ d # ex_depth[l]
BY Constants DEF Reg, Lane

(* The fields of a register, and an empty one.                             *)
LEMMA RegFields ==
  /\ NoPlace \in LaneReg /\ ~NoPlace.valid
  /\ \A p \in LaneReg : /\ p.valid \in BOOLEAN /\ p.index \in ALIndex
                        /\ p.branch_mask \in SUBSET Branch
<1>1. PICK F : F = FALSE
  OBVIOUS
<1>2. F \in BOOLEAN /\ 0 \in ALIndex /\ {} \in SUBSET Branch
  BY <1>1, Constants
<1> QED  BY <1>1, <1>2 DEF NoPlace, LaneReg

(* Every register of a lane has one.                                       *)
LEMMA CellType ==
  ASSUME NEW L, LanesOK(L), NEW l \in Lane
  PROVE  /\ L[l].rr \in LaneReg /\ L[l].wb \in LaneReg
         /\ L[l].ex \in [0..(ex_depth[l] - 1) -> LaneReg]
         /\ \A d \in Reg(l) : Cell(L, l, d) \in LaneReg
<1>1. /\ L[l].rr \in LaneReg /\ L[l].wb \in LaneReg
      /\ L[l].ex \in [0..(ex_depth[l] - 1) -> LaneReg]
  BY DEF LanesOK, LaneState
<1>2. \A d \in Reg(l) : Cell(L, l, d) \in LaneReg
  BY <1>1, LaneDepth DEF Cell
<1> QED  BY <1>1, <1>2

(* The record of a lane.                                                   *)
LEMMA LaneRecord ==
  ASSUME NEW l \in Lane, NEW rr \in LaneReg, NEW wb \in LaneReg,
         NEW ex \in [0..(ex_depth[l] - 1) -> LaneReg],
         NEW x, x = [rr |-> rr, ex |-> ex, wb |-> wb]
  PROVE  x \in LaneState(l) /\ x.rr = rr /\ x.ex = ex /\ x.wb = wb
BY DEF LaneState

(* Filling or emptying the register before Writeback.                      *)
LEMMA SetWb ==
  ASSUME NEW l \in Lane, NEW x \in LaneState(l), NEW p \in LaneReg,
         NEW y, y = [x EXCEPT !.wb = p]
  PROVE  y \in LaneState(l) /\ y.rr = x.rr /\ y.ex = x.ex /\ y.wb = p
<1>1. PICK R : R = [0..(ex_depth[l] - 1) -> LaneReg]
  OBVIOUS
<1>2. x \in [rr : LaneReg, ex : R, wb : LaneReg]
  BY <1>1 DEF LaneState
<1>3. /\ y \in [rr : LaneReg, ex : R, wb : LaneReg]
      /\ y.rr = x.rr /\ y.ex = x.ex /\ y.wb = p
  BY <1>2
<1> QED  BY <1>1, <1>3 DEF LaneState

(* Filling the register before Register Read.                              *)
LEMMA SetRr ==
  ASSUME NEW l \in Lane, NEW x \in LaneState(l), NEW p \in LaneReg,
         NEW y, y = [x EXCEPT !.rr = p]
  PROVE  y \in LaneState(l) /\ y.rr = p /\ y.ex = x.ex /\ y.wb = x.wb
<1>1. PICK R : R = [0..(ex_depth[l] - 1) -> LaneReg]
  OBVIOUS
<1>2. x \in [rr : LaneReg, ex : R, wb : LaneReg]
  BY <1>1 DEF LaneState
<1>3. /\ y \in [rr : LaneReg, ex : R, wb : LaneReg]
      /\ y.rr = p /\ y.ex = x.ex /\ y.wb = x.wb
  BY <1>2
<1> QED  BY <1>1, <1>3 DEF LaneState

(* Changing the execute stages.                                            *)
LEMMA SetEx ==
  ASSUME NEW l \in Lane, NEW x \in LaneState(l),
         NEW X \in [0..(ex_depth[l] - 1) -> LaneReg],
         NEW y, y = [x EXCEPT !.ex = X]
  PROVE  y \in LaneState(l) /\ y.rr = x.rr /\ y.ex = X /\ y.wb = x.wb
<1>1. PICK R : R = [0..(ex_depth[l] - 1) -> LaneReg]
  OBVIOUS
<1>2. x \in [rr : LaneReg, ex : R, wb : LaneReg] /\ X \in R
  BY <1>1 DEF LaneState
<1>3. /\ y \in [rr : LaneReg, ex : R, wb : LaneReg]
      /\ y.rr = x.rr /\ y.ex = X /\ y.wb = x.wb
  BY <1>2
<1> QED  BY <1>1, <1>3 DEF LaneState

(* Empty lanes.                                                            *)
LEMMA EmptyCells ==
  ASSUME NEW L, L = [l \in Lane |-> EmptyLane(l)]
  PROVE  LanesOK(L) /\ \A l \in Lane : \A d \in Reg(l) : Cell(L, l, d) = NoPlace
<1>1. ASSUME NEW l \in Lane
      PROVE  /\ L[l] \in LaneState(l) /\ L[l].rr = NoPlace /\ L[l].wb = NoPlace
             /\ L[l].ex = [d \in 0..(ex_depth[l] - 1) |-> NoPlace]
  <2>1. PICK X : X = [d \in 0..(ex_depth[l] - 1) |-> NoPlace]
    OBVIOUS
  <2>2. X \in [0..(ex_depth[l] - 1) -> LaneReg]
    BY <2>1, RegFields
  <2>3. L[l] = [rr |-> NoPlace, ex |-> X, wb |-> NoPlace]
    BY <2>1 DEF EmptyLane
  <2> QED  BY <2>1, <2>2, <2>3, RegFields, LaneRecord
<1>2. LanesOK(L)
  <2>1. L = [l \in Lane |-> L[l]]
    OBVIOUS
  <2> QED  BY <2>1, <1>1 DEF LanesOK
<1>3. ASSUME NEW l \in Lane, NEW d \in Reg(l)  PROVE  Cell(L, l, d) = NoPlace
  BY <1>1, LaneDepth DEF Cell
<1> QED  BY <1>2, <1>3

(* An instruction leaves Writeback.                                        *)
LEMMA WrittenCells ==
  ASSUME NEW L, LanesOK(L), NEW n \in Lane, NEW N, N = Written(L, n)
  PROVE  /\ LanesOK(N)
         /\ \A l \in Lane : \A d \in Reg(l) :
              Cell(N, l, d) = IF l = n /\ d = ex_depth[n] THEN NoPlace ELSE Cell(L, l, d)
<1>1. L = [l \in Lane |-> L[l]] /\ \A l \in Lane : L[l] \in LaneState(l)
  BY DEF LanesOK
<1>2. N = [l \in Lane |-> N[l]] /\ \A l \in Lane : N[l] = IF l = n
                               THEN [L[l] EXCEPT !.wb = NoPlace] ELSE L[l]
  BY <1>1 DEF Written
<1>3. /\ N[n] \in LaneState(n) /\ N[n].rr = L[n].rr /\ N[n].ex = L[n].ex
      /\ N[n].wb = NoPlace
  <2>1. L[n] \in LaneState(n) /\ N[n] = [L[n] EXCEPT !.wb = NoPlace] /\ NoPlace \in LaneReg
    BY <1>1, <1>2, RegFields
  <2> QED  BY <2>1, SetWb
<1>4. LanesOK(N)
  BY <1>1, <1>2, <1>3 DEF LanesOK
<1>5. ASSUME NEW l \in Lane, NEW d \in Reg(l)
      PROVE  Cell(N, l, d) = IF l = n /\ d = ex_depth[n] THEN NoPlace ELSE Cell(L, l, d)
  <2>1. CASE l # n
    BY <2>1, <1>2 DEF Cell
  <2>2. CASE l = n
    BY <2>2, <1>3, LaneDepth DEF Cell
  <2> QED  BY <2>1, <2>2
<1> QED  BY <1>4, <1>5

(* An instruction is issued to a lane.                                     *)
IssuedTo(L, n, p) == [L EXCEPT ![n].rr = p]

(* Issue fills the register before Register Read.                          *)
LEMMA IssuedCells ==
  ASSUME NEW L, LanesOK(L), NEW n \in Lane, NEW p \in LaneReg,
         NEW N, N = IssuedTo(L, n, p)
  PROVE  /\ LanesOK(N)
         /\ \A l \in Lane : \A d \in Reg(l) :
              Cell(N, l, d) = IF l = n /\ d = -1 THEN p ELSE Cell(L, l, d)
<1>1. L = [l \in Lane |-> L[l]] /\ \A l \in Lane : L[l] \in LaneState(l)
  BY DEF LanesOK
<1>2. N = [l \in Lane |-> N[l]] /\ \A l \in Lane : N[l] = IF l = n
                               THEN [L[l] EXCEPT !.rr = p] ELSE L[l]
  BY <1>1 DEF IssuedTo
<1>3. N[n] \in LaneState(n) /\ N[n].rr = p /\ N[n].ex = L[n].ex /\ N[n].wb = L[n].wb
  <2>1. PICK z : z = [L[n] EXCEPT !.rr = p]
    OBVIOUS
  <2>2. L[n] \in LaneState(n) /\ N[n] = z
    BY <1>1, <1>2, <2>1
  <2>3. z \in LaneState(n) /\ z.rr = p /\ z.ex = L[n].ex /\ z.wb = L[n].wb
    BY <2>1, <2>2, SetRr
  <2> QED  BY <2>2, <2>3
<1>4. LanesOK(N)
  BY <1>1, <1>2, <1>3 DEF LanesOK
<1>5. ASSUME NEW l \in Lane, NEW d \in Reg(l)
      PROVE  Cell(N, l, d) = IF l = n /\ d = -1 THEN p ELSE Cell(L, l, d)
  BY <1>2, <1>3, LaneDepth DEF Cell
<1> QED  BY <1>4, <1>5

(* An instruction moves from Register Read to Execute.                     *)
ReadFrom(L, n, p) == [L EXCEPT ![n].ex[0] = p, ![n].rr = NoPlace]

(* Register Read moves an instruction to the first execute stage.          *)
LEMMA ReadCells ==
  ASSUME NEW L, LanesOK(L), NEW n \in Lane, NEW p \in LaneReg,
         NEW N, N = ReadFrom(L, n, p)
  PROVE  /\ LanesOK(N)
         /\ \A l \in Lane : \A d \in Reg(l) :
              Cell(N, l, d) = IF l = n /\ d = -1 THEN NoPlace
                              ELSE IF l = n /\ d = 0 THEN p ELSE Cell(L, l, d)
<1>1. L = [l \in Lane |-> L[l]] /\ \A l \in Lane : L[l] \in LaneState(l)
  BY DEF LanesOK
<1>2. PICK X, y : X = [L[n].ex EXCEPT ![0] = p] /\ y = [L[n] EXCEPT !.ex = X]
  OBVIOUS
<1>3. N = [l \in Lane |-> N[l]] /\ \A l \in Lane : N[l] = IF l = n
                               THEN [y EXCEPT !.rr = NoPlace] ELSE L[l]
  BY <1>1, <1>2 DEF ReadFrom
<1>4. 0 \in 0..(ex_depth[n] - 1) /\ L[n].ex \in [0..(ex_depth[n] - 1) -> LaneReg]
  BY LaneDepth, CellType
<1>5. /\ X \in [0..(ex_depth[n] - 1) -> LaneReg]
      /\ \A d \in 0..(ex_depth[n] - 1) : X[d] = IF d = 0 THEN p ELSE L[n].ex[d]
  BY <1>2, <1>4
<1>6. y \in LaneState(n) /\ y.rr = L[n].rr /\ y.ex = X /\ y.wb = L[n].wb
  <2>1. L[n] \in LaneState(n) /\ y = [L[n] EXCEPT !.ex = X]
    BY <1>1, <1>2
  <2>2. X \in [0..(ex_depth[n] - 1) -> LaneReg]
    BY <1>5
  <2> QED  BY <2>1, <2>2, SetEx
<1>7. N[n] \in LaneState(n) /\ N[n].rr = NoPlace /\ N[n].ex = X /\ N[n].wb = L[n].wb
  <2>1. N[n] \in LaneState(n) /\ N[n].rr = NoPlace /\ N[n].ex = y.ex /\ N[n].wb = y.wb
    <3>1. PICK z : z = [y EXCEPT !.rr = NoPlace]
      OBVIOUS
    <3>2. y \in LaneState(n) /\ NoPlace \in LaneReg
      BY <1>6, RegFields
    <3>3. z \in LaneState(n) /\ z.rr = NoPlace /\ z.ex = y.ex /\ z.wb = y.wb
      BY <3>1, <3>2, SetRr
    <3>4. N[n] = z
      BY <1>3, <3>1
    <3> QED  BY <3>3, <3>4
  <2> QED  BY <2>1, <1>6
<1>8. LanesOK(N)
  BY <1>1, <1>3, <1>7 DEF LanesOK
<1>9. ASSUME NEW l \in Lane, NEW d \in Reg(l)
      PROVE  Cell(N, l, d) = IF l = n /\ d = -1 THEN NoPlace
                             ELSE IF l = n /\ d = 0 THEN p ELSE Cell(L, l, d)
  <2>1. CASE l # n
    BY <2>1, <1>3 DEF Cell
  <2>2. CASE l = n
    BY <2>2, <1>5, <1>7, LaneDepth DEF Cell
  <2> QED  BY <2>1, <2>2
<1> QED  BY <1>8, <1>9

(* The instructions of a lane advance, and p is the one before Writeback.  *)
Advanced(L, n, p) ==
  [L EXCEPT ![n] = [@ EXCEPT
     !.wb = p,
     !.ex = [s \in 0..(ex_depth[n] - 1) |-> IF s = 0 THEN NoPlace ELSE L[n].ex[s - 1]]]]

(* Execute moves each instruction of a lane one stage on.                  *)
LEMMA ExecutedCells ==
  ASSUME NEW L, LanesOK(L), NEW n \in Lane, NEW p \in LaneReg, NEW d0, d0 = ex_depth[n] - 1,
         NEW N, N = Advanced(L, n, p)
  PROVE  /\ LanesOK(N)
         /\ \A l \in Lane : \A d \in Reg(l) :
              Cell(N, l, d) = IF l # n \/ d = -1 THEN Cell(L, l, d)
                              ELSE IF d = ex_depth[n] THEN p
                              ELSE IF d = 0 THEN NoPlace ELSE Cell(L, l, d - 1)
<1>1. L = [l \in Lane |-> L[l]] /\ \A l \in Lane : L[l] \in LaneState(l)
  BY DEF LanesOK
<1>2. PICK X, y : /\ X = [s \in 0..d0 |-> IF s = 0 THEN NoPlace ELSE L[n].ex[s - 1]]
                  /\ y = [L[n] EXCEPT !.wb = p]
  OBVIOUS
<1>3. N = [l \in Lane |-> N[l]] /\ \A l \in Lane : N[l] = IF l = n
                               THEN [y EXCEPT !.ex = X] ELSE L[l]
  BY <1>1, <1>2 DEF Advanced
<1>4. /\ 0 \in 0..d0 /\ L[n].ex \in [0..d0 -> LaneReg]
      /\ \A s \in 0..d0 : s # 0 => s - 1 \in 0..d0
  BY LaneDepth, CellType
<1>5. /\ X \in [0..(ex_depth[n] - 1) -> LaneReg]
      /\ X[0] = NoPlace /\ \A d \in 0..d0 : d # 0 => X[d] = L[n].ex[d - 1]
  <2>1. \A s \in 0..d0 : X[s] = IF s = 0 THEN NoPlace ELSE L[n].ex[s - 1]
    BY <1>2
  <2>2. \A s \in 0..d0 : s # 0 => L[n].ex[s - 1] \in LaneReg
    BY <1>4
  <2>3. X = [s \in 0..d0 |-> X[s]] /\ \A s \in 0..d0 : X[s] \in LaneReg
    BY <2>1, <2>2, <1>2, RegFields
  <2>4. X \in [0..d0 -> LaneReg]
    BY <2>3
  <2> QED  BY <2>1, <2>4, <1>4
<1>6. y \in LaneState(n) /\ y.rr = L[n].rr /\ y.ex = L[n].ex /\ y.wb = p
  BY <1>1, <1>2, SetWb
<1>7. N[n] \in LaneState(n) /\ N[n].rr = L[n].rr /\ N[n].ex = X /\ N[n].wb = p
  <2>1. N[n] \in LaneState(n) /\ N[n].rr = y.rr /\ N[n].ex = X /\ N[n].wb = y.wb
    <3>1. PICK z : z = [y EXCEPT !.ex = X]
      OBVIOUS
    <3>2. y \in LaneState(n) /\ X \in [0..(ex_depth[n] - 1) -> LaneReg]
      BY <1>5, <1>6
    <3>3. z \in LaneState(n) /\ z.rr = y.rr /\ z.ex = X /\ z.wb = y.wb
      BY <3>1, <3>2, SetEx
    <3>4. N[n] = z
      BY <1>3, <3>1
    <3> QED  BY <3>3, <3>4
  <2> QED  BY <2>1, <1>6
<1>8. LanesOK(N)
  BY <1>1, <1>3, <1>7 DEF LanesOK
<1>9. ASSUME NEW l \in Lane, NEW d \in Reg(l)
      PROVE  Cell(N, l, d) = IF l # n \/ d = -1 THEN Cell(L, l, d)
                             ELSE IF d = ex_depth[n] THEN p
                             ELSE IF d = 0 THEN NoPlace ELSE Cell(L, l, d - 1)
  <2>1. CASE l # n
    BY <2>1, <1>3 DEF Cell
  <2>2. CASE l = n /\ (d = -1 \/ d = ex_depth[n] \/ d = 0)
    BY <2>2, <1>5, <1>7, LaneDepth DEF Cell
  <2>3. CASE l = n /\ d # -1 /\ d # ex_depth[n] /\ d # 0
    <3>1. d \in 0..d0 /\ d - 1 \in 0..d0
      BY <2>3, <1>4, LaneDepth
    <3>2. d - 1 # -1 /\ d - 1 # ex_depth[n]
      BY <3>1, LaneDepth
    <3>3. Cell(N, l, d) = X[d] /\ Cell(L, l, d - 1) = L[n].ex[d - 1]
      BY <2>3, <3>2, <1>7 DEF Cell
    <3> QED  BY <2>3, <3>1, <3>3, <1>5
  <2> QED  BY <2>1, <2>2, <2>3
<1> QED  BY <1>8, <1>9

(* resolve() in the lanes.                                                 *)
Cleared(L, b) ==
  [l \in Lane |-> [rr |-> ClearedPlace(b, L[l].rr),
                   ex |-> [d \in DOMAIN L[l].ex |-> ClearedPlace(b, L[l].ex[d])],
                   wb |-> ClearedPlace(b, L[l].wb)]]
Killed(L, b) ==
  [l \in Lane |-> [rr |-> KilledPlace(b, L[l].rr),
                   ex |-> [d \in DOMAIN L[l].ex |-> KilledPlace(b, L[l].ex[d])],
                   wb |-> KilledPlace(b, L[l].wb)]]

(* A register that resolve() clears, or kills, is a register.              *)
LEMMA ResolvedPlace ==
  ASSUME NEW p \in LaneReg, NEW b
  PROVE  /\ ClearedPlace(b, p) \in LaneReg /\ KilledPlace(b, p) \in LaneReg
         /\ ClearedPlace(b, p).valid = p.valid /\ ClearedPlace(b, p).index = p.index
         /\ ClearedPlace(b, p).branch_mask = p.branch_mask \ {b}
<1>1. p.branch_mask \ {b} \in SUBSET Branch
  BY RegFields
<1>2. /\ ClearedPlace(b, p) \in LaneReg
      /\ ClearedPlace(b, p).valid = p.valid /\ ClearedPlace(b, p).index = p.index
      /\ ClearedPlace(b, p).branch_mask = p.branch_mask \ {b}
  BY <1>1 DEF ClearedPlace, LaneReg
<1>3. KilledPlace(b, p) \in LaneReg
  BY RegFields DEF KilledPlace
<1> QED  BY <1>2, <1>3

(* A branch that was predicted right.                                      *)
LEMMA ClearedCells ==
  ASSUME NEW L, LanesOK(L), NEW b, NEW N, N = Cleared(L, b)
  PROVE  /\ LanesOK(N)
         /\ \A l \in Lane : \A d \in Reg(l) : Cell(N, l, d) = ClearedPlace(b, Cell(L, l, d))
<1>1. ASSUME NEW l \in Lane
      PROVE  /\ N[l] \in LaneState(l)
             /\ N[l].rr = ClearedPlace(b, L[l].rr) /\ N[l].wb = ClearedPlace(b, L[l].wb)
             /\ \A d \in 0..(ex_depth[l] - 1) : N[l].ex[d] = ClearedPlace(b, L[l].ex[d])
  <2>1. PICK rr, X, wb : /\ rr = ClearedPlace(b, L[l].rr) /\ wb = ClearedPlace(b, L[l].wb)
                         /\ X = [d \in DOMAIN L[l].ex |-> ClearedPlace(b, L[l].ex[d])]
    OBVIOUS
  <2>2. N[l] = [rr |-> rr, ex |-> X, wb |-> wb]
    BY <2>1 DEF Cleared
  <2>3. L[l].ex \in [0..(ex_depth[l] - 1) -> LaneReg] /\ L[l].rr \in LaneReg /\ L[l].wb \in LaneReg
    BY CellType
  <2>4. rr \in LaneReg /\ wb \in LaneReg
    BY <2>1, <2>3, ResolvedPlace
  <2>5. \A d \in 0..(ex_depth[l] - 1) : X[d] = ClearedPlace(b, L[l].ex[d]) /\ X[d] \in LaneReg
    BY <2>1, <2>3, ResolvedPlace
  <2>6. DOMAIN L[l].ex = 0..(ex_depth[l] - 1)
    BY <2>3
  <2>7. X = [d \in 0..(ex_depth[l] - 1) |-> X[d]]
    BY <2>1, <2>6
  <2>8. X \in [0..(ex_depth[l] - 1) -> LaneReg]
    BY <2>5, <2>7
  <2>9. N[l] \in LaneState(l) /\ N[l].rr = rr /\ N[l].ex = X /\ N[l].wb = wb
    BY <2>2, <2>4, <2>8, LaneRecord
  <2> QED  BY <2>1, <2>5, <2>9
<1>2. LanesOK(N)
  <2>1. N = [l \in Lane |-> N[l]]
    BY DEF Cleared
  <2> QED  BY <2>1, <1>1 DEF LanesOK
<1>3. ASSUME NEW l \in Lane, NEW d \in Reg(l)
      PROVE  Cell(N, l, d) = ClearedPlace(b, Cell(L, l, d))
  BY <1>1, LaneDepth DEF Cell
<1> QED  BY <1>2, <1>3

(* A branch that was predicted wrong.                                      *)
LEMMA KilledCells ==
  ASSUME NEW L, LanesOK(L), NEW b, NEW N, N = Killed(L, b)
  PROVE  /\ LanesOK(N)
         /\ \A l \in Lane : \A d \in Reg(l) : Cell(N, l, d) = KilledPlace(b, Cell(L, l, d))
<1>1. ASSUME NEW l \in Lane
      PROVE  /\ N[l] \in LaneState(l)
             /\ N[l].rr = KilledPlace(b, L[l].rr) /\ N[l].wb = KilledPlace(b, L[l].wb)
             /\ \A d \in 0..(ex_depth[l] - 1) : N[l].ex[d] = KilledPlace(b, L[l].ex[d])
  <2>1. PICK rr, X, wb : /\ rr = KilledPlace(b, L[l].rr) /\ wb = KilledPlace(b, L[l].wb)
                         /\ X = [d \in DOMAIN L[l].ex |-> KilledPlace(b, L[l].ex[d])]
    OBVIOUS
  <2>2. N[l] = [rr |-> rr, ex |-> X, wb |-> wb]
    BY <2>1 DEF Killed
  <2>3. L[l].ex \in [0..(ex_depth[l] - 1) -> LaneReg] /\ L[l].rr \in LaneReg /\ L[l].wb \in LaneReg
    BY CellType
  <2>4. rr \in LaneReg /\ wb \in LaneReg
    BY <2>1, <2>3, ResolvedPlace
  <2>5. \A d \in 0..(ex_depth[l] - 1) : X[d] = KilledPlace(b, L[l].ex[d]) /\ X[d] \in LaneReg
    BY <2>1, <2>3, ResolvedPlace
  <2>6. DOMAIN L[l].ex = 0..(ex_depth[l] - 1)
    BY <2>3
  <2>7. X = [d \in 0..(ex_depth[l] - 1) |-> X[d]]
    BY <2>1, <2>6
  <2>8. X \in [0..(ex_depth[l] - 1) -> LaneReg]
    BY <2>5, <2>7
  <2>9. N[l] \in LaneState(l) /\ N[l].rr = rr /\ N[l].ex = X /\ N[l].wb = wb
    BY <2>2, <2>4, <2>8, LaneRecord
  <2> QED  BY <2>1, <2>5, <2>9
<1>2. LanesOK(N)
  <2>1. N = [l \in Lane |-> N[l]]
    BY DEF Killed
  <2> QED  BY <2>1, <1>1 DEF LanesOK
<1>3. ASSUME NEW l \in Lane, NEW d \in Reg(l)
      PROVE  Cell(N, l, d) = KilledPlace(b, Cell(L, l, d))
  BY <1>1, LaneDepth DEF Cell
<1> QED  BY <1>2, <1>3


-----------------------------------------------------------------------------
(* Positions in the window.                                                *)
LEMMA PosRange ==
  ASSUME NEW h \in ALIndex, NEW i \in ALIndex
  PROVE  /\ PosIn(h, i) \in 1..n_active /\ AtIn(h, PosIn(h, i)) = i
         /\ \A j \in ALIndex : PosIn(h, j) = PosIn(h, i) => j = i
<1>1. ASSUME NEW j \in ALIndex
      PROVE  PosIn(h, j) \in 1..n_active /\ AtIn(h, PosIn(h, j)) = j
  BY Constants DEF PosIn, AtIn, Distance, Ahead
<1> QED  BY <1>1

(* The index at a position is an active list index.                        *)
LEMMA AtRange ==
  ASSUME NEW h \in ALIndex, NEW k \in 1..n_active
  PROVE  AtIn(h, k) \in ALIndex /\ PosIn(h, AtIn(h, k)) = k
BY Constants DEF PosIn, AtIn, Distance, Ahead

(* When the head retires, everything else is one position closer.          *)
LEMMA PosNext ==
  ASSUME NEW h \in ALIndex
  PROVE  /\ Next1(h, n_active) \in ALIndex /\ PosIn(h, h) = 1
         /\ PosIn(Next1(h, n_active), h) = n_active
         /\ \A i \in ALIndex : i # h =>
              PosIn(h, i) > 1 /\ PosIn(Next1(h, n_active), i) = PosIn(h, i) - 1
BY Constants DEF PosIn, Distance, Next1

-----------------------------------------------------------------------------
(* The window.                                                             *)
IsWindow(w) == w \in Seq(Inst) /\ Len(w) <= n_active

(* x is y, completed or not.                                               *)
SameCode(x, y) ==
  /\ x.kind = y.kind /\ x.tags = y.tags /\ x.dest_valid = y.dest_valid
  /\ x.log_reg = y.log_reg /\ x.phys_reg = y.phys_reg
  /\ x.predicted = y.predicted /\ x.branch_ID = y.branch_ID

(* The types of an instruction's fields.                                   *)
LEMMA InstFields ==
  ASSUME NEW x \in Inst
  PROVE  /\ x.kind \in Kind /\ x.tags \in SUBSET PhysReg /\ x.dest_valid \in BOOLEAN
         /\ x.log_reg \in LogReg /\ x.phys_reg \in PhysReg /\ x.predicted \in BOOLEAN
         /\ x.branch_ID \in 0..n_branches /\ x.completed \in BOOLEAN
         /\ Dest(x) \in SUBSET PhysReg /\ Broadcast(x) \in SUBSET PhysReg
         /\ Broadcast(x) \subseteq Dest(x)
<1>1. /\ x.kind \in Kind /\ x.tags \in SUBSET PhysReg /\ x.dest_valid \in BOOLEAN
      /\ x.log_reg \in LogReg /\ x.phys_reg \in PhysReg /\ x.predicted \in BOOLEAN
      /\ x.branch_ID \in 0..n_branches /\ x.completed \in BOOLEAN
  BY DEF Inst
<1> QED  BY <1>1 DEF Dest, Broadcast

(* A window is a sequence of instructions no longer than the active list.  *)
LEMMA WindowSeq ==
  ASSUME NEW w, IsWindow(w)
  PROVE  /\ Len(w) \in Nat /\ Len(w) <= n_active /\ DOMAIN w = 1..Len(w)
         /\ \A j \in 1..Len(w) : w[j] \in Inst
BY LenProperties, ElementOfSeq DEF IsWindow

(* A sequence of instructions in positions 1..n.                           *)
LEMMA CompletedInst ==
  ASSUME NEW x \in Inst, NEW y, y = [x EXCEPT !.completed = TRUE]
  PROVE  y \in Inst /\ SameCode(y, x) /\ y.completed = TRUE
<1>1. PICK T : T = TRUE
  OBVIOUS
<1>2. y = [x EXCEPT !.completed = T] /\ T \in BOOLEAN
  BY <1>1
<1>3. y \in Inst /\ SameCode(y, x) /\ y.completed = T
  BY <1>2 DEF Inst, SameCode
<1> QED  BY <1>1, <1>3

(* An instruction completes.                                               *)
CompletedAt(w, k) == [w EXCEPT ![k].completed = TRUE]

(* Completing an instruction changes nothing else of the window.           *)
LEMMA CompletedWindow ==
  ASSUME NEW w, IsWindow(w), NEW k \in 1..Len(w),
         NEW v, v = CompletedAt(w, k)
  PROVE  /\ IsWindow(v) /\ Len(v) = Len(w)
         /\ \A j \in 1..Len(w) : /\ SameCode(v[j], w[j])
                                 /\ v[j].completed <=> (j = k \/ w[j].completed)
<1>1. PICK y : y = [w[k] EXCEPT !.completed = TRUE]
  OBVIOUS
<1>2. w \in Seq(Inst) /\ w[k] \in Inst
  BY WindowSeq DEF IsWindow
<1>3. y \in Inst /\ SameCode(y, w[k]) /\ y.completed = TRUE
  BY <1>1, <1>2, CompletedInst
<1>4. v = [w EXCEPT ![k] = y]
  BY <1>1 DEF CompletedAt
<1>5. /\ v \in Seq(Inst) /\ Len(v) = Len(w)
      /\ \A j \in 1..Len(w) : v[j] = IF j = k THEN y ELSE w[j]
  <2>1. /\ [w EXCEPT ![k] = y] \in Seq(Inst) /\ Len([w EXCEPT ![k] = y]) = Len(w)
        /\ \A j \in 1..Len(w) : [w EXCEPT ![k] = y][j] = IF j = k THEN y ELSE w[j]
    <3>1. w \in Seq(Inst) /\ y \in Inst /\ k \in 1..Len(w)
      BY <1>2, <1>3
    <3> QED  BY ONLY <3>1, ExceptSeq
  <2> QED  BY <1>4, <2>1
<1>6. IsWindow(v)
  BY <1>5 DEF IsWindow
<1>7. ASSUME NEW j \in 1..Len(w)
      PROVE  SameCode(v[j], w[j]) /\ (v[j].completed <=> (j = k \/ w[j].completed))
  <2>1. CASE j = k
    BY <2>1, <1>3, <1>5
  <2>2. CASE j # k
    BY <2>2, <1>5 DEF SameCode
  <2> QED  BY <2>1, <2>2
<1> QED  BY <1>5, <1>6, <1>7

(* A mispredicted branch completes and cuts what is behind it.             *)
CutAt(w, k) == SubSeq(CompletedAt(w, k), 1, k)

(* A cut keeps the window up to a branch and completes the branch.         *)
LEMMA CutWindow ==
  ASSUME NEW w, IsWindow(w), NEW k \in 1..Len(w),
         NEW v, v = CutAt(w, k)
  PROVE  /\ IsWindow(v) /\ Len(v) = k
         /\ \A j \in 1..k : /\ SameCode(v[j], w[j])
                            /\ v[j].completed <=> (j = k \/ w[j].completed)
<1>1. PICK u : u = CompletedAt(w, k)
  OBVIOUS
<1>2. /\ IsWindow(u) /\ Len(u) = Len(w)
      /\ \A j \in 1..Len(w) : /\ SameCode(u[j], w[j])
                              /\ u[j].completed <=> (j = k \/ w[j].completed)
  BY <1>1, CompletedWindow
<1>3. Len(w) \in Nat /\ k \in Int /\ Len(w) <= n_active /\ n_active \in Nat
  BY WindowSeq, Constants
<1>4. \A j \in 1..k : u[j] \in Inst
  BY <1>2, <1>3, WindowSeq
<1>5. v = SubSeq(u, 1, k) /\ 1 \in Int
  BY <1>1 DEF CutAt
<1>6. /\ v \in Seq(Inst) /\ Len(v) = (IF 1 <= k THEN k - 1 + 1 ELSE 0)
      /\ \A j \in 1..(k - 1 + 1) : v[j] = u[1 + j - 1]
  <2>1. /\ SubSeq(u, 1, k) \in Seq(Inst)
        /\ Len(SubSeq(u, 1, k)) = (IF 1 <= k THEN k - 1 + 1 ELSE 0)
        /\ \A j \in 1..(k - 1 + 1) : SubSeq(u, 1, k)[j] = u[1 + j - 1]
    BY <1>3, <1>4, <1>5, SubSeqProperties
  <2> QED  BY <2>1, <1>5
<1>7. Len(v) = k /\ \A j \in 1..k : v[j] = u[j]
  BY <1>3, <1>6
<1>8. IsWindow(v)
  BY <1>3, <1>6, <1>7 DEF IsWindow
<1> QED  BY <1>2, <1>3, <1>7, <1>8

(* An instruction enters.                                                  *)
Entered(w, x) == Append(w, x)

(* A dispatched instruction is the last of the window.                     *)
LEMMA AppendWindow ==
  ASSUME NEW w, IsWindow(w), Len(w) < n_active, NEW x \in Inst, NEW v, v = Entered(w, x)
  PROVE  /\ IsWindow(v) /\ Len(v) = Len(w) + 1 /\ v[Len(w) + 1] = x
         /\ \A j \in 1..Len(w) : v[j] = w[j]
<1>1. w \in Seq(Inst) /\ Len(w) \in Nat /\ n_active \in Nat
  BY WindowSeq, Constants DEF IsWindow
<1>2. /\ v \in Seq(Inst) /\ Len(v) = Len(w) + 1 /\ v[Len(w) + 1] = x
      /\ \A j \in 1..Len(w) : v[j] = w[j]
  BY <1>1, AppendProperties DEF Entered
<1>3. IsWindow(v)
  BY <1>1, <1>2 DEF IsWindow
<1> QED  BY <1>2, <1>3

(* The head leaves.                                                        *)
Left(w) == Tail(w)

(* A retired instruction leaves the others in their order.                 *)
LEMMA TailWindow ==
  ASSUME NEW w, IsWindow(w), w # <<>>, NEW v, v = Left(w)
  PROVE  /\ IsWindow(v) /\ Len(v) = Len(w) - 1 /\ Len(w) >= 1 /\ Head(w) = w[1]
         /\ \A j \in 1..Len(v) : v[j] = w[j + 1]
<1>1. w \in Seq(Inst) /\ Len(w) \in Nat /\ n_active \in Nat /\ Len(w) <= n_active
  BY WindowSeq, Constants DEF IsWindow
<1>2. /\ v \in Seq(Inst) /\ Len(v) = Len(w) - 1
      /\ \A j \in 1..Len(v) : v[j] = w[j + 1]
  BY <1>1, HeadTailProperties DEF Left
<1>3. Len(w) >= 1
  BY <1>1, EmptySeq
<1>4. Head(w) = w[1]
  OBVIOUS
<1>5. IsWindow(v)
  BY <1>1, <1>2 DEF IsWindow
<1> QED  BY <1>2, <1>3, <1>4, <1>5

(* After a flush the window is empty.                                      *)
LEMMA NoWindow == IsWindow(<<>>) /\ Len(<<>>) = 0
BY Constants, EmptySeq DEF IsWindow

-----------------------------------------------------------------------------
(* The open branches before a position.                                    *)
LEMMA OpenCode ==
  ASSUME NEW x \in Inst
  PROVE  /\ Open(x) \in BOOLEAN /\ (Open(x) => x.branch_ID \in Branch /\ ~x.completed)
         /\ \A y \in Inst : SameCode(y, x) /\ (y.completed <=> x.completed) =>
              (Open(y) <=> Open(x))
<1>1. x.branch_ID \in 0..n_branches /\ n_branches \in Nat
  BY InstFields, Constants
<1>2. Open(x) => x.branch_ID \in Branch /\ ~x.completed
  BY <1>1 DEF Open, NoBranch, Branch
<1>3. ASSUME NEW y \in Inst, SameCode(y, x), y.completed <=> x.completed
      PROVE  Open(y) <=> Open(x)
  BY <1>3 DEF Open, SameCode
<1>4. Open(x) \in BOOLEAN
  BY DEF Open
<1> QED  BY <1>2, <1>3, <1>4

(* The branches open before a position, by membership.                     *)
LEMMA OpenInDef ==
  ASSUME NEW w, IsWindow(w), NEW k \in Int
  PROVE  /\ OpenIn(w, k) \subseteq Branch
         /\ \A b : b \in OpenIn(w, k) <=>
              \E j \in 1..Len(w) : j < k /\ Open(w[j]) /\ w[j].branch_ID = b
<1>1. DOMAIN w = 1..Len(w)
  BY WindowSeq
<1>2. \A b : b \in OpenIn(w, k) <=>
        \E j \in 1..Len(w) : j < k /\ Open(w[j]) /\ w[j].branch_ID = b
  BY <1>1 DEF OpenIn
<1>3. \A j \in 1..Len(w) : Open(w[j]) => w[j].branch_ID \in Branch
  BY WindowSeq, OpenCode
<1> QED  BY <1>2, <1>3

(* They depend only on what is before the position.                        *)
LEMMA OpenInSame ==
  ASSUME NEW w, IsWindow(w), NEW v, IsWindow(v), NEW k \in Int,
         \A j \in Int : j < k =>
           (j \in 1..Len(w) /\ Open(w[j])) <=> (j \in 1..Len(v) /\ Open(v[j])),
         \A j \in 1..Len(w) : j < k /\ Open(w[j]) => v[j].branch_ID = w[j].branch_ID
  PROVE  OpenIn(v, k) = OpenIn(w, k)
<1>1. ASSUME NEW b PROVE b \in OpenIn(v, k) <=> b \in OpenIn(w, k)
  <2>1. ASSUME b \in OpenIn(v, k) PROVE b \in OpenIn(w, k)
    <3>1. PICK j \in 1..Len(v) : j < k /\ Open(v[j]) /\ v[j].branch_ID = b
      BY <2>1, OpenInDef
    <3>2. j \in 1..Len(w) /\ Open(w[j]) /\ w[j].branch_ID = b
      BY <3>1
    <3> QED  BY <3>1, <3>2, OpenInDef
  <2>2. ASSUME b \in OpenIn(w, k) PROVE b \in OpenIn(v, k)
    <3>1. PICK j \in 1..Len(w) : j < k /\ Open(w[j]) /\ w[j].branch_ID = b
      BY <2>2, OpenInDef
    <3>2. j \in 1..Len(v) /\ Open(v[j]) /\ v[j].branch_ID = b
      BY <3>1
    <3> QED  BY <3>1, <3>2, OpenInDef
  <2> QED  BY <2>1, <2>2
<1> QED  BY <1>1

(* An instruction that is no open branch completes.                        *)
LEMMA OpenInDone ==
  ASSUME NEW w, IsWindow(w), NEW k \in 1..Len(w), ~Open(w[k]),
         NEW v, v = CompletedAt(w, k)
  PROVE  \A m \in Int : OpenIn(v, m) = OpenIn(w, m)
<1>1. /\ IsWindow(v) /\ Len(v) = Len(w)
      /\ \A j \in 1..Len(w) : /\ SameCode(v[j], w[j])
                              /\ v[j].completed <=> (j = k \/ w[j].completed)
  BY CompletedWindow
<1>2. \A j \in 1..Len(w) : (Open(w[j]) <=> Open(v[j])) /\ v[j].branch_ID = w[j].branch_ID
  BY <1>1 DEF Open, SameCode
<1> QED  BY <1>1, <1>2, OpenInSame

(* A branch resolves: its bit leaves every mask that has it.               *)
LEMMA OpenInResolved ==
  ASSUME NEW w, IsWindow(w), NEW k \in 1..Len(w), Open(w[k]), WindowOK(w),
         NEW v, v = CompletedAt(w, k)
  PROVE  \A m \in Int : OpenIn(v, m) = OpenIn(w, m) \ {w[k].branch_ID}
<1>1. /\ IsWindow(v) /\ Len(v) = Len(w)
      /\ \A j \in 1..Len(w) : /\ SameCode(v[j], w[j])
                              /\ v[j].completed <=> (j = k \/ w[j].completed)
  BY CompletedWindow
<1>2. \A j \in 1..Len(w) : /\ Open(v[j]) <=> (Open(w[j]) /\ j # k)
                           /\ v[j].branch_ID = w[j].branch_ID
  BY <1>1 DEF Open, SameCode
<1>3. \A j \in 1..Len(w) : Open(w[j]) /\ w[j].branch_ID = w[k].branch_ID => j = k
  BY DEF WindowOK
<1>4. ASSUME NEW m \in Int, NEW b
      PROVE  b \in OpenIn(v, m) <=> b \in OpenIn(w, m) \ {w[k].branch_ID}
  <2>1. ASSUME b \in OpenIn(v, m) PROVE b \in OpenIn(w, m) /\ b # w[k].branch_ID
    <3>1. PICK j \in 1..Len(v) : j < m /\ Open(v[j]) /\ v[j].branch_ID = b
      BY <2>1, <1>1, OpenInDef
    <3>2. j \in 1..Len(w) /\ Open(w[j]) /\ j # k /\ w[j].branch_ID = b
      BY <3>1, <1>1, <1>2
    <3>3. b \in OpenIn(w, m)
      BY <3>1, <3>2, OpenInDef
    <3> QED  BY <3>2, <3>3, <1>3
  <2>2. ASSUME b \in OpenIn(w, m), b # w[k].branch_ID PROVE b \in OpenIn(v, m)
    <3>1. PICK j \in 1..Len(w) : j < m /\ Open(w[j]) /\ w[j].branch_ID = b
      BY <2>2, OpenInDef
    <3>2. j \in 1..Len(v) /\ Open(v[j]) /\ v[j].branch_ID = b
      BY <2>2, <3>1, <1>1, <1>2
    <3> QED  BY <3>1, <3>2, <1>1, OpenInDef
  <2> QED  BY <2>1, <2>2
<1> QED  BY <1>4

(* The mask tells what is behind an open branch from what is not.          *)
LEMMA OpenInBehind ==
  ASSUME NEW w, IsWindow(w), NEW k \in 1..Len(w), Open(w[k]), WindowOK(w),
         NEW m \in Int
  PROVE  w[k].branch_ID \in OpenIn(w, m) <=> k < m
<1>1. \A j \in 1..Len(w) : Open(w[j]) /\ w[j].branch_ID = w[k].branch_ID => j = k
  BY DEF WindowOK
<1> QED  BY <1>1, OpenInDef

(* A mispredicted branch cuts the window.                                  *)
LEMMA OpenInCut ==
  ASSUME NEW w, IsWindow(w), NEW k \in 1..Len(w),
         NEW v, v = CutAt(w, k), NEW m \in Int, m <= k
  PROVE  OpenIn(v, m) = OpenIn(w, m)
<1>1. /\ IsWindow(v) /\ Len(v) = k
      /\ \A j \in 1..k : /\ SameCode(v[j], w[j])
                         /\ v[j].completed <=> (j = k \/ w[j].completed)
  BY CutWindow
<1>2. k <= Len(w) /\ Len(w) \in Nat /\ k \in Int
  BY WindowSeq
<1>3. \A j \in Int : j < m => (j \in 1..Len(w) <=> j \in 1..Len(v))
  BY <1>1, <1>2
<1>4. \A j \in 1..Len(v) : j < m => (Open(w[j]) <=> Open(v[j])) /\ v[j].branch_ID = w[j].branch_ID
  BY <1>1, <1>2 DEF Open, SameCode
<1>5. \A j \in Int : j < m =>
           (j \in 1..Len(w) /\ Open(w[j])) <=> (j \in 1..Len(v) /\ Open(v[j]))
  BY <1>3, <1>4
<1>6. \A j \in 1..Len(w) : j < m /\ Open(w[j]) => v[j].branch_ID = w[j].branch_ID
  BY <1>2, <1>3, <1>4
<1> QED  BY <1>1, <1>5, <1>6, OpenInSame

(* An instruction enters behind.                                           *)
LEMMA OpenInAppend ==
  ASSUME NEW w, IsWindow(w), Len(w) < n_active, NEW x \in Inst, NEW v, v = Entered(w, x),
         NEW m \in Int, m <= Len(w) + 1
  PROVE  OpenIn(v, m) = OpenIn(w, m)
<1>1. /\ IsWindow(v) /\ Len(v) = Len(w) + 1 /\ \A j \in 1..Len(w) : v[j] = w[j]
  BY AppendWindow
<1>2. Len(w) \in Nat
  BY WindowSeq
<1>3. \A j \in Int : j < m => (j \in 1..Len(w) <=> j \in 1..Len(v))
  BY <1>1, <1>2
<1>4. \A j \in Int : j < m =>
           (j \in 1..Len(w) /\ Open(w[j])) <=> (j \in 1..Len(v) /\ Open(v[j]))
  BY <1>1, <1>3
<1> QED  BY <1>1, <1>4, OpenInSame

(* The head, which is no open branch, leaves.                              *)
LEMMA OpenInTail ==
  ASSUME NEW w, IsWindow(w), w # <<>>, ~Open(w[1]), NEW v, v = Left(w), NEW m \in Int
  PROVE  OpenIn(v, m) = OpenIn(w, m + 1)
<1>1. /\ IsWindow(v) /\ Len(v) = Len(w) - 1 /\ Len(w) >= 1
      /\ \A j \in 1..Len(v) : v[j] = w[j + 1]
  BY TailWindow
<1>2. Len(w) \in Nat /\ Len(v) \in Nat
  BY <1>1, WindowSeq
<1>3. ASSUME NEW b PROVE b \in OpenIn(v, m) <=> b \in OpenIn(w, m + 1)
  <2>1. ASSUME b \in OpenIn(v, m) PROVE b \in OpenIn(w, m + 1)
    <3>1. PICK j \in 1..Len(v) : j < m /\ Open(v[j]) /\ v[j].branch_ID = b
      BY <2>1, <1>1, OpenInDef
    <3>2. j + 1 \in 1..Len(w) /\ j + 1 < m + 1 /\ v[j] = w[j + 1]
      BY <3>1, <1>1, <1>2
    <3>3. Open(w[j + 1]) /\ w[j + 1].branch_ID = b
      BY <3>1, <3>2
    <3> QED  BY <3>2, <3>3, OpenInDef
  <2>2. ASSUME b \in OpenIn(w, m + 1) PROVE b \in OpenIn(v, m)
    <3>1. PICK j \in 1..Len(w) : j < m + 1 /\ Open(w[j]) /\ w[j].branch_ID = b
      BY <2>2, OpenInDef
    <3>2. j # 1
      BY <3>1
    <3>3. j - 1 \in 1..Len(v) /\ j - 1 < m /\ (j - 1) + 1 = j
      BY <3>1, <3>2, <1>1, <1>2
    <3>4. v[j - 1] = w[j]
      BY <3>3, <1>1
    <3>5. Open(v[j - 1]) /\ v[j - 1].branch_ID = b
      BY <3>1, <3>4
    <3> QED  BY <3>3, <3>5, <1>1, OpenInDef
  <2> QED  BY <2>1, <2>2
<1> QED  BY <1>3

(* Branch IDs and destinations stay distinct.                              *)
LEMMA WindowOKEmpty == WindowOK(<<>>)
BY NoWindow DEF WindowOK

(* Branches and destinations stay distinct when the window loses its end.  *)
LEMMA WindowOKPrefix ==
  ASSUME NEW w, IsWindow(w), WindowOK(w), NEW v, IsWindow(v), Len(v) <= Len(w),
         \A j \in 1..Len(v) : SameCode(v[j], w[j]) /\ (w[j].completed => v[j].completed)
  PROVE  WindowOK(v)
<1>1. Len(w) \in Nat /\ Len(v) \in Nat
  BY WindowSeq
<1>2. \A j \in 1..Len(v) : /\ j \in 1..Len(w) /\ (Open(v[j]) => Open(w[j]))
                           /\ v[j].branch_ID = w[j].branch_ID
                           /\ v[j].dest_valid = w[j].dest_valid
                           /\ v[j].kind = w[j].kind
                           /\ v[j].phys_reg = w[j].phys_reg
  BY <1>1 DEF Open, SameCode
<1> QED  BY <1>2 DEF WindowOK

(* They stay distinct when the window loses its head.                      *)
LEMMA WindowOKTail ==
  ASSUME NEW w, IsWindow(w), WindowOK(w), w # <<>>, NEW v, v = Left(w)
  PROVE  WindowOK(v)
<1>1. /\ IsWindow(v) /\ Len(v) = Len(w) - 1 /\ Len(w) >= 1
      /\ \A j \in 1..Len(v) : v[j] = w[j + 1]
  BY TailWindow
<1>2. Len(w) \in Nat /\ Len(v) \in Nat
  BY <1>1, WindowSeq
<1>3. \A j \in 1..Len(v) : j + 1 \in 1..Len(w) /\ v[j] = w[j + 1]
  BY <1>1, <1>2
<1>4. ASSUME NEW j \in 1..Len(v), NEW k \in 1..Len(v), Open(v[j]), Open(v[k]),
             v[j].branch_ID = v[k].branch_ID
      PROVE  j = k
  <2>1. j + 1 = k + 1
    BY <1>3, <1>4 DEF WindowOK
  <2> QED  BY <2>1
<1>5. ASSUME NEW j \in 1..Len(v), NEW k \in 1..Len(v), v[j].dest_valid, v[k].dest_valid,
             v[j].phys_reg = v[k].phys_reg
      PROVE  j = k
  <2>1. j + 1 = k + 1
    BY <1>3, <1>5 DEF WindowOK
  <2> QED  BY <2>1
<1>6. \A j \in 1..Len(v) : Open(v[j]) => v[j].kind = "branch"
  BY <1>3 DEF WindowOK
<1> QED  BY <1>4, <1>5, <1>6 DEF WindowOK

(* A new ID and a new destination are distinct from the others.            *)
LEMMA WindowOKAppend ==
  ASSUME NEW w, IsWindow(w), Len(w) < n_active, WindowOK(w), NEW x \in Inst,
         NEW v, v = Entered(w, x),
         Open(x) => x.kind = "branch" /\ x.branch_ID \notin OpenIn(w, Len(w) + 1),
         \A j \in 1..Len(w) : w[j].dest_valid /\ x.dest_valid => w[j].phys_reg # x.phys_reg
  PROVE  WindowOK(v)
<1>1. /\ IsWindow(v) /\ Len(v) = Len(w) + 1 /\ v[Len(w) + 1] = x
      /\ \A j \in 1..Len(w) : v[j] = w[j]
  BY AppendWindow
<1>2. Len(w) \in Nat
  BY WindowSeq
<1>3. \A j \in 1..Len(v) : j \in 1..Len(w) \/ j = Len(w) + 1
  BY <1>1, <1>2
<1>4. ASSUME NEW j \in 1..Len(w), Open(w[j]), Open(x) PROVE w[j].branch_ID # x.branch_ID
  <2>1. Len(w) + 1 \in Int /\ j < Len(w) + 1
    BY <1>2
  <2>2. w[j].branch_ID \in OpenIn(w, Len(w) + 1)
    BY <2>1, <1>4, OpenInDef
  <2> QED  BY <2>2, <1>4
<1>5. ASSUME NEW j \in 1..Len(v), NEW k \in 1..Len(v), Open(v[j]), Open(v[k]),
             v[j].branch_ID = v[k].branch_ID
      PROVE  j = k
  <2>1. CASE j \in 1..Len(w) /\ k \in 1..Len(w)
    BY <2>1, <1>1, <1>5 DEF WindowOK
  <2>2. CASE j \in 1..Len(w) /\ k = Len(w) + 1
    BY <2>2, <1>1, <1>4, <1>5
  <2>3. CASE k \in 1..Len(w) /\ j = Len(w) + 1
    BY <2>3, <1>1, <1>4, <1>5
  <2> QED  BY <2>1, <2>2, <2>3, <1>3
<1>6. ASSUME NEW j \in 1..Len(v), NEW k \in 1..Len(v), v[j].dest_valid, v[k].dest_valid,
             v[j].phys_reg = v[k].phys_reg
      PROVE  j = k
  <2>1. CASE j \in 1..Len(w) /\ k \in 1..Len(w)
    BY <2>1, <1>1, <1>6 DEF WindowOK
  <2>2. CASE j \in 1..Len(w) /\ k = Len(w) + 1
    BY <2>2, <1>1, <1>6
  <2>3. CASE k \in 1..Len(w) /\ j = Len(w) + 1
    BY <2>3, <1>1, <1>6
  <2> QED  BY <2>1, <2>2, <2>3, <1>3
<1>7. \A j \in 1..Len(v) : Open(v[j]) => v[j].kind = "branch"
  BY <1>1, <1>3 DEF WindowOK
<1> QED  BY <1>5, <1>6, <1>7 DEF WindowOK

-----------------------------------------------------------------------------
(* Instructions in their places.                                           *)
Setting(w, h, L, Q, S) ==
  /\ IsWindow(w) /\ h \in ALIndex /\ LanesOK(L) /\ Q \in [Slot -> Entry]
  /\ S \in SUBSET ALIndex

(* An instruction in flight has a position in the window.                  *)
LEMMA FlightPos ==
  ASSUME NEW w, IsWindow(w), NEW h \in ALIndex, NEW i \in ALIndex, InFlight(w, h, i)
  PROVE  /\ PosIn(h, i) \in 1..Len(w) /\ ~w[PosIn(h, i)].completed
         /\ w[PosIn(h, i)] \in Inst
<1>1. PosIn(h, i) \in 1..n_active /\ PosIn(h, i) <= Len(w) /\ Len(w) \in Nat
  BY PosRange, WindowSeq DEF InFlight
<1>2. PosIn(h, i) \in 1..Len(w)
  BY <1>1, Constants
<1> QED  BY <1>2, WindowSeq DEF InFlight

(* A valid pipeline register holds its instruction.                        *)
LEMMA CellToken ==
  ASSUME NEW L, LanesOK(L), NEW Q, NEW S, NEW l \in Lane, NEW d \in Reg(l),
         Cell(L, l, d).valid
  PROVE  /\ l \in Int /\ d \in Int /\ l # -1 /\ l # -2
         /\ Cell(L, l, d).index \in ALIndex
         /\ InCell(L, l, d, Cell(L, l, d).index)
         /\ Holds(L, Q, S, l, d, Cell(L, l, d).index)
<1>1. Cell(L, l, d) \in LaneReg /\ l \in Int /\ l >= 0 /\ d \in Int
  BY CellType, LaneDepth
<1>2. Cell(L, l, d).index \in ALIndex
  BY <1>1, RegFields
<1>3. InCell(L, l, d, Cell(L, l, d).index)
  BY DEF InCell, Reg
<1>4. l # -1 /\ l # -2
  BY <1>1
<1> QED  BY <1>1, <1>2, <1>3, <1>4 DEF Holds

(* A valid queue entry holds its instruction.                              *)
LEMMA EntryToken ==
  ASSUME NEW L, NEW Q \in [Slot -> Entry], NEW S, NEW s \in Slot, Q[s].valid
  PROVE  /\ s \in Int /\ -1 \in Int /\ Q[s].index \in ALIndex
         /\ Holds(L, Q, S, -1, s, Q[s].index)
BY Constants, EntryFields DEF Holds, InEntry

(* The set of stalled loads holds each of them.                            *)
LEMMA StalledToken ==
  ASSUME NEW L, NEW Q, NEW S, NEW i \in S
  PROVE  -2 \in Int /\ 0 \in Int /\ Holds(L, Q, S, -2, 0, i)
BY DEF Holds

(* The instruction of each place is in flight.                             *)
LEMMA PlacedFlight ==
  ASSUME NEW w, NEW h, NEW L, NEW Q, NEW S, Setting(w, h, L, Q, S),
         Placed(w, h, L, Q, S)
  PROVE  /\ \A l \in Lane : \A d \in Reg(l) : Cell(L, l, d).valid =>
              InFlight(w, h, Cell(L, l, d).index) /\ Cell(L, l, d).index \in ALIndex
         /\ \A s \in Slot : Q[s].valid => InFlight(w, h, Q[s].index) /\ Q[s].index \in ALIndex
         /\ \A i \in S : InFlight(w, h, i) /\ i \in ALIndex
<1>1. ASSUME NEW l \in Lane, NEW d \in Reg(l), Cell(L, l, d).valid
      PROVE  InFlight(w, h, Cell(L, l, d).index) /\ Cell(L, l, d).index \in ALIndex
  <2>1. LanesOK(L)
    BY DEF Setting
  <2>2. /\ l \in Int /\ d \in Int /\ Cell(L, l, d).index \in ALIndex
        /\ Holds(L, Q, S, l, d, Cell(L, l, d).index)
    BY <1>1, <2>1, CellToken
  <2> QED  BY <2>2 DEF Placed
<1>2. ASSUME NEW s \in Slot, Q[s].valid
      PROVE  InFlight(w, h, Q[s].index) /\ Q[s].index \in ALIndex
  BY <1>2, EntryToken DEF Setting, Placed
<1>3. ASSUME NEW i \in S
      PROVE  InFlight(w, h, i) /\ i \in ALIndex
  <2>1. i \in ALIndex
    BY DEF Setting
  <2> QED  BY <2>1, StalledToken DEF Placed
<1> QED  BY <1>1, <1>2, <1>3

(* Some places lose the instruction they hold, which completes or goes.    *)
LEMMA PlacedSub ==
  ASSUME NEW w, NEW h, NEW L, NEW Q, NEW S, Placed(w, h, L, Q, S),
         NEW v, NEW g, NEW M, NEW P, NEW T,
         \A i \in ALIndex : InFlight(v, g, i) => InFlight(w, h, i),
         \A a, b \in Int, i \in ALIndex :
           Holds(M, P, T, a, b, i) <=> Holds(L, Q, S, a, b, i) /\ InFlight(v, g, i)
  PROVE  Placed(v, g, M, P, T)
<1>1. \A a, b \in Int, i \in ALIndex : Holds(M, P, T, a, b, i) => InFlight(v, g, i)
  OBVIOUS
<1>2. \A a, b, c, d \in Int, i \in ALIndex :
        Holds(M, P, T, a, b, i) /\ Holds(M, P, T, c, d, i) => a = c /\ b = d
  BY DEF Placed
<1>3. \A i \in ALIndex : InFlight(v, g, i) => \E a, b \in Int : Holds(M, P, T, a, b, i)
  BY DEF Placed
<1> QED  BY <1>1, <1>2, <1>3 DEF Placed

(* Instructions move: what was in place <<a, b>> is in place               *)
(* <<X[a][b], Y[a][b]>>.                                                   *)
Moves(X, Y, L, Q, S, M, P, T) ==
  /\ \A a, b \in Int : X[a][b] \in Int /\ Y[a][b] \in Int
  /\ \A a, b \in Int, i \in ALIndex :
       Holds(L, Q, S, a, b, i) => Holds(M, P, T, X[a][b], Y[a][b], i)
  /\ \A c, d \in Int, i \in ALIndex : Holds(M, P, T, c, d, i) =>
       \E a, b \in Int : Holds(L, Q, S, a, b, i) /\ X[a][b] = c /\ Y[a][b] = d

(* Instructions that move from place to place stay placed.                 *)
LEMMA PlacedMove ==
  ASSUME NEW w, NEW h, NEW L, NEW Q, NEW S, Placed(w, h, L, Q, S),
         NEW M, NEW P, NEW T, NEW X, NEW Y, Moves(X, Y, L, Q, S, M, P, T)
  PROVE  Placed(w, h, M, P, T)
<1>0. /\ \A a, b \in Int : X[a][b] \in Int /\ Y[a][b] \in Int
      /\ \A a, b \in Int, i \in ALIndex :
           Holds(L, Q, S, a, b, i) => Holds(M, P, T, X[a][b], Y[a][b], i)
      /\ \A c, d \in Int, i \in ALIndex : Holds(M, P, T, c, d, i) =>
           \E a, b \in Int : Holds(L, Q, S, a, b, i) /\ X[a][b] = c /\ Y[a][b] = d
  BY DEF Moves
<1>1. \A a, b \in Int, i \in ALIndex : Holds(M, P, T, a, b, i) => InFlight(w, h, i)
  BY <1>0 DEF Placed
<1>2. ASSUME NEW a \in Int, NEW b \in Int, NEW c \in Int, NEW d \in Int, NEW i \in ALIndex,
             Holds(M, P, T, a, b, i), Holds(M, P, T, c, d, i)
      PROVE  a = c /\ b = d
  <2>1. PICK a1, b1 \in Int : Holds(L, Q, S, a1, b1, i) /\ X[a1][b1] = a /\ Y[a1][b1] = b
    BY <1>0, <1>2
  <2>2. PICK c1, d1 \in Int : Holds(L, Q, S, c1, d1, i) /\ X[c1][d1] = c /\ Y[c1][d1] = d
    BY <1>0, <1>2
  <2>3. a1 = c1 /\ b1 = d1
    BY <2>1, <2>2 DEF Placed
  <2> QED  BY <2>1, <2>2, <2>3
<1>3. ASSUME NEW i \in ALIndex, InFlight(w, h, i)
      PROVE  \E a, b \in Int : Holds(M, P, T, a, b, i)
  <2>1. PICK a, b \in Int : Holds(L, Q, S, a, b, i)
    BY <1>3 DEF Placed
  <2> QED  BY <2>1, <1>0
<1> QED  BY <1>1, <1>2, <1>3 DEF Placed

(* An instruction is put in an entry of the queue.                         *)
Puts(L, Q, S, P, k, f) ==
  \A a, b \in Int, i \in ALIndex :
    Holds(L, P, S, a, b, i) <=>
      Holds(L, Q, S, a, b, i) \/ (a = -1 /\ b = f /\ i = k)

(* A new instruction in a new place is placed.                             *)
LEMMA PlacedAdd ==
  ASSUME NEW w, NEW h, NEW L, NEW Q, NEW S, Placed(w, h, L, Q, S),
         NEW v, NEW P, NEW k \in ALIndex, NEW f \in Int, ~InFlight(w, h, k),
         \A i \in ALIndex : InFlight(v, h, i) <=> InFlight(w, h, i) \/ i = k,
         Puts(L, Q, S, P, k, f)
  PROVE  Placed(v, h, L, P, S)
<1>1. PICK c \in Int : c = -1
  OBVIOUS
<1>2. \A a, b \in Int, i \in ALIndex :
        Holds(L, P, S, a, b, i) <=>
          Holds(L, Q, S, a, b, i) \/ (a = c /\ b = f /\ i = k)
  BY <1>1 DEF Puts
<1>3. c \in Int
  BY <1>1
<1>4. \A a, b \in Int, i \in ALIndex : Holds(L, P, S, a, b, i) => InFlight(v, h, i)
  BY ONLY <1>2, Placed(w, h, L, Q, S),
     \A i \in ALIndex : InFlight(v, h, i) <=> InFlight(w, h, i) \/ i = k DEF Placed
<1>5. \A a, b \in Int : ~Holds(L, Q, S, a, b, k)
  BY DEF Placed
<1>6. \A a, b, e, g \in Int, i \in ALIndex :
        Holds(L, P, S, a, b, i) /\ Holds(L, P, S, e, g, i) => a = e /\ b = g
  BY ONLY <1>2, <1>3, <1>5, Placed(w, h, L, Q, S) DEF Placed
<1>7. \A i \in ALIndex : InFlight(v, h, i) => \E a, b \in Int : Holds(L, P, S, a, b, i)
  BY <1>2, <1>3 DEF Placed
<1> QED  BY <1>4, <1>6, <1>7 DEF Placed

(* The same places hold the same instructions.                             *)
LEMMA PlacedSame ==
  ASSUME NEW w, NEW h, NEW L, NEW Q, NEW S, Placed(w, h, L, Q, S),
         NEW P, \A s \in Slot : P[s].valid = Q[s].valid /\ P[s].index = Q[s].index
  PROVE  Placed(w, h, L, P, S)
<1>1. \A a, b \in Int, i \in ALIndex : Holds(L, P, S, a, b, i) <=> Holds(L, Q, S, a, b, i)
  BY DEF Holds, InEntry
<1>2. \A a, b \in Int, i \in ALIndex :
        Holds(L, P, S, a, b, i) <=> Holds(L, Q, S, a, b, i) /\ InFlight(w, h, i)
  BY <1>1 DEF Placed
<1> QED  BY <1>2, PlacedSub

-----------------------------------------------------------------------------
(* What each stage does to the places.                                     *)
Housed(w, h, L, Q, S) == Placed(w, h, L, Q, S) /\ Kept(w, h, L, Q, S)

(* Entries of the queue that stay where they are, with what they keep.     *)
SameEntries(P, Q) ==
  \A s \in Slot : /\ P[s].valid = Q[s].valid /\ P[s].index = Q[s].index
                  /\ P[s].tags = Q[s].tags /\ P[s].branch_mask = Q[s].branch_mask

(* A completed instruction is in flight no more, the others are.           *)
LEMMA FlightDone ==
  ASSUME NEW w, IsWindow(w), NEW h \in ALIndex, NEW i \in ALIndex, InFlight(w, h, i),
         NEW v, v = CompletedAt(w, PosIn(h, i))
  PROVE  \A j \in ALIndex : InFlight(v, h, j) <=> InFlight(w, h, j) /\ j # i
<1>1. PosIn(h, i) \in 1..Len(w)
  BY FlightPos
<1>2. /\ IsWindow(v) /\ Len(v) = Len(w)
      /\ \A j \in 1..Len(w) : v[j].completed <=> (j = PosIn(h, i) \/ w[j].completed)
  BY <1>1, CompletedWindow
<1>3. ASSUME NEW j \in ALIndex PROVE InFlight(v, h, j) <=> InFlight(w, h, j) /\ j # i
  <2>1. PosIn(h, j) \in 1..n_active /\ (PosIn(h, j) = PosIn(h, i) => j = i)
    BY PosRange
  <2>2. Len(w) \in Nat /\ n_active \in Nat
    BY WindowSeq, Constants
  <2>3. PosIn(h, j) <= Len(w) => PosIn(h, j) \in 1..Len(w)
    BY <2>1, <2>2
  <2> QED  BY <1>2, <2>1, <2>3 DEF InFlight
<1> QED  BY <1>3

(* Masks, operands and kinds that are kept.                                *)
LEMMA KeptSub ==
  ASSUME NEW w, NEW h, NEW L, NEW Q, NEW S, Setting(w, h, L, Q, S),
         Kept(w, h, L, Q, S),
         NEW v, NEW M, NEW P, NEW T, Setting(v, h, M, P, T), Placed(v, h, M, P, T),
         Len(v) <= Len(w), \A k \in 1..Len(v) : SameCode(v[k], w[k]),
         \A s \in Slot : P[s].valid =>
           /\ Q[s].valid /\ P[s].index = Q[s].index /\ P[s].tags = Q[s].tags
           /\ P[s].branch_mask = OpenIn(v, PosIn(h, Q[s].index)),
         \A l \in Lane : \A d \in Reg(l) : Cell(M, l, d).valid =>
           Cell(M, l, d).branch_mask = OpenIn(v, PosIn(h, Cell(M, l, d).index)),
         T \subseteq S
  PROVE  Kept(v, h, M, P, T)
<1>1. /\ \A s \in Slot : P[s].valid => InFlight(v, h, P[s].index) /\ P[s].index \in ALIndex
      /\ \A i \in T : InFlight(v, h, i) /\ i \in ALIndex
  BY PlacedFlight
<1>2. IsWindow(v) /\ h \in ALIndex
  BY DEF Setting
<1>3. \A s \in Slot : P[s].valid => PosIn(h, P[s].index) \in 1..Len(v)
  BY <1>1, <1>2, FlightPos
<1>4. \A i \in T : PosIn(h, i) \in 1..Len(v)
  BY <1>1, <1>2, FlightPos
<1>5. ASSUME NEW s \in Slot, P[s].valid
      PROVE  /\ P[s].branch_mask = OpenIn(v, PosIn(h, P[s].index))
             /\ P[s].tags = v[PosIn(h, P[s].index)].tags
  BY <1>3, <1>5 DEF Kept, SameCode
<1>6. ASSUME NEW l \in Lane, NEW d \in Int, d \in (-1)..ex_depth[l], Cell(M, l, d).valid
      PROVE  Cell(M, l, d).branch_mask = OpenIn(v, PosIn(h, Cell(M, l, d).index))
  BY <1>6 DEF Reg
<1>7. \A i \in T : v[PosIn(h, i)].kind = "load"
  BY <1>4 DEF Kept, SameCode
<1> QED  BY <1>5, <1>6, <1>7 DEF Kept

(* An instruction leaves Writeback, and completes.                         *)
LEMMA DonePlaces ==
  ASSUME NEW w, NEW h, NEW L, NEW Q, NEW S, Setting(w, h, L, Q, S),
         Housed(w, h, L, Q, S), NEW n \in Lane, Cell(L, n, ex_depth[n]).valid,
         NEW i, i = Cell(L, n, ex_depth[n]).index, ~Open(w[PosIn(h, i)]),
         NEW v, v = CompletedAt(w, PosIn(h, i)), NEW M, M = Written(L, n),
         NEW P \in [Slot -> Entry], SameEntries(P, Q)
  PROVE  Housed(v, h, M, P, S)
<1>1. /\ IsWindow(w) /\ h \in ALIndex /\ LanesOK(L) /\ Q \in [Slot -> Entry]
      /\ S \in SUBSET ALIndex /\ Placed(w, h, L, Q, S) /\ Kept(w, h, L, Q, S)
  BY DEF Setting, Housed
<1>2. /\ ex_depth[n] \in Reg(n) /\ n \in Int /\ n # -1 /\ n # -2
      /\ ex_depth[n] \in Int
  BY LaneDepth
<1>3. i \in ALIndex /\ Holds(L, Q, S, n, ex_depth[n], i)
  BY <1>1, <1>2, CellToken
<1>4. InFlight(w, h, i)
  BY <1>1, <1>2, <1>3 DEF Placed
<1>5. PosIn(h, i) \in 1..Len(w)
  BY <1>1, <1>3, <1>4, FlightPos
<1>6. \A j \in ALIndex : InFlight(v, h, j) <=> InFlight(w, h, j) /\ j # i
  BY <1>1, <1>3, <1>4, FlightDone
<1>7. /\ LanesOK(M)
      /\ \A l \in Lane : \A d \in Reg(l) :
           Cell(M, l, d) = IF l = n /\ d = ex_depth[n] THEN NoPlace ELSE Cell(L, l, d)
  BY <1>1, WrittenCells
<1>8. \A a, b \in Int, j \in ALIndex :
        InCell(M, a, b, j) <=> InCell(L, a, b, j) /\ ~(a = n /\ b = ex_depth[n])
  BY <1>7, RegFields DEF InCell, Reg
<1>9. \A b \in Int, j \in ALIndex : InEntry(P, b, j) <=> InEntry(Q, b, j)
  BY DEF SameEntries, InEntry
<1>10. \A a, b \in Int : Holds(L, Q, S, a, b, i) => a = n /\ b = ex_depth[n]
  BY <1>1, <1>2, <1>3 DEF Placed
<1>11. ASSUME NEW a \in Int, NEW b \in Int, NEW j \in ALIndex
       PROVE  Holds(M, P, S, a, b, j) <=> Holds(L, Q, S, a, b, j) /\ j # i
  <2>1. ASSUME Holds(M, P, S, a, b, j) PROVE Holds(L, Q, S, a, b, j) /\ j # i
    <3>1. Holds(L, Q, S, a, b, j) /\ ~(a = n /\ b = ex_depth[n])
      BY <2>1, <1>2, <1>8, <1>9 DEF Holds
    <3> QED  BY <3>1, <1>10
  <2>2. ASSUME Holds(L, Q, S, a, b, j), j # i PROVE Holds(M, P, S, a, b, j)
    <3>1. ~InCell(L, n, ex_depth[n], j)
      BY <2>2 DEF InCell
    <3> QED  BY <3>1, <2>2, <1>8, <1>9 DEF Holds
  <2> QED  BY <2>1, <2>2
<1>12. Placed(v, h, M, P, S)
  <2>1. \A j \in ALIndex : InFlight(v, h, j) => InFlight(w, h, j)
    BY <1>6
  <2>2. \A a, b \in Int, j \in ALIndex :
          Holds(M, P, S, a, b, j) <=> Holds(L, Q, S, a, b, j) /\ InFlight(v, h, j)
    BY <1>1, <1>6, <1>11 DEF Placed
  <2> QED  BY <1>1, <2>1, <2>2, PlacedSub
<1>13. /\ IsWindow(v) /\ Len(v) = Len(w)
       /\ \A j \in 1..Len(w) : SameCode(v[j], w[j])
  BY <1>1, <1>5, CompletedWindow
<1>14. \A m \in Int : OpenIn(v, m) = OpenIn(w, m)
  BY <1>1, <1>5, OpenInDone
<1>15. Setting(v, h, M, P, S)
  BY <1>1, <1>7, <1>13 DEF Setting
<1>16. \A j \in ALIndex : PosIn(h, j) \in Int
  BY <1>1, PosRange
<1>17. ASSUME NEW l \in Lane, NEW d \in Reg(l), Cell(M, l, d).valid
       PROVE  Cell(M, l, d).branch_mask = OpenIn(v, PosIn(h, Cell(M, l, d).index))
  <2>1. Cell(M, l, d) = Cell(L, l, d) /\ d \in Int
    BY <1>7, <1>17, RegFields, LaneDepth
  <2>2. Cell(L, l, d).branch_mask = OpenIn(w, PosIn(h, Cell(L, l, d).index))
    BY <1>1, <1>17, <2>1 DEF Kept, Reg
  <2>3. Cell(L, l, d).index \in ALIndex
    BY <1>1, CellType, RegFields
  <2> QED  BY <2>1, <2>2, <2>3, <1>14, <1>16
<1>18. ASSUME NEW s \in Slot, P[s].valid
       PROVE  /\ Q[s].valid /\ P[s].index = Q[s].index /\ P[s].tags = Q[s].tags
              /\ P[s].branch_mask = OpenIn(v, PosIn(h, Q[s].index))
  <2>1. /\ Q[s].valid /\ P[s].index = Q[s].index /\ P[s].tags = Q[s].tags
        /\ P[s].branch_mask = Q[s].branch_mask
    BY <1>18 DEF SameEntries
  <2>2. Q[s].branch_mask = OpenIn(w, PosIn(h, Q[s].index)) /\ Q[s].index \in ALIndex
    BY <1>1, <2>1, EntryFields DEF Kept
  <2> QED  BY <2>1, <2>2, <1>14, <1>16
<1>19. Len(v) <= Len(w)
  BY <1>1, <1>13, WindowSeq
<1>20. Kept(v, h, M, P, S)
  BY <1>1, <1>12, <1>13, <1>15, <1>17, <1>18, <1>19, KeptSub
<1> QED  BY <1>12, <1>20 DEF Housed

(* A stalled load is served, and completes.                                *)
LEMMA ServedPlaces ==
  ASSUME NEW w, NEW h, NEW L, NEW Q, NEW S, Setting(w, h, L, Q, S),
         Housed(w, h, L, Q, S), WindowOK(w), NEW i \in S,
         NEW v, v = CompletedAt(w, PosIn(h, i)), NEW T, T = S \ {i},
         NEW P \in [Slot -> Entry], SameEntries(P, Q)
  PROVE  Housed(v, h, L, P, T)
<1>1. /\ IsWindow(w) /\ h \in ALIndex /\ LanesOK(L) /\ Q \in [Slot -> Entry]
      /\ S \in SUBSET ALIndex /\ Placed(w, h, L, Q, S) /\ Kept(w, h, L, Q, S)
  BY DEF Setting, Housed
<1>2. i \in ALIndex /\ -2 \in Int /\ 0 \in Int /\ Holds(L, Q, S, -2, 0, i)
  BY <1>1, StalledToken
<1>3. InFlight(w, h, i)
  BY <1>1, <1>2 DEF Placed
<1>4. PosIn(h, i) \in 1..Len(w)
  BY <1>1, <1>2, <1>3, FlightPos
<1>5. ~Open(w[PosIn(h, i)])
  BY <1>1, <1>4 DEF Kept, WindowOK
<1>6. \A j \in ALIndex : InFlight(v, h, j) <=> InFlight(w, h, j) /\ j # i
  BY <1>1, <1>2, <1>3, FlightDone
<1>7. \A b \in Int, j \in ALIndex : InEntry(P, b, j) <=> InEntry(Q, b, j)
  BY DEF SameEntries, InEntry
<1>8. \A a, b \in Int : Holds(L, Q, S, a, b, i) => a = -2 /\ b = 0
  BY <1>1, <1>2 DEF Placed
<1>9. \A a \in Int, b \in Int, j \in ALIndex : InCell(L, a, b, j) => a # -2
  BY LaneDepth DEF InCell
<1>10. ASSUME NEW a \in Int, NEW b \in Int, NEW j \in ALIndex
       PROVE  Holds(L, P, T, a, b, j) <=> Holds(L, Q, S, a, b, j) /\ j # i
  <2>1. ASSUME Holds(L, P, T, a, b, j) PROVE Holds(L, Q, S, a, b, j) /\ j # i
    <3>1. Holds(L, Q, S, a, b, j)
      BY <2>1, <1>7 DEF Holds
    <3>2. a = -2 => j # i
      BY <2>1, <1>9 DEF Holds
    <3> QED  BY <3>1, <3>2, <1>8
  <2>2. ASSUME Holds(L, Q, S, a, b, j), j # i PROVE Holds(L, P, T, a, b, j)
    BY <2>2, <1>7 DEF Holds
  <2> QED  BY <2>1, <2>2
<1>11. Placed(v, h, L, P, T)
  <2>1. \A j \in ALIndex : InFlight(v, h, j) => InFlight(w, h, j)
    BY <1>6
  <2>2. \A a, b \in Int, j \in ALIndex :
          Holds(L, P, T, a, b, j) <=> Holds(L, Q, S, a, b, j) /\ InFlight(v, h, j)
    BY <1>1, <1>6, <1>10 DEF Placed
  <2> QED  BY <1>1, <2>1, <2>2, PlacedSub
<1>12. /\ IsWindow(v) /\ Len(v) = Len(w)
       /\ \A j \in 1..Len(w) : SameCode(v[j], w[j])
  BY <1>1, <1>4, CompletedWindow
<1>13. \A m \in Int : OpenIn(v, m) = OpenIn(w, m)
  BY <1>1, <1>4, <1>5, OpenInDone
<1>14. T \in SUBSET ALIndex /\ T \subseteq S
  BY <1>1
<1>15. Setting(v, h, L, P, T)
  BY <1>1, <1>12, <1>14 DEF Setting
<1>16. \A j \in ALIndex : PosIn(h, j) \in Int
  BY <1>1, PosRange
<1>17. ASSUME NEW l \in Lane, NEW d \in Reg(l), Cell(L, l, d).valid
       PROVE  Cell(L, l, d).branch_mask = OpenIn(v, PosIn(h, Cell(L, l, d).index))
  <2>1. d \in Int
    BY LaneDepth
  <2>2. Cell(L, l, d).branch_mask = OpenIn(w, PosIn(h, Cell(L, l, d).index))
    BY <1>1, <1>17, <2>1 DEF Kept, Reg
  <2>3. Cell(L, l, d).index \in ALIndex
    BY <1>1, CellType, RegFields
  <2> QED  BY <2>2, <2>3, <1>13, <1>16
<1>18. ASSUME NEW s \in Slot, P[s].valid
       PROVE  /\ Q[s].valid /\ P[s].index = Q[s].index /\ P[s].tags = Q[s].tags
              /\ P[s].branch_mask = OpenIn(v, PosIn(h, Q[s].index))
  <2>1. /\ Q[s].valid /\ P[s].index = Q[s].index /\ P[s].tags = Q[s].tags
        /\ P[s].branch_mask = Q[s].branch_mask
    BY <1>18 DEF SameEntries
  <2>2. Q[s].branch_mask = OpenIn(w, PosIn(h, Q[s].index)) /\ Q[s].index \in ALIndex
    BY <1>1, <2>1, EntryFields DEF Kept
  <2> QED  BY <2>1, <2>2, <1>13, <1>16
<1>19. Len(v) <= Len(w)
  BY <1>1, <1>12, WindowSeq
<1>20. Kept(v, h, L, P, T)
  BY <1>1, <1>11, <1>12, <1>14, <1>15, <1>17, <1>18, <1>19, KeptSub
<1> QED  BY <1>11, <1>20 DEF Housed

(* Branch i, open under the ID b, is in the Writeback register of lane n.  *)
BranchDone(w, h, L, n, i, b) ==
  /\ Cell(L, n, ex_depth[n]).valid /\ i = Cell(L, n, ex_depth[n]).index
  /\ Open(w[PosIn(h, i)]) /\ b = w[PosIn(h, i)].branch_ID

(* A branch that was predicted right leaves Writeback: its bit leaves      *)
(* every mask.                                                             *)
LEMMA ResolvedPlaces ==
  ASSUME NEW w, NEW h, NEW L, NEW Q, NEW S, Setting(w, h, L, Q, S),
         Housed(w, h, L, Q, S), WindowOK(w), NEW n \in Lane,
         NEW i, NEW b0, BranchDone(w, h, L, n, i, b0),
         NEW v, v = CompletedAt(w, PosIn(h, i)),
         NEW M0, M0 = Cleared(L, b0), NEW M, M = Written(M0, n),
         NEW P \in [Slot -> Entry],
         \A s \in Slot : /\ P[s].valid = Q[s].valid /\ P[s].index = Q[s].index
                         /\ P[s].tags = Q[s].tags
                         /\ P[s].branch_mask = Q[s].branch_mask \ {b0}
  PROVE  Housed(v, h, M, P, S)
<1>0. /\ Cell(L, n, ex_depth[n]).valid /\ i = Cell(L, n, ex_depth[n]).index
      /\ Open(w[PosIn(h, i)]) /\ b0 = w[PosIn(h, i)].branch_ID
  BY DEF BranchDone
<1>1. /\ IsWindow(w) /\ h \in ALIndex /\ LanesOK(L) /\ Q \in [Slot -> Entry]
      /\ S \in SUBSET ALIndex /\ Placed(w, h, L, Q, S) /\ Kept(w, h, L, Q, S)
  BY DEF Setting, Housed
<1>2. /\ ex_depth[n] \in Reg(n) /\ n \in Int /\ n # -1 /\ n # -2
      /\ ex_depth[n] \in Int
  BY LaneDepth
<1>3. i \in ALIndex /\ Holds(L, Q, S, n, ex_depth[n], i)
  BY <1>0, <1>1, <1>2, CellToken
<1>4. InFlight(w, h, i)
  BY <1>1, <1>2, <1>3 DEF Placed
<1>5. PosIn(h, i) \in 1..Len(w)
  BY <1>1, <1>3, <1>4, FlightPos
<1>6. \A j \in ALIndex : InFlight(v, h, j) <=> InFlight(w, h, j) /\ j # i
  BY <1>1, <1>3, <1>4, FlightDone
<1>7. /\ LanesOK(M)
      /\ \A l \in Lane : \A d \in Reg(l) :
           Cell(M, l, d) = IF l = n /\ d = ex_depth[n] THEN NoPlace
                           ELSE ClearedPlace(b0, Cell(L, l, d))
  <2>1. /\ LanesOK(M0)
        /\ \A l \in Lane : \A d \in Reg(l) : Cell(M0, l, d) = ClearedPlace(b0, Cell(L, l, d))
    BY <1>1, ClearedCells
  <2>2. /\ LanesOK(M)
        /\ \A l \in Lane : \A d \in Reg(l) :
             Cell(M, l, d) = IF l = n /\ d = ex_depth[n] THEN NoPlace ELSE Cell(M0, l, d)
    BY <2>1, WrittenCells
  <2> QED  BY <2>1, <2>2
<1>8. \A l \in Lane : \A d \in Reg(l) :
        /\ Cell(M, l, d).valid <=> Cell(L, l, d).valid /\ ~(l = n /\ d = ex_depth[n])
        /\ Cell(M, l, d).valid =>
             /\ Cell(M, l, d).index = Cell(L, l, d).index
             /\ Cell(M, l, d).branch_mask = Cell(L, l, d).branch_mask \ {b0}
        /\ ~(l = n /\ d = ex_depth[n]) => Cell(M, l, d).index = Cell(L, l, d).index
        /\ Cell(L, l, d).index \in ALIndex /\ d \in Int
  <2> TAKE l \in Lane
  <2> TAKE d \in Reg(l)
  <2>1. PICK p : p = Cell(L, l, d)
    OBVIOUS
  <2>2. p \in LaneReg /\ p.index \in ALIndex /\ d \in Int
    BY <1>1, <2>1, CellType, RegFields, LaneDepth
  <2>3. /\ ClearedPlace(b0, p).valid = p.valid /\ ClearedPlace(b0, p).index = p.index
        /\ ClearedPlace(b0, p).branch_mask = p.branch_mask \ {b0}
    BY <2>2, ResolvedPlace
  <2> QED  BY <1>7, <2>1, <2>2, <2>3, RegFields
<1>9. \A a, b \in Int, j \in ALIndex :
        InCell(M, a, b, j) <=> InCell(L, a, b, j) /\ ~(a = n /\ b = ex_depth[n])
  BY <1>8 DEF InCell, Reg
<1>10. \A b \in Int, j \in ALIndex : InEntry(P, b, j) <=> InEntry(Q, b, j)
  BY DEF InEntry
<1>11. \A a, b \in Int : Holds(L, Q, S, a, b, i) => a = n /\ b = ex_depth[n]
  BY <1>1, <1>2, <1>3 DEF Placed
<1>12. ASSUME NEW a \in Int, NEW b \in Int, NEW j \in ALIndex
       PROVE  Holds(M, P, S, a, b, j) <=> Holds(L, Q, S, a, b, j) /\ j # i
  <2>1. ASSUME Holds(M, P, S, a, b, j) PROVE Holds(L, Q, S, a, b, j) /\ j # i
    <3>1. Holds(L, Q, S, a, b, j) /\ ~(a = n /\ b = ex_depth[n])
      BY <2>1, <1>2, <1>9, <1>10 DEF Holds
    <3> QED  BY <3>1, <1>11
  <2>2. ASSUME Holds(L, Q, S, a, b, j), j # i PROVE Holds(M, P, S, a, b, j)
    <3>1. ~InCell(L, n, ex_depth[n], j)
      BY <1>0, <2>2 DEF InCell
    <3> QED  BY <3>1, <2>2, <1>9, <1>10 DEF Holds
  <2> QED  BY <2>1, <2>2
<1>13. Placed(v, h, M, P, S)
  <2>1. \A j \in ALIndex : InFlight(v, h, j) => InFlight(w, h, j)
    BY <1>6
  <2>2. \A a, b \in Int, j \in ALIndex :
          Holds(M, P, S, a, b, j) <=> Holds(L, Q, S, a, b, j) /\ InFlight(v, h, j)
    BY <1>1, <1>6, <1>12 DEF Placed
  <2> QED  BY <1>1, <2>1, <2>2, PlacedSub
<1>14. /\ IsWindow(v) /\ Len(v) = Len(w)
       /\ \A j \in 1..Len(w) : SameCode(v[j], w[j])
  BY <1>1, <1>5, CompletedWindow
<1>15. \A m \in Int : OpenIn(v, m) = OpenIn(w, m) \ {b0}
  BY <1>0, <1>1, <1>5, OpenInResolved
<1>16. Setting(v, h, M, P, S)
  BY <1>1, <1>7, <1>14 DEF Setting
<1>17. \A j \in ALIndex : PosIn(h, j) \in Int
  BY <1>1, PosRange
<1>18. ASSUME NEW l \in Lane, NEW d \in Reg(l), Cell(M, l, d).valid
       PROVE  Cell(M, l, d).branch_mask = OpenIn(v, PosIn(h, Cell(M, l, d).index))
  <2>2. /\ Cell(L, l, d).valid /\ Cell(M, l, d).index = Cell(L, l, d).index
        /\ Cell(M, l, d).branch_mask = Cell(L, l, d).branch_mask \ {b0}
        /\ Cell(L, l, d).index \in ALIndex /\ d \in Int
    <3>1. /\ Cell(L, l, d).valid /\ ~(l = n /\ d = ex_depth[n])
          /\ Cell(L, l, d).index \in ALIndex /\ d \in Int
      BY <1>8, <1>18
    <3>2. Cell(M, l, d).index = Cell(L, l, d).index
      BY <1>8, <1>18
    <3>3. Cell(M, l, d).branch_mask = Cell(L, l, d).branch_mask \ {b0}
      <4>1. PICK p : p = Cell(L, l, d)
        OBVIOUS
      <4>2. Cell(M, l, d) = ClearedPlace(b0, p)
        BY <1>7, <3>1, <4>1
      <4>3. p \in LaneReg
        BY <1>1, <4>1, CellType
      <4>4. ClearedPlace(b0, p).branch_mask = p.branch_mask \ {b0}
        BY <4>3, ResolvedPlace
      <4> QED  BY <4>1, <4>2, <4>4
    <3> QED  BY <3>1, <3>2, <3>3
  <2>3. Cell(L, l, d).branch_mask = OpenIn(w, PosIn(h, Cell(L, l, d).index))
    BY <1>1, <2>2 DEF Kept, Reg
  <2> QED  BY <2>2, <2>3, <1>15, <1>17
<1>19. ASSUME NEW s \in Slot, P[s].valid
       PROVE  /\ Q[s].valid /\ P[s].index = Q[s].index /\ P[s].tags = Q[s].tags
              /\ P[s].branch_mask = OpenIn(v, PosIn(h, Q[s].index))
  <2>1. /\ Q[s].valid /\ P[s].index = Q[s].index /\ P[s].tags = Q[s].tags
        /\ P[s].branch_mask = Q[s].branch_mask \ {b0}
    BY <1>19
  <2>2. Q[s].branch_mask = OpenIn(w, PosIn(h, Q[s].index)) /\ Q[s].index \in ALIndex
    BY <1>1, <2>1, EntryFields DEF Kept
  <2> QED  BY <2>1, <2>2, <1>15, <1>17
<1>20. Len(v) <= Len(w) /\ \A j \in 1..Len(v) : SameCode(v[j], w[j])
  BY <1>1, <1>14, WindowSeq
<1>21. Kept(v, h, M, P, S)
  <2>1. Setting(w, h, L, Q, S) /\ Kept(w, h, L, Q, S) /\ S \subseteq S
    BY <1>1
  <2> QED  BY ONLY <2>1, <1>13, <1>16, <1>18, <1>19, <1>20, KeptSub
<1> QED  BY <1>13, <1>21 DEF Housed

(* The stalled loads before position k.                                    *)
StalledBefore(S, h, k) == {j \in S : PosIn(h, j) < k}

(* A branch that was predicted wrong leaves Writeback: what is behind it   *)
(* leaves every place.                                                     *)
LEMMA CutPlaces ==
  ASSUME NEW w, NEW h, NEW L, NEW Q, NEW S, Setting(w, h, L, Q, S),
         Housed(w, h, L, Q, S), WindowOK(w), NEW n \in Lane,
         NEW i, NEW b0, BranchDone(w, h, L, n, i, b0),
         NEW v, v = CutAt(w, PosIn(h, i)),
         NEW M0, M0 = Killed(L, b0), NEW M, M = Written(M0, n),
         NEW T, T = StalledBefore(S, h, PosIn(h, i)),
         NEW P \in [Slot -> Entry],
         \A s \in Slot : /\ P[s].valid <=> Q[s].valid /\ b0 \notin Q[s].branch_mask
                         /\ P[s].index = Q[s].index /\ P[s].tags = Q[s].tags
                         /\ P[s].branch_mask = Q[s].branch_mask
  PROVE  /\ Housed(v, h, M, P, T)
         /\ \A l \in Lane : \A d \in Reg(l) :
              /\ Cell(M, l, d).valid => /\ Cell(M, l, d) = Cell(L, l, d)
                                        /\ PosIn(h, Cell(L, l, d).index) < PosIn(h, i)
              /\ Cell(L, l, d).valid /\ PosIn(h, Cell(L, l, d).index) < PosIn(h, i)
                   => Cell(M, l, d) = Cell(L, l, d)
<1>0. PICK k : k = PosIn(h, i)
  OBVIOUS
<1>d. /\ Cell(L, n, ex_depth[n]).valid /\ i = Cell(L, n, ex_depth[n]).index
      /\ Open(w[k]) /\ b0 = w[k].branch_ID
  BY <1>0 DEF BranchDone
<1>1. /\ IsWindow(w) /\ h \in ALIndex /\ LanesOK(L) /\ Q \in [Slot -> Entry]
      /\ S \in SUBSET ALIndex /\ Placed(w, h, L, Q, S) /\ Kept(w, h, L, Q, S)
  BY DEF Setting, Housed
<1>2. /\ ex_depth[n] \in Reg(n) /\ n \in Int /\ n # -1 /\ n # -2
      /\ ex_depth[n] \in Int
  BY LaneDepth
<1>3. i \in ALIndex /\ Holds(L, Q, S, n, ex_depth[n], i)
  BY <1>1, <1>2, <1>d, CellToken
<1>4. InFlight(w, h, i)
  BY <1>1, <1>2, <1>3 DEF Placed
<1>5. k \in 1..Len(w) /\ Open(w[k]) /\ b0 = w[k].branch_ID /\ k \in Int
  <2>1. PosIn(h, i) \in 1..Len(w)
    BY <1>1, <1>3, <1>4, FlightPos
  <2> QED  BY <2>1, <1>0, <1>1, <1>d, WindowSeq
<1>6. /\ IsWindow(v) /\ Len(v) = k
      /\ \A j \in 1..k : /\ SameCode(v[j], w[j])
                         /\ v[j].completed <=> (j = k \/ w[j].completed)
  BY <1>0, <1>1, <1>5, CutWindow
<1>7. \A j \in ALIndex : /\ PosIn(h, j) \in Int /\ PosIn(h, j) >= 1
                         /\ PosIn(h, j) = k => j = i
  BY <1>0, <1>1, <1>3, PosRange
<1>8. \A j \in ALIndex : InFlight(v, h, j) <=> InFlight(w, h, j) /\ PosIn(h, j) < k
  <2> TAKE j \in ALIndex
  <2>1. PosIn(h, j) \in Int /\ PosIn(h, j) >= 1 /\ k <= Len(w) /\ Len(w) \in Nat
    BY <1>1, <1>5, <1>7, WindowSeq
  <2>2. CASE PosIn(h, j) < k
    <3>1. PosIn(h, j) \in 1..k /\ PosIn(h, j) <= Len(w)
      BY <2>1, <2>2, <1>5
    <3>2. v[PosIn(h, j)].completed <=> w[PosIn(h, j)].completed
      BY <3>1, <2>2, <1>6, <1>5
    <3> QED  BY <2>1, <3>1, <3>2, <2>2, <1>6 DEF InFlight
  <2>3. CASE PosIn(h, j) = k
    <3>1. v[k].completed /\ k \in 1..k
      BY <1>5, <1>6
    <3> QED  BY <2>3, <3>1 DEF InFlight
  <2>4. CASE PosIn(h, j) > k
    BY <2>4, <2>1, <1>5, <1>6 DEF InFlight
  <2> QED  BY <2>1, <2>2, <2>3, <2>4, <1>5
<1>9. /\ LanesOK(M)
      /\ \A l \in Lane : \A d \in Reg(l) :
           Cell(M, l, d) = IF l = n /\ d = ex_depth[n] THEN NoPlace
                           ELSE KilledPlace(b0, Cell(L, l, d))
  <2>1. /\ LanesOK(M0)
        /\ \A l \in Lane : \A d \in Reg(l) : Cell(M0, l, d) = KilledPlace(b0, Cell(L, l, d))
    BY <1>1, KilledCells
  <2>2. /\ LanesOK(M)
        /\ \A l \in Lane : \A d \in Reg(l) :
             Cell(M, l, d) = IF l = n /\ d = ex_depth[n] THEN NoPlace ELSE Cell(M0, l, d)
    BY <2>1, WrittenCells
  <2> QED  BY <2>1, <2>2
<1>10. \A j \in ALIndex : b0 \in OpenIn(w, PosIn(h, j)) <=> k < PosIn(h, j)
  BY <1>1, <1>5, <1>7, OpenInBehind
<1>11. \A l \in Lane : \A d \in Reg(l) : Cell(L, l, d).valid =>
         /\ Cell(L, l, d).index \in ALIndex
         /\ Cell(L, l, d).branch_mask = OpenIn(w, PosIn(h, Cell(L, l, d).index))
         /\ PosIn(h, Cell(L, l, d).index) = k <=> (l = n /\ d = ex_depth[n])
  <2> SUFFICES ASSUME NEW l \in Lane, NEW d \in Reg(l), Cell(L, l, d).valid
               PROVE  /\ Cell(L, l, d).index \in ALIndex
                      /\ Cell(L, l, d).branch_mask = OpenIn(w, PosIn(h, Cell(L, l, d).index))
                      /\ PosIn(h, Cell(L, l, d).index) = k <=> (l = n /\ d = ex_depth[n])
    OBVIOUS
  <2>1. /\ l \in Int /\ d \in Int /\ Cell(L, l, d).index \in ALIndex
        /\ Holds(L, Q, S, l, d, Cell(L, l, d).index)
    BY <1>1, CellToken
  <2>2. Cell(L, l, d).branch_mask = OpenIn(w, PosIn(h, Cell(L, l, d).index))
    BY <1>1, <2>1 DEF Kept, Reg
  <2>3. ASSUME PosIn(h, Cell(L, l, d).index) = k PROVE l = n /\ d = ex_depth[n]
    <3>1. Cell(L, l, d).index = i
      BY <2>1, <2>3, <1>7
    <3> QED  BY <2>1, <3>1, <1>1, <1>2, <1>3 DEF Placed
  <2> QED  BY <2>1, <2>2, <2>3, <1>0, <1>d
<1>12. \A l \in Lane : \A d \in Reg(l) :
              /\ Cell(M, l, d).valid => /\ Cell(M, l, d) = Cell(L, l, d)
                                        /\ PosIn(h, Cell(L, l, d).index) < k
              /\ Cell(L, l, d).valid /\ PosIn(h, Cell(L, l, d).index) < k
                   => Cell(M, l, d) = Cell(L, l, d)
  <2> SUFFICES ASSUME NEW l \in Lane, NEW d \in Reg(l)
               PROVE  /\ Cell(M, l, d).valid => /\ Cell(M, l, d) = Cell(L, l, d)
                                                /\ PosIn(h, Cell(L, l, d).index) < k
                      /\ Cell(L, l, d).valid /\ PosIn(h, Cell(L, l, d).index) < k
                           => Cell(M, l, d) = Cell(L, l, d)
    OBVIOUS
  <2>1. ASSUME Cell(M, l, d).valid
        PROVE  Cell(M, l, d) = Cell(L, l, d) /\ PosIn(h, Cell(L, l, d).index) < k
    <3>1. /\ ~(l = n /\ d = ex_depth[n])
          /\ Cell(M, l, d) = KilledPlace(b0, Cell(L, l, d))
      BY <2>1, <1>9, RegFields
    <3>2. /\ Cell(M, l, d) = Cell(L, l, d) /\ Cell(L, l, d).valid
          /\ b0 \notin Cell(L, l, d).branch_mask
      BY <2>1, <3>1, RegFields DEF KilledPlace
    <3>3. Cell(L, l, d).index \in ALIndex /\ ~(k < PosIn(h, Cell(L, l, d).index))
      BY <3>2, <1>10, <1>11
    <3>4. PosIn(h, Cell(L, l, d).index) # k
      BY <3>1, <3>2, <1>11
    <3> QED  BY <3>2, <3>3, <3>4, <1>5, <1>7
  <2>2. ASSUME Cell(L, l, d).valid, PosIn(h, Cell(L, l, d).index) < k
        PROVE  Cell(M, l, d) = Cell(L, l, d)
    <3>1. Cell(L, l, d).index \in ALIndex /\ ~(l = n /\ d = ex_depth[n])
      BY <2>2, <1>5, <1>11
    <3>2. b0 \notin Cell(L, l, d).branch_mask
      BY <2>2, <3>1, <1>5, <1>7, <1>10, <1>11
    <3> QED  BY <3>1, <3>2, <1>9 DEF KilledPlace
  <2> QED  BY <2>1, <2>2
<1>13. \A s \in Slot : /\ P[s].valid <=> Q[s].valid /\ PosIn(h, Q[s].index) < k
                       /\ Q[s].valid => /\ Q[s].index \in ALIndex
                                        /\ Q[s].branch_mask = OpenIn(w, PosIn(h, Q[s].index))
  <2> SUFFICES ASSUME NEW s \in Slot, Q[s].valid
               PROVE  /\ P[s].valid <=> PosIn(h, Q[s].index) < k
                      /\ Q[s].index \in ALIndex
                      /\ Q[s].branch_mask = OpenIn(w, PosIn(h, Q[s].index))
    OBVIOUS
  <2>1. /\ s \in Int /\ -1 \in Int /\ Q[s].index \in ALIndex
        /\ Holds(L, Q, S, -1, s, Q[s].index)
    BY <1>1, EntryToken
  <2>2. Q[s].branch_mask = OpenIn(w, PosIn(h, Q[s].index))
    BY <1>1 DEF Kept
  <2>3. PosIn(h, Q[s].index) # k
    <3>1. ASSUME Q[s].index = i PROVE FALSE
      BY <2>1, <3>1, <1>1, <1>2, <1>3 DEF Placed
    <3> QED  BY <2>1, <3>1, <1>7
  <2>4. P[s].valid <=> b0 \notin Q[s].branch_mask
    OBVIOUS
  <2> QED  BY <2>1, <2>2, <2>3, <2>4, <1>5, <1>7, <1>10
<1>14. ASSUME NEW a \in Int, NEW b \in Int, NEW j \in ALIndex
       PROVE  Holds(M, P, T, a, b, j) <=> Holds(L, Q, S, a, b, j) /\ PosIn(h, j) < k
  <2>1. InCell(M, a, b, j) <=> InCell(L, a, b, j) /\ PosIn(h, j) < k
    BY <1>12 DEF InCell, Reg
  <2>2. InEntry(P, b, j) <=> InEntry(Q, b, j) /\ PosIn(h, j) < k
    BY <1>13 DEF InEntry
  <2>3. j \in T <=> j \in S /\ PosIn(h, j) < k
    BY <1>0 DEF StalledBefore
  <2> QED  BY <2>1, <2>2, <2>3 DEF Holds
<1>15. Placed(v, h, M, P, T)
  <2>1. \A j \in ALIndex : InFlight(v, h, j) => InFlight(w, h, j)
    BY <1>8
  <2>2. \A a, b \in Int, j \in ALIndex :
          Holds(M, P, T, a, b, j) <=> Holds(L, Q, S, a, b, j) /\ InFlight(v, h, j)
    BY <1>1, <1>8, <1>14 DEF Placed
  <2> QED  BY <1>1, <2>1, <2>2, PlacedSub
<1>16. \A m \in Int : m <= k => OpenIn(v, m) = OpenIn(w, m)
  BY <1>0, <1>1, <1>5, OpenInCut
<1>17. T \in SUBSET ALIndex /\ T \subseteq S
  BY <1>1 DEF StalledBefore
<1>18. Setting(v, h, M, P, T)
  BY <1>1, <1>6, <1>9, <1>17 DEF Setting
<1>19. ASSUME NEW l \in Lane, NEW d \in Reg(l), Cell(M, l, d).valid
       PROVE  Cell(M, l, d).branch_mask = OpenIn(v, PosIn(h, Cell(M, l, d).index))
  <2>1. Cell(M, l, d) = Cell(L, l, d) /\ PosIn(h, Cell(L, l, d).index) < k
    BY <1>12, <1>19
  <2>2. /\ Cell(L, l, d).index \in ALIndex
        /\ Cell(L, l, d).branch_mask = OpenIn(w, PosIn(h, Cell(L, l, d).index))
    BY <1>11, <1>19, <2>1
  <2> QED  BY <2>1, <2>2, <1>5, <1>7, <1>16
<1>20. ASSUME NEW s \in Slot, P[s].valid
       PROVE  /\ Q[s].valid /\ P[s].index = Q[s].index /\ P[s].tags = Q[s].tags
              /\ P[s].branch_mask = OpenIn(v, PosIn(h, Q[s].index))
  <2>1. /\ Q[s].valid /\ PosIn(h, Q[s].index) < k /\ Q[s].index \in ALIndex
        /\ Q[s].branch_mask = OpenIn(w, PosIn(h, Q[s].index))
    BY <1>13, <1>20
  <2>2. P[s].index = Q[s].index /\ P[s].tags = Q[s].tags /\ P[s].branch_mask = Q[s].branch_mask
    OBVIOUS
  <2> QED  BY <2>1, <2>2, <1>5, <1>7, <1>16
<1>21. Len(v) <= Len(w) /\ \A j \in 1..Len(v) : SameCode(v[j], w[j])
  BY <1>1, <1>5, <1>6, WindowSeq
<1>22. Kept(v, h, M, P, T)
  <2>1. Setting(w, h, L, Q, S) /\ Kept(w, h, L, Q, S) /\ T \subseteq S
    BY <1>1, <1>17
  <2> QED  BY ONLY <2>1, <1>15, <1>18, <1>19, <1>20, <1>21, KeptSub
<1>23. Housed(v, h, M, P, T)
  BY <1>15, <1>22 DEF Housed
<1> QED  BY <1>0, <1>12, <1>23

(* The head commits.                                                       *)
LEMMA FlightCommit ==
  ASSUME NEW w, IsWindow(w), NEW h \in ALIndex, w # <<>>, w[1].completed,
         NEW v, v = Left(w), NEW g, g = Next1(h, n_active)
  PROVE  /\ g \in ALIndex
         /\ \A i \in ALIndex :
              /\ InFlight(v, g, i) <=> InFlight(w, h, i)
              /\ InFlight(w, h, i) => /\ PosIn(g, i) + 1 = PosIn(h, i) /\ PosIn(g, i) \in 1..Len(v)
                                      /\ v[PosIn(g, i)] = w[PosIn(h, i)]
<1>1. /\ IsWindow(v) /\ Len(v) = Len(w) - 1 /\ Len(w) >= 1
      /\ \A j \in 1..Len(v) : v[j] = w[j + 1]
  BY TailWindow
<1>2. Len(w) \in Nat /\ Len(v) \in Nat /\ Len(w) <= n_active /\ n_active \in Nat
  BY <1>1, WindowSeq, Constants
<1>3. /\ g \in ALIndex /\ PosIn(h, h) = 1 /\ PosIn(g, h) = n_active
      /\ \A i \in ALIndex : i # h => PosIn(h, i) > 1 /\ PosIn(g, i) = PosIn(h, i) - 1
  BY PosNext
<1>4. ASSUME NEW i \in ALIndex
      PROVE  /\ InFlight(v, g, i) <=> InFlight(w, h, i)
             /\ InFlight(w, h, i) => /\ PosIn(g, i) + 1 = PosIn(h, i) /\ PosIn(g, i) \in 1..Len(v)
                                     /\ v[PosIn(g, i)] = w[PosIn(h, i)]
  <2>1. CASE i = h
    <3>1. ~InFlight(w, h, i)
      BY <2>1, <1>3 DEF InFlight
    <3>2. ~InFlight(v, g, i)
      BY <2>1, <1>1, <1>2, <1>3 DEF InFlight
    <3> QED  BY <3>1, <3>2
  <2>2. CASE i # h
    <3>1. PosIn(h, i) \in 1..n_active /\ PosIn(h, i) > 1 /\ PosIn(g, i) = PosIn(h, i) - 1
      BY <2>2, <1>3, PosRange
    <3>2. PosIn(g, i) + 1 = PosIn(h, i) /\ (PosIn(g, i) <= Len(v) <=> PosIn(h, i) <= Len(w))
      <4>1. PICK p, q, m, n : p = PosIn(h, i) /\ q = PosIn(g, i) /\ m = Len(w) /\ n = Len(v)
        OBVIOUS
      <4>2. p \in Int /\ q = p - 1 /\ m \in Int /\ n = m - 1
        BY <4>1, <3>1, <1>1, <1>2
      <4>3. q + 1 = p /\ (q <= n <=> p <= m)
        BY ONLY <4>2
      <4> QED  BY <4>1, <4>3
    <3>3. PosIn(g, i) <= Len(v) => PosIn(g, i) \in 1..Len(v)
      BY <3>1, <1>2
    <3>4. PosIn(g, i) <= Len(v) => v[PosIn(g, i)] = w[PosIn(h, i)]
      BY <3>2, <3>3, <1>1
    <3> QED  BY <3>2, <3>3, <3>4 DEF InFlight
  <2> QED  BY <2>1, <2>2
<1> QED  BY <1>3, <1>4

(* The places are right for the window without its head.                   *)
LEMMA CommitPlaces ==
  ASSUME NEW w, NEW h, NEW L, NEW Q, NEW S, Setting(w, h, L, Q, S),
         Housed(w, h, L, Q, S), w # <<>>, w[1].completed,
         NEW v, v = Left(w), NEW g, g = Next1(h, n_active)
  PROVE  Housed(v, g, L, Q, S)
<1>1. /\ IsWindow(w) /\ h \in ALIndex /\ LanesOK(L) /\ Q \in [Slot -> Entry]
      /\ S \in SUBSET ALIndex /\ Placed(w, h, L, Q, S) /\ Kept(w, h, L, Q, S)
  BY DEF Setting, Housed
<1>2. \A i \in ALIndex :
        /\ InFlight(v, g, i) <=> InFlight(w, h, i)
        /\ InFlight(w, h, i) => /\ PosIn(g, i) + 1 = PosIn(h, i) /\ PosIn(g, i) \in 1..Len(v)
                                /\ v[PosIn(g, i)] = w[PosIn(h, i)]
  BY <1>1, FlightCommit
<1>3. Placed(v, g, L, Q, S)
  <2>1. \A j \in ALIndex : InFlight(v, g, j) => InFlight(w, h, j)
    BY <1>2
  <2>2. \A a, b \in Int, j \in ALIndex :
          Holds(L, Q, S, a, b, j) <=> Holds(L, Q, S, a, b, j) /\ InFlight(v, g, j)
    BY <1>1, <1>2 DEF Placed
  <2> QED  BY <1>1, <2>1, <2>2, PlacedSub
<1>4. ~Open(w[1])
  BY DEF Open
<1>5. \A m \in Int : OpenIn(v, m) = OpenIn(w, m + 1)
  BY <1>1, <1>4, OpenInTail
<1>6. /\ \A l \in Lane : \A d \in Reg(l) : Cell(L, l, d).valid =>
           InFlight(w, h, Cell(L, l, d).index) /\ Cell(L, l, d).index \in ALIndex
      /\ \A s \in Slot : Q[s].valid => InFlight(w, h, Q[s].index) /\ Q[s].index \in ALIndex
      /\ \A i \in S : InFlight(w, h, i) /\ i \in ALIndex
  BY <1>1, PlacedFlight
<1>7. \A i \in ALIndex : InFlight(w, h, i) => OpenIn(v, PosIn(g, i)) = OpenIn(w, PosIn(h, i))
  <2> SUFFICES ASSUME NEW i \in ALIndex, InFlight(w, h, i)
               PROVE  OpenIn(v, PosIn(g, i)) = OpenIn(w, PosIn(h, i))
    OBVIOUS
  <2>1. PosIn(g, i) + 1 = PosIn(h, i) /\ PosIn(g, i) \in Int
    BY <1>2
  <2> QED  BY <2>1, <1>5
<1>8. ASSUME NEW s \in Slot, Q[s].valid
      PROVE  /\ Q[s].branch_mask = OpenIn(v, PosIn(g, Q[s].index))
             /\ Q[s].tags = v[PosIn(g, Q[s].index)].tags
  BY <1>1, <1>2, <1>6, <1>7, <1>8 DEF Kept
<1>9. ASSUME NEW l \in Lane, NEW d \in Int, d \in (-1)..ex_depth[l], Cell(L, l, d).valid
      PROVE  Cell(L, l, d).branch_mask = OpenIn(v, PosIn(g, Cell(L, l, d).index))
  <2>1. /\ Cell(L, l, d).branch_mask = OpenIn(w, PosIn(h, Cell(L, l, d).index))
        /\ InFlight(w, h, Cell(L, l, d).index) /\ Cell(L, l, d).index \in ALIndex
    BY <1>1, <1>6, <1>9 DEF Kept, Reg
  <2> QED  BY <2>1, <1>7
<1>10. \A i \in S : v[PosIn(g, i)].kind = "load"
  BY <1>1, <1>2, <1>6 DEF Kept
<1>11. Kept(v, g, L, Q, S)
  BY <1>8, <1>9, <1>10 DEF Kept
<1> QED  BY <1>3, <1>11 DEF Housed

(* Nothing is left anywhere after a squash.                                *)
LEMMA EmptyPlaces ==
  ASSUME NEW h, NEW L, L = [l \in Lane |-> EmptyLane(l)],
         NEW Q, \A s \in Slot : ~Q[s].valid, h \in ALIndex
  PROVE  LanesOK(L) /\ Housed(<<>>, h, L, Q, {})
<1>1. LanesOK(L) /\ \A l \in Lane : \A d \in Reg(l) : Cell(L, l, d) = NoPlace
  BY EmptyCells
<1>2. \A l \in Lane, d \in Int : d \in (-1)..ex_depth[l] => ~Cell(L, l, d).valid
  BY <1>1, RegFields DEF Reg
<1>3. \A a, b \in Int, i \in ALIndex : ~Holds(L, Q, {}, a, b, i)
  BY <1>2 DEF Holds, InCell, InEntry
<1>4. \A i \in ALIndex : ~InFlight(<<>>, h, i)
  <2> TAKE i \in ALIndex
  <2>1. PosIn(h, i) >= 1 /\ PosIn(h, i) \in Int /\ Len(<<>>) = 0
    BY PosRange, NoWindow
  <2>2. ~(PosIn(h, i) <= Len(<<>>))
    BY <2>1
  <2> QED  BY <2>2 DEF InFlight
<1>5. Placed(<<>>, h, L, Q, {})
  BY <1>3, <1>4 DEF Placed
<1>6. Kept(<<>>, h, L, Q, {})
  BY <1>2 DEF Kept
<1> QED  BY <1>1, <1>5, <1>6 DEF Housed

(* Masks and operands stay with the instructions that move.                *)
LEMMA KeptMove ==
  ASSUME NEW w, NEW h, NEW L, NEW Q, NEW S, Kept(w, h, L, Q, S),
         NEW M, NEW P, NEW T,
         \A s \in Slot : P[s].valid =>
           /\ Q[s].valid /\ P[s].index = Q[s].index /\ P[s].tags = Q[s].tags
           /\ P[s].branch_mask = Q[s].branch_mask,
         \A l \in Lane : \A d \in Reg(l) : Cell(M, l, d).valid =>
           Cell(M, l, d).branch_mask = OpenIn(w, PosIn(h, Cell(M, l, d).index)),
         \A i \in T : i \in S \/ w[PosIn(h, i)].kind = "load"
  PROVE  Kept(w, h, M, P, T)
<1>1. \A s \in Slot : P[s].valid =>
        /\ P[s].branch_mask = OpenIn(w, PosIn(h, P[s].index))
        /\ P[s].tags = w[PosIn(h, P[s].index)].tags
  BY DEF Kept
<1>2. \A l \in Lane, d \in Int : d \in (-1)..ex_depth[l] /\ Cell(M, l, d).valid =>
        Cell(M, l, d).branch_mask = OpenIn(w, PosIn(h, Cell(M, l, d).index))
  BY DEF Reg
<1>3. \A i \in T : w[PosIn(h, i)].kind = "load"
  BY DEF Kept
<1> QED  BY <1>1, <1>2, <1>3 DEF Kept

(* An instruction is issued.                                               *)
LEMMA IssuedPlaces ==
  ASSUME NEW w, NEW h, NEW L, NEW Q, NEW S, Setting(w, h, L, Q, S),
         Housed(w, h, L, Q, S), NEW s \in Slot, Q[s].valid,
         NEW n \in Lane, ~L[n].rr.valid,
         NEW p \in LaneReg, p.valid, p.index = Q[s].index, p.branch_mask = Q[s].branch_mask,
         NEW M, M = IssuedTo(L, n, p),
         NEW P, \A r \in Slot : /\ P[r].valid <=> Q[r].valid /\ r # s
                                /\ P[r].index = Q[r].index /\ P[r].tags = Q[r].tags
                                /\ P[r].branch_mask = Q[r].branch_mask
  PROVE  Housed(w, h, M, P, S)
<1>1. /\ h \in ALIndex /\ LanesOK(L) /\ Q \in [Slot -> Entry]
      /\ Placed(w, h, L, Q, S) /\ Kept(w, h, L, Q, S)
  BY DEF Setting, Housed
<1>2. PICK X, Y :
        /\ X = [a \in Int |-> [b \in Int |-> IF a = -1 /\ b = s THEN n ELSE a]]
        /\ Y = [a \in Int |-> [b \in Int |-> IF a = -1 /\ b = s THEN -1 ELSE b]]
  OBVIOUS
<1>3. /\ \A a, b \in Int : X[a][b] = IF a = -1 /\ b = s THEN n ELSE a
      /\ \A a, b \in Int : Y[a][b] = IF a = -1 /\ b = s THEN -1 ELSE b
  BY <1>2
<1>4. n \in Int /\ n # -1 /\ n # -2 /\ s \in Int /\ -1 \in Int /\ -1 \in Reg(n)
  BY LaneDepth, Constants
<1>5. /\ LanesOK(M)
      /\ \A l \in Lane : \A d \in Reg(l) :
           Cell(M, l, d) = IF l = n /\ d = -1 THEN p ELSE Cell(L, l, d)
  BY <1>1, IssuedCells
<1>6. ~Cell(L, n, -1).valid
  BY DEF Cell
<1>7. \A a, b \in Int, i \in ALIndex :
        InCell(M, a, b, i) <=> InCell(L, a, b, i) \/ (a = n /\ b = -1 /\ i = Q[s].index)
  BY <1>4, <1>5, <1>6 DEF InCell, Reg
<1>8. \A b \in Int, i \in ALIndex : InEntry(P, b, i) <=> InEntry(Q, b, i) /\ b # s
  BY DEF InEntry
<1>9. \A b \in Int, i \in ALIndex : ~InCell(L, -1, b, i) /\ ~InCell(L, -2, b, i)
  BY LaneDepth DEF InCell
<1>10. ASSUME NEW a \in Int, NEW b \in Int, NEW i \in ALIndex, Holds(L, Q, S, a, b, i)
       PROVE  Holds(M, P, S, X[a][b], Y[a][b], i)
  <2>1. CASE a = -1 /\ b = s
    <3>1. i = Q[s].index
      BY <2>1, <1>9, <1>10 DEF Holds, InEntry
    <3>2. X[a][b] = n /\ Y[a][b] = -1
      BY <2>1, <1>3
    <3>3. Holds(M, P, S, n, -1, i)
      BY <3>1, <1>4, <1>7 DEF Holds
    <3> QED  BY <3>2, <3>3
  <2>2. CASE ~(a = -1 /\ b = s)
    <3>1. X[a][b] = a /\ Y[a][b] = b
      BY <2>2, <1>3
    <3>2. Holds(M, P, S, a, b, i)
      BY <2>2, <1>7, <1>8, <1>10 DEF Holds
    <3> QED  BY <3>1, <3>2
  <2> QED  BY <2>1, <2>2
<1>11. ASSUME NEW c \in Int, NEW d \in Int, NEW i \in ALIndex, Holds(M, P, S, c, d, i)
       PROVE  \E a, b \in Int : Holds(L, Q, S, a, b, i) /\ X[a][b] = c /\ Y[a][b] = d
  <2>1. CASE c = n /\ d = -1 /\ i = Q[s].index
    <3>1. Holds(L, Q, S, -1, s, i)
      BY <2>1, <1>1, EntryToken
    <3>2. X[-1][s] = c /\ Y[-1][s] = d
      BY <2>1, <1>3, <1>4
    <3> QED  BY <3>1, <3>2, <1>4
  <2>2. CASE ~(c = n /\ d = -1 /\ i = Q[s].index)
    <3>1. Holds(L, Q, S, c, d, i) /\ ~(c = -1 /\ d = s)
      BY <2>2, <1>7, <1>8, <1>9, <1>11 DEF Holds
    <3>2. X[c][d] = c /\ Y[c][d] = d
      BY <3>1, <1>3
    <3> QED  BY <3>1, <3>2
  <2> QED  BY <2>1, <2>2
<1>12. Placed(w, h, M, P, S)
  <2>1. \A a, b \in Int : X[a][b] \in Int /\ Y[a][b] \in Int
    BY <1>3, <1>4
  <2>2. \A a, b \in Int, i \in ALIndex :
          Holds(L, Q, S, a, b, i) => Holds(M, P, S, X[a][b], Y[a][b], i)
    BY <1>10
  <2>3. \A c, d \in Int, i \in ALIndex : Holds(M, P, S, c, d, i) =>
          \E a, b \in Int : Holds(L, Q, S, a, b, i) /\ X[a][b] = c /\ Y[a][b] = d
    BY <1>11
  <2>4. Placed(w, h, L, Q, S)
    BY <1>1
  <2>5. Moves(X, Y, L, Q, S, M, P, S)
    BY <2>1, <2>2, <2>3 DEF Moves
  <2> QED  BY <2>4, <2>5, PlacedMove
<1>13. \A l \in Lane : \A d \in Reg(l) : Cell(M, l, d).valid =>
         Cell(M, l, d).branch_mask = OpenIn(w, PosIn(h, Cell(M, l, d).index))
  <2> SUFFICES ASSUME NEW l \in Lane, NEW d \in Reg(l), Cell(M, l, d).valid
               PROVE  Cell(M, l, d).branch_mask = OpenIn(w, PosIn(h, Cell(M, l, d).index))
    OBVIOUS
  <2>1. CASE l = n /\ d = -1
    <3>1. Cell(M, l, d) = p /\ Q[s].branch_mask = OpenIn(w, PosIn(h, Q[s].index))
      BY <2>1, <1>1, <1>5 DEF Kept
    <3> QED  BY <3>1
  <2>2. CASE ~(l = n /\ d = -1)
    <3>1. Cell(M, l, d) = Cell(L, l, d) /\ d \in Int
      BY <2>2, <1>5, LaneDepth
    <3> QED  BY <3>1, <1>1 DEF Kept, Reg
  <2> QED  BY <2>1, <2>2
<1>14. \A r \in Slot : P[r].valid =>
           /\ Q[r].valid /\ P[r].index = Q[r].index /\ P[r].tags = Q[r].tags
           /\ P[r].branch_mask = Q[r].branch_mask
  OBVIOUS
<1>15. Kept(w, h, M, P, S)
  <2>1. \A i \in S : i \in S \/ w[PosIn(h, i)].kind = "load"
    OBVIOUS
  <2> QED  BY ONLY <2>1, <1>1, <1>13, <1>14, KeptMove
<1> QED  BY <1>12, <1>15 DEF Housed

(* An instruction moves from Register Read to Execute.                     *)
LEMMA ReadPlaces ==
  ASSUME NEW w, NEW h, NEW L, NEW Q, NEW S, Setting(w, h, L, Q, S),
         Housed(w, h, L, Q, S), NEW n \in Lane, L[n].rr.valid, ~L[n].ex[0].valid,
         NEW M, M = ReadFrom(L, n, L[n].rr),
         NEW P, SameEntries(P, Q)
  PROVE  Housed(w, h, M, P, S)
<1>0. PICK p : p = L[n].rr
  OBVIOUS
<1>1. /\ h \in ALIndex /\ LanesOK(L) /\ Q \in [Slot -> Entry]
      /\ Placed(w, h, L, Q, S) /\ Kept(w, h, L, Q, S)
  BY DEF Setting, Housed
<1>2. PICK Y :
        Y = [a \in Int |-> [b \in Int |-> IF a = n /\ b = -1 THEN 0 ELSE b]]
  OBVIOUS
<1>3. PICK X : X = [a \in Int |-> [b \in Int |-> a]]
  OBVIOUS
<1>4. /\ \A a, b \in Int : X[a][b] = a
      /\ \A a, b \in Int : Y[a][b] = IF a = n /\ b = -1 THEN 0 ELSE b
  BY <1>2, <1>3
<1>5. /\ n \in Int /\ n # -1 /\ n # -2 /\ 0 \in Int /\ -1 \in Int
      /\ -1 \in Reg(n) /\ 0 \in Reg(n) /\ ex_depth[n] # 0
  BY LaneDepth
<1>6. p \in LaneReg
  BY <1>0, <1>1, CellType
<1>7. /\ LanesOK(M)
      /\ \A l \in Lane : \A d \in Reg(l) :
           Cell(M, l, d) = IF l = n /\ d = -1 THEN NoPlace
                           ELSE IF l = n /\ d = 0 THEN p ELSE Cell(L, l, d)
  BY <1>0, <1>1, <1>6, ReadCells
<1>8. ~Cell(L, n, 0).valid /\ Cell(L, n, -1) = p /\ p.valid
  BY <1>0, <1>5 DEF Cell
<1>9. \A a, b \in Int, i \in ALIndex :
        InCell(M, a, b, i) <=> \/ InCell(L, a, b, i) /\ ~(a = n /\ b = -1)
                               \/ a = n /\ b = 0 /\ i = p.index
  BY <1>5, <1>7, <1>8, RegFields DEF InCell, Reg
<1>10. \A b \in Int, i \in ALIndex : InEntry(P, b, i) <=> InEntry(Q, b, i)
  BY DEF InEntry, SameEntries
<1>11. \A i \in ALIndex : Holds(L, Q, S, n, -1, i) <=> i = p.index
  BY <1>5, <1>8 DEF Holds, InCell, Reg
<1>12. ASSUME NEW a \in Int, NEW b \in Int, NEW i \in ALIndex, Holds(L, Q, S, a, b, i)
       PROVE  Holds(M, P, S, X[a][b], Y[a][b], i)
  <2>1. CASE a = n /\ b = -1
    <3>1. i = p.index
      BY <2>1, <1>11, <1>12
    <3>2. X[a][b] = n /\ Y[a][b] = 0
      BY <2>1, <1>4
    <3>3. Holds(M, P, S, n, 0, i)
      BY <3>1, <1>5, <1>9 DEF Holds
    <3> QED  BY <3>2, <3>3
  <2>2. CASE ~(a = n /\ b = -1)
    <3>1. X[a][b] = a /\ Y[a][b] = b
      BY <2>2, <1>4
    <3>2. Holds(M, P, S, a, b, i)
      BY <2>2, <1>9, <1>10, <1>12 DEF Holds
    <3> QED  BY <3>1, <3>2
  <2> QED  BY <2>1, <2>2
<1>13. ASSUME NEW c \in Int, NEW d \in Int, NEW i \in ALIndex, Holds(M, P, S, c, d, i)
       PROVE  \E a, b \in Int : Holds(L, Q, S, a, b, i) /\ X[a][b] = c /\ Y[a][b] = d
  <2>1. CASE c = n /\ d = 0 /\ i = p.index
    <3>1. Holds(L, Q, S, n, -1, i)
      BY <2>1, <1>11
    <3>2. X[n][-1] = c /\ Y[n][-1] = d
      BY <2>1, <1>4, <1>5
    <3> QED  BY <3>1, <3>2, <1>5
  <2>2. CASE ~(c = n /\ d = 0 /\ i = p.index)
    <3>1. Holds(L, Q, S, c, d, i) /\ ~(c = n /\ d = -1)
      BY <2>2, <1>5, <1>9, <1>10, <1>13 DEF Holds
    <3>2. X[c][d] = c /\ Y[c][d] = d
      BY <3>1, <1>4
    <3> QED  BY <3>1, <3>2
  <2> QED  BY <2>1, <2>2
<1>14. Placed(w, h, M, P, S)
  <2>1. \A a, b \in Int : X[a][b] \in Int /\ Y[a][b] \in Int
    BY <1>4, <1>5
  <2>2. \A a, b \in Int, i \in ALIndex :
          Holds(L, Q, S, a, b, i) => Holds(M, P, S, X[a][b], Y[a][b], i)
    BY <1>12
  <2>3. \A c, d \in Int, i \in ALIndex : Holds(M, P, S, c, d, i) =>
          \E a, b \in Int : Holds(L, Q, S, a, b, i) /\ X[a][b] = c /\ Y[a][b] = d
    BY <1>13
  <2>4. Placed(w, h, L, Q, S)
    BY <1>1
  <2>5. Moves(X, Y, L, Q, S, M, P, S)
    BY <2>1, <2>2, <2>3 DEF Moves
  <2> QED  BY <2>4, <2>5, PlacedMove
<1>15. \A l \in Lane : \A d \in Reg(l) : Cell(M, l, d).valid =>
         Cell(M, l, d).branch_mask = OpenIn(w, PosIn(h, Cell(M, l, d).index))
  <2> SUFFICES ASSUME NEW l \in Lane, NEW d \in Reg(l), Cell(M, l, d).valid
               PROVE  Cell(M, l, d).branch_mask = OpenIn(w, PosIn(h, Cell(M, l, d).index))
    OBVIOUS
  <2>1. CASE l = n /\ d = 0
    <3>1. Cell(M, l, d) = Cell(L, n, -1)
      BY <2>1, <1>7, <1>8
    <3>2. Cell(L, n, -1).branch_mask = OpenIn(w, PosIn(h, Cell(L, n, -1).index))
      BY <1>1, <1>5, <1>8 DEF Kept, Reg
    <3> QED  BY <3>1, <3>2
  <2>2. CASE ~(l = n /\ d = 0)
    <3>1. Cell(M, l, d) = Cell(L, l, d) /\ d \in Int
      BY <2>2, <1>7, LaneDepth, RegFields
    <3> QED  BY <3>1, <1>1 DEF Kept, Reg
  <2> QED  BY <2>1, <2>2
<1>16. \A r \in Slot : P[r].valid =>
           /\ Q[r].valid /\ P[r].index = Q[r].index /\ P[r].tags = Q[r].tags
           /\ P[r].branch_mask = Q[r].branch_mask
  BY DEF SameEntries
<1>17. Kept(w, h, M, P, S)
  <2>1. \A i \in S : i \in S \/ w[PosIn(h, i)].kind = "load"
    OBVIOUS
  <2> QED  BY ONLY <2>1, <1>1, <1>15, <1>16, KeptMove
<1> QED  BY <1>14, <1>17 DEF Housed

(* What is last in the execute stages of lane n either goes to the empty   *)
(* Writeback register, which becomes p, or is a load that joins the        *)
(* stalled ones, which become T.                                           *)
LastGoes(w, h, L, S, n, last, goes, p, T) ==
  /\ ~L[n].wb.valid /\ last = L[n].ex[ex_depth[n] - 1]
  /\ goes \in BOOLEAN /\ (goes => last.valid)
  /\ last.valid /\ ~goes => w[PosIn(h, last.index)].kind = "load"
  /\ p = (IF goes THEN last ELSE L[n].wb)
  /\ T = (IF last.valid /\ ~goes THEN S \cup {last.index} ELSE S)

(* The instructions of a lane advance; one leaves the execute stages, to   *)
(* Writeback or, when it is a load that stalls, to the LSU.                *)
LEMMA ExecutedPlaces ==
  ASSUME NEW w, NEW h, NEW L, NEW Q, NEW S, Setting(w, h, L, Q, S),
         Housed(w, h, L, Q, S), NEW n \in Lane,
         NEW last, NEW goes, NEW p, NEW T, LastGoes(w, h, L, S, n, last, goes, p, T),
         NEW M, M = Advanced(L, n, p),
         NEW P, SameEntries(P, Q)
  PROVE  Housed(w, h, M, P, T)
<1>0. PICK D : D = ex_depth[n]
  OBVIOUS
<1>a. /\ ~L[n].wb.valid /\ last = L[n].ex[D - 1] /\ goes \in BOOLEAN /\ (goes => last.valid)
      /\ last.valid /\ ~goes => w[PosIn(h, last.index)].kind = "load"
  BY <1>0 DEF LastGoes
<1>b. p = IF goes THEN last ELSE L[n].wb
  BY DEF LastGoes
<1>c. \A i : i \in T <=> i \in S \/ (last.valid /\ ~goes /\ i = last.index)
  BY DEF LastGoes
<1>1. /\ h \in ALIndex /\ LanesOK(L) /\ Q \in [Slot -> Entry]
      /\ Placed(w, h, L, Q, S) /\ Kept(w, h, L, Q, S)
  BY DEF Setting, Housed
<1>2. PICK X, Y :
        /\ X = [a \in Int |-> [b \in Int |-> IF a = n /\ b = D - 1 /\ ~goes THEN -2 ELSE a]]
        /\ Y = [a \in Int |-> [b \in Int |->
                  IF a = n /\ b = D - 1 /\ ~goes THEN 0
                  ELSE IF a = n /\ 0 <= b /\ b < D THEN b + 1 ELSE b]]
  OBVIOUS
<1>3. /\ \A a, b \in Int : X[a][b] = IF a = n /\ b = D - 1 /\ ~goes THEN -2 ELSE a
      /\ \A a, b \in Int : Y[a][b] =
           IF a = n /\ b = D - 1 /\ ~goes THEN 0
           ELSE IF a = n /\ 0 <= b /\ b < D THEN b + 1 ELSE b
  BY <1>2
<1>4. /\ D \in Int /\ D >= 1 /\ n \in Int /\ n # -1 /\ n # -2 /\ D \in Reg(n)
      /\ D - 1 \in Reg(n) /\ D - 1 # D /\ D - 1 # -1
      /\ \A d \in Int : d \in Reg(n) <=> (-1 <= d /\ d <= D)
  BY <1>0, LaneDepth DEF Reg
<1>5. Cell(L, n, D - 1) = last /\ ~Cell(L, n, D).valid /\ D # -1
  BY <1>0, <1>4, <1>a DEF Cell
<1>6. p \in LaneReg
  <2>1. last \in LaneReg
    BY <1>1, <1>4, <1>5, CellType
  <2>2. L[n].wb \in LaneReg
    BY <1>1, CellType
  <2> QED  BY <2>1, <2>2, <1>b
<1>7. p.valid <=> goes
  BY <1>a, <1>b
<1>8. /\ LanesOK(M)
      /\ \A l \in Lane : \A d \in Reg(l) :
           Cell(M, l, d) = IF l # n \/ d = -1 THEN Cell(L, l, d)
                           ELSE IF d = D THEN p
                           ELSE IF d = 0 THEN NoPlace ELSE Cell(L, l, d - 1)
  <2>1. PICK d0 : d0 = ex_depth[n] - 1
    OBVIOUS
  <2>2. /\ LanesOK(M)
        /\ \A l \in Lane : \A d \in Reg(l) :
             Cell(M, l, d) = IF l # n \/ d = -1 THEN Cell(L, l, d)
                             ELSE IF d = ex_depth[n] THEN p
                             ELSE IF d = 0 THEN NoPlace ELSE Cell(L, l, d - 1)
    BY <2>1, <1>1, <1>6, ExecutedCells
  <2> QED  BY <2>2, <1>0
<1>9. \A l \in Lane : \A d \in Reg(l) : l # n \/ d = -1 => Cell(M, l, d) = Cell(L, l, d)
  BY <1>8
<1>10. \A d \in Int : 0 <= d /\ d < D - 1 => Cell(M, n, d + 1) = Cell(L, n, d)
  <2> SUFFICES ASSUME NEW d \in Int, 0 <= d, d < D - 1
               PROVE  Cell(M, n, d + 1) = Cell(L, n, d)
    OBVIOUS
  <2>1. d + 1 \in Reg(n) /\ d + 1 # -1 /\ d + 1 # D /\ d + 1 # 0 /\ (d + 1) - 1 = d
    BY <1>4
  <2> QED  BY <2>1, <1>8
<1>11. Cell(M, n, D) = p /\ ~Cell(M, n, 0).valid
  BY <1>4, <1>5, <1>8, RegFields
<1>12. \A b \in Int, i \in ALIndex : InEntry(P, b, i) <=> InEntry(Q, b, i)
  BY DEF InEntry, SameEntries
<1>13. \A b \in Int, i \in ALIndex : ~InCell(L, -1, b, i) /\ ~InCell(L, -2, b, i)
  BY LaneDepth DEF InCell
<1>14. \A i \in ALIndex : InCell(L, n, D - 1, i) <=> last.valid /\ i = last.index
  BY <1>4, <1>5 DEF InCell, Reg
<1>15. ASSUME NEW a \in Int, NEW b \in Int, NEW i \in ALIndex, Holds(L, Q, S, a, b, i)
       PROVE  Holds(M, P, T, X[a][b], Y[a][b], i)
  <2>1. CASE a = n /\ b = D - 1 /\ ~goes
    <3>1. last.valid /\ i = last.index
      BY <2>1, <1>4, <1>14, <1>15 DEF Holds
    <3>2. X[a][b] = -2 /\ Y[a][b] = 0
      BY <2>1, <1>3
    <3>3. i \in T
      BY <3>1, <2>1, <1>c
    <3> QED  BY <3>2, <3>3 DEF Holds
  <2>2. CASE a = n /\ b = D - 1 /\ goes
    <3>1. last.valid /\ i = last.index
      BY <2>2, <1>4, <1>14, <1>15 DEF Holds
    <3>2. X[a][b] = n /\ Y[a][b] = D
      BY <2>2, <1>3, <1>4
    <3>3. InCell(M, n, D, i)
      BY <3>1, <2>2, <1>4, <1>7, <1>11, <1>a, <1>b DEF InCell, Reg
    <3> QED  BY <3>2, <3>3 DEF Holds
  <2>3. CASE a = n /\ 0 <= b /\ b < D - 1
    <3>1. X[a][b] = n /\ Y[a][b] = b + 1
      BY <2>3, <1>3, <1>4
    <3>2. InCell(L, n, b, i)
      BY <2>3, <1>4, <1>15 DEF Holds
    <3>3. Cell(M, n, b + 1) = Cell(L, n, b) /\ b + 1 \in Reg(n)
      BY <2>3, <1>4, <1>10
    <3>4. InCell(M, n, b + 1, i)
      BY <3>2, <3>3 DEF InCell, Reg
    <3> QED  BY <3>1, <3>4 DEF Holds
  <2>4. CASE ~(a = n /\ 0 <= b /\ b < D)
    <3>1. X[a][b] = a /\ Y[a][b] = b
      BY <2>4, <1>3, <1>4
    <3>2. ASSUME InCell(L, a, b, i) PROVE InCell(M, a, b, i)
      <4>1. a \in Lane /\ b \in Reg(a) /\ Cell(L, a, b).valid
        BY <3>2 DEF InCell, Reg
      <4>2. a # n \/ b = -1
        BY <4>1, <2>4, <1>4, <1>5
      <4> QED  BY <4>1, <4>2, <3>2, <1>9 DEF InCell
    <3>3. i \in S => i \in T
      BY <1>c
    <3> QED  BY <3>1, <3>2, <3>3, <1>12, <1>15 DEF Holds
  <2> QED  BY <2>1, <2>2, <2>3, <2>4, <1>4
<1>16. ASSUME NEW c \in Int, NEW d \in Int, NEW i \in ALIndex, Holds(M, P, T, c, d, i)
       PROVE  \E a, b \in Int : Holds(L, Q, S, a, b, i) /\ X[a][b] = c /\ Y[a][b] = d
  <2>1. CASE InCell(M, c, d, i) /\ c = n /\ d = D
    <3>1. goes /\ i = last.index /\ last.valid
      BY <2>1, <1>a, <1>b, <1>7, <1>11 DEF InCell
    <3>2. Holds(L, Q, S, n, D - 1, i)
      BY <3>1, <1>14 DEF Holds
    <3>3. X[n][D - 1] = c /\ Y[n][D - 1] = d /\ D - 1 \in Int
      BY <2>1, <3>1, <1>3, <1>4
    <3> QED  BY <3>2, <3>3, <1>4
  <2>2. CASE InCell(M, c, d, i) /\ c = n /\ 0 < d /\ d < D
    <3>1. d - 1 \in Int /\ 0 <= d - 1 /\ d - 1 < D - 1 /\ (d - 1) + 1 = d /\ d - 1 \in Reg(n)
      BY <2>2, <1>4
    <3>2. Cell(M, n, d) = Cell(L, n, d - 1)
      BY <3>1, <1>10
    <3>3. InCell(L, n, d - 1, i)
      BY <2>2, <3>1, <3>2 DEF InCell, Reg
    <3>4. Holds(L, Q, S, n, d - 1, i)
      BY <3>3 DEF Holds
    <3>5. X[n][d - 1] = c /\ Y[n][d - 1] = d
      BY <2>2, <3>1, <1>3, <1>4
    <3> QED  BY <3>1, <3>4, <3>5, <1>4
  <2>3. CASE InCell(M, c, d, i) /\ (c # n \/ d = -1)
    <3>1. c \in Lane /\ d \in Reg(c)
      BY <2>3 DEF InCell, Reg
    <3>2. InCell(L, c, d, i)
      BY <2>3, <3>1, <1>9 DEF InCell
    <3>3. X[c][d] = c /\ Y[c][d] = d
      BY <2>3, <1>3, <1>4
    <3> QED  BY <3>2, <3>3 DEF Holds
  <2>4. CASE c = -1 /\ InEntry(P, d, i)
    <3>1. Holds(L, Q, S, c, d, i)
      BY <2>4, <1>12 DEF Holds
    <3>2. X[c][d] = c /\ Y[c][d] = d
      BY <2>4, <1>3, <1>4
    <3> QED  BY <3>1, <3>2
  <2>5. CASE c = -2 /\ d = 0 /\ i \in S
    <3>1. Holds(L, Q, S, c, d, i)
      BY <2>5 DEF Holds
    <3>2. X[c][d] = c /\ Y[c][d] = d
      BY <2>5, <1>3, <1>4
    <3> QED  BY <3>1, <3>2
  <2>6. CASE c = -2 /\ d = 0 /\ i \in T /\ i \notin S
    <3>1. last.valid /\ ~goes /\ i = last.index
      BY <2>6, <1>c
    <3>2. Holds(L, Q, S, n, D - 1, i)
      BY <3>1, <1>14 DEF Holds
    <3>3. X[n][D - 1] = c /\ Y[n][D - 1] = d /\ D - 1 \in Int
      BY <2>6, <3>1, <1>3, <1>4
    <3> QED  BY <3>2, <3>3, <1>4
  <2>7. ASSUME InCell(M, c, d, i), c = n
        PROVE  d = D \/ (0 < d /\ d < D) \/ d = -1
    <3>1. d \in Reg(n) /\ d # 0
      BY <2>7, <1>11 DEF InCell, Reg
    <3> QED  BY <3>1, <1>4
  <2> QED  BY <2>1, <2>2, <2>3, <2>4, <2>5, <2>6, <2>7, <1>16 DEF Holds
<1>17. Placed(w, h, M, P, T)
  <2>1. \A a, b \in Int : X[a][b] \in Int /\ Y[a][b] \in Int
    BY <1>3, <1>4
  <2>2. \A a, b \in Int, i \in ALIndex :
          Holds(L, Q, S, a, b, i) => Holds(M, P, T, X[a][b], Y[a][b], i)
    BY <1>15
  <2>3. \A c, d \in Int, i \in ALIndex : Holds(M, P, T, c, d, i) =>
          \E a, b \in Int : Holds(L, Q, S, a, b, i) /\ X[a][b] = c /\ Y[a][b] = d
    BY <1>16
  <2>4. Placed(w, h, L, Q, S)
    BY <1>1
  <2>5. Moves(X, Y, L, Q, S, M, P, T)
    BY <2>1, <2>2, <2>3 DEF Moves
  <2> QED  BY <2>4, <2>5, PlacedMove
<1>18. \A l \in Lane : \A d \in Reg(l) : Cell(L, l, d).valid =>
         Cell(L, l, d).branch_mask = OpenIn(w, PosIn(h, Cell(L, l, d).index))
  BY <1>1, LaneDepth DEF Kept, Reg
<1>19. \A l \in Lane : \A d \in Reg(l) : Cell(M, l, d).valid =>
         Cell(M, l, d).branch_mask = OpenIn(w, PosIn(h, Cell(M, l, d).index))
  <2> SUFFICES ASSUME NEW l \in Lane, NEW d \in Reg(l), Cell(M, l, d).valid
               PROVE  \E f \in Reg(l) : Cell(M, l, d) = Cell(L, l, f)
    BY <1>18
  <2>1. CASE l # n \/ d = -1
    BY <2>1, <1>9
  <2>2. CASE l = n /\ d = D
    BY <2>2, <1>4, <1>5, <1>7, <1>11, <1>a, <1>b
  <2>3. CASE l = n /\ d # D /\ d # -1
    <3>1. d \in Int /\ d # 0
      BY <2>3, <1>11, LaneDepth
    <3>2. d - 1 \in Int /\ 0 <= d - 1 /\ d - 1 < D - 1 /\ (d - 1) + 1 = d /\ d - 1 \in Reg(n)
      BY <2>3, <3>1, <1>4
    <3> QED  BY <2>3, <3>2, <1>10
  <2> QED  BY <2>1, <2>2, <2>3
<1>20. \A r \in Slot : P[r].valid =>
           /\ Q[r].valid /\ P[r].index = Q[r].index /\ P[r].tags = Q[r].tags
           /\ P[r].branch_mask = Q[r].branch_mask
  BY DEF SameEntries
<1>21. Kept(w, h, M, P, T)
  <2>1. \A i \in T : i \in S \/ w[PosIn(h, i)].kind = "load"
    BY <1>a, <1>c
  <2> QED  BY ONLY <2>1, <1>1, <1>19, <1>20, KeptMove
<1> QED  BY <1>17, <1>21 DEF Housed

(* An instruction enters behind the window.                                *)
LEMMA FlightEnter ==
  ASSUME NEW w, IsWindow(w), Len(w) < n_active, NEW h \in ALIndex, NEW x \in Inst,
         NEW v, v = Entered(w, x), NEW k, k = AtIn(h, Len(w) + 1)
  PROVE  /\ k \in ALIndex /\ PosIn(h, k) = Len(w) + 1 /\ ~InFlight(w, h, k)
         /\ \A i \in ALIndex :
              /\ InFlight(v, h, i) <=> InFlight(w, h, i) \/ (i = k /\ ~x.completed)
              /\ InFlight(w, h, i) => /\ PosIn(h, i) \in 1..Len(w)
                                      /\ v[PosIn(h, i)] = w[PosIn(h, i)]
<1>1. /\ IsWindow(v) /\ Len(v) = Len(w) + 1 /\ v[Len(w) + 1] = x
      /\ \A j \in 1..Len(w) : v[j] = w[j]
  BY AppendWindow
<1>2. Len(w) \in Nat /\ n_active \in Nat
  BY WindowSeq, Constants
<1>3. Len(w) + 1 \in 1..n_active
  BY <1>2
<1>4. k \in ALIndex /\ PosIn(h, k) = Len(w) + 1
  BY <1>3, AtRange
<1>5. ~InFlight(w, h, k)
  BY <1>2, <1>4 DEF InFlight
<1>6. ASSUME NEW i \in ALIndex
      PROVE  /\ InFlight(v, h, i) <=> InFlight(w, h, i) \/ (i = k /\ ~x.completed)
             /\ InFlight(w, h, i) => /\ PosIn(h, i) \in 1..Len(w)
                                     /\ v[PosIn(h, i)] = w[PosIn(h, i)]
  <2>1. PosIn(h, i) \in 1..n_active /\ \A j \in ALIndex : PosIn(h, j) = PosIn(h, i) => j = i
    BY PosRange
  <2>2. PosIn(h, i) <= Len(w) => PosIn(h, i) \in 1..Len(w)
    BY <2>1, <1>2
  <2>3. CASE i = k
    <3>1. PosIn(h, i) <= Len(v) /\ v[PosIn(h, i)] = x
      BY <2>3, <1>1, <1>2, <1>4
    <3> QED  BY <3>1, <2>3, <1>5 DEF InFlight
  <2>4. CASE i # k
    <3>1. PosIn(h, i) # Len(w) + 1
      BY <2>1, <2>4, <1>4
    <3>2. PosIn(h, i) <= Len(v) <=> PosIn(h, i) <= Len(w)
      BY <3>1, <2>1, <1>1, <1>2
    <3>3. PosIn(h, i) <= Len(w) => v[PosIn(h, i)] = w[PosIn(h, i)]
      BY <2>2, <1>1
    <3> QED  BY <3>2, <3>3, <2>2, <2>4 DEF InFlight
  <2> QED  BY <2>3, <2>4
<1> QED  BY <1>4, <1>5, <1>6

(* Masks and operands stay with the instructions that were there.          *)
LEMMA KeptEnter ==
  ASSUME NEW w, NEW h, NEW L, NEW Q, NEW S, Setting(w, h, L, Q, S),
         Housed(w, h, L, Q, S), Len(w) < n_active, NEW x \in Inst, NEW v, v = Entered(w, x)
  PROVE  Kept(v, h, L, Q, S)
<1>1. /\ IsWindow(w) /\ h \in ALIndex /\ LanesOK(L) /\ Q \in [Slot -> Entry]
      /\ S \in SUBSET ALIndex /\ Placed(w, h, L, Q, S) /\ Kept(w, h, L, Q, S)
  BY DEF Setting, Housed
<1>2. \A i \in ALIndex : InFlight(w, h, i) =>
        PosIn(h, i) \in 1..Len(w) /\ v[PosIn(h, i)] = w[PosIn(h, i)]
  <2>1. PICK k : k = AtIn(h, Len(w) + 1)
    OBVIOUS
  <2> QED  BY <2>1, <1>1, FlightEnter
<1>3. \A i \in ALIndex : InFlight(w, h, i) => OpenIn(v, PosIn(h, i)) = OpenIn(w, PosIn(h, i))
  <2> SUFFICES ASSUME NEW i \in ALIndex, InFlight(w, h, i)
               PROVE  OpenIn(v, PosIn(h, i)) = OpenIn(w, PosIn(h, i))
    OBVIOUS
  <2>1. PosIn(h, i) \in 1..Len(w) /\ Len(w) \in Nat
    BY <1>1, <1>2, WindowSeq
  <2>2. PosIn(h, i) \in Int /\ PosIn(h, i) <= Len(w) + 1
    BY <2>1
  <2> QED  BY <2>2, <1>1, OpenInAppend
<1>6. /\ \A l \in Lane : \A d \in Reg(l) : Cell(L, l, d).valid =>
           InFlight(w, h, Cell(L, l, d).index) /\ Cell(L, l, d).index \in ALIndex
      /\ \A s \in Slot : Q[s].valid => InFlight(w, h, Q[s].index) /\ Q[s].index \in ALIndex
      /\ \A i \in S : InFlight(w, h, i) /\ i \in ALIndex
  BY <1>1, PlacedFlight
<1>8. ASSUME NEW s \in Slot, Q[s].valid
      PROVE  /\ Q[s].branch_mask = OpenIn(v, PosIn(h, Q[s].index))
             /\ Q[s].tags = v[PosIn(h, Q[s].index)].tags
  BY <1>1, <1>2, <1>3, <1>6, <1>8 DEF Kept
<1>9. ASSUME NEW l \in Lane, NEW d \in Int, d \in (-1)..ex_depth[l], Cell(L, l, d).valid
      PROVE  Cell(L, l, d).branch_mask = OpenIn(v, PosIn(h, Cell(L, l, d).index))
  <2>1. /\ Cell(L, l, d).branch_mask = OpenIn(w, PosIn(h, Cell(L, l, d).index))
        /\ InFlight(w, h, Cell(L, l, d).index) /\ Cell(L, l, d).index \in ALIndex
    BY <1>1, <1>6, <1>9 DEF Kept, Reg
  <2> QED  BY <2>1, <1>3
<1>10. \A i \in S : v[PosIn(h, i)].kind = "load"
  BY <1>1, <1>2, <1>6 DEF Kept
<1> QED  BY <1>8, <1>9, <1>10 DEF Kept

(* One that needs no execution is in no place.                             *)
LEMMA NopPlaces ==
  ASSUME NEW w, NEW h, NEW L, NEW Q, NEW S, Setting(w, h, L, Q, S),
         Housed(w, h, L, Q, S), Len(w) < n_active, NEW x \in Inst, x.completed,
         NEW v, v = Entered(w, x)
  PROVE  Housed(v, h, L, Q, S)
<1>1. /\ IsWindow(w) /\ h \in ALIndex /\ LanesOK(L) /\ Q \in [Slot -> Entry]
      /\ S \in SUBSET ALIndex /\ Placed(w, h, L, Q, S) /\ Kept(w, h, L, Q, S)
  BY DEF Setting, Housed
<1>2. \A i \in ALIndex : InFlight(v, h, i) <=> InFlight(w, h, i)
  <2>1. PICK k : k = AtIn(h, Len(w) + 1)
    OBVIOUS
  <2> QED  BY <2>1, <1>1, FlightEnter
<1>3. Placed(v, h, L, Q, S)
  <2>1. \A j \in ALIndex : InFlight(v, h, j) => InFlight(w, h, j)
    BY <1>2
  <2>2. \A a, b \in Int, j \in ALIndex :
          Holds(L, Q, S, a, b, j) <=> Holds(L, Q, S, a, b, j) /\ InFlight(v, h, j)
    BY <1>1, <1>2 DEF Placed
  <2> QED  BY <1>1, <2>1, <2>2, PlacedSub
<1> QED  BY <1>3, KeptEnter DEF Housed

(* Every other one is in the entry that dispatch() fills.                  *)
LEMMA EnteredPlaces ==
  ASSUME NEW w, NEW h, NEW L, NEW Q, NEW S, Setting(w, h, L, Q, S),
         Housed(w, h, L, Q, S), Len(w) < n_active, NEW x \in Inst, ~x.completed,
         NEW v, v = Entered(w, x),
         NEW f \in Slot, ~Q[f].valid, NEW P \in [Slot -> Entry],
         P[f].valid, P[f].index = AtIn(h, Len(w) + 1), P[f].tags = x.tags,
         P[f].branch_mask = OpenIn(w, Len(w) + 1),
         \A s \in Slot \ {f} : /\ P[s].valid = Q[s].valid /\ P[s].index = Q[s].index
                               /\ P[s].tags = Q[s].tags
                               /\ P[s].branch_mask = Q[s].branch_mask
  PROVE  Housed(v, h, L, P, S)
<1>1. /\ IsWindow(w) /\ h \in ALIndex /\ LanesOK(L) /\ Q \in [Slot -> Entry]
      /\ S \in SUBSET ALIndex /\ Placed(w, h, L, Q, S)
  BY DEF Setting, Housed
<1>2. PICK k : k = AtIn(h, Len(w) + 1)
  OBVIOUS
<1>3. /\ k \in ALIndex /\ PosIn(h, k) = Len(w) + 1 /\ ~InFlight(w, h, k)
      /\ \A i \in ALIndex : InFlight(v, h, i) <=> InFlight(w, h, i) \/ i = k
  BY <1>1, <1>2, FlightEnter
<1>4. Placed(v, h, L, P, S)
  <2>1. f \in Int
    BY Constants
  <2>2. \A s \in Slot, i \in ALIndex :
          InEntry(P, s, i) <=> InEntry(Q, s, i) \/ (s = f /\ i = k)
    BY <1>2 DEF InEntry
  <2>3. Puts(L, Q, S, P, k, f)
    BY <2>2 DEF Puts, Holds, InEntry
  <2> QED  BY <1>1, <1>3, <2>1, <2>3, PlacedAdd
<1>5. Kept(v, h, L, Q, S)
  BY KeptEnter
<1>6. ASSUME NEW s \in Slot, P[s].valid
      PROVE  /\ P[s].branch_mask = OpenIn(v, PosIn(h, P[s].index))
             /\ P[s].tags = v[PosIn(h, P[s].index)].tags
  <2>1. CASE s = f
    <3>1. v[Len(w) + 1] = x
      BY <1>1, AppendWindow
    <3>2. Len(w) + 1 \in Int /\ Len(w) + 1 <= Len(w) + 1
      BY <1>1, WindowSeq
    <3>3. OpenIn(v, Len(w) + 1) = OpenIn(w, Len(w) + 1)
      BY <1>1, <3>2, OpenInAppend
    <3> QED  BY <2>1, <1>2, <1>3, <3>1, <3>3
  <2>2. CASE s # f
    BY <2>2, <1>5, <1>6 DEF Kept
  <2> QED  BY <2>1, <2>2
<1>7. Kept(v, h, L, P, S)
  BY <1>5, <1>6 DEF Kept
<1> QED  BY <1>4, <1>7 DEF Housed

-----------------------------------------------------------------------------
(* The engine as a whole: the window, its head, the lanes, the queue and   *)
(* the stalled loads fit together.                                         *)
Fits(w, h, L, iq, S) ==
  /\ Setting(w, h, L, iq.q, S) /\ QueueOK(iq, Ages(h, iq.q))
  /\ Housed(w, h, L, iq.q, S) /\ WindowOK(w)

(* Ages are integers.                                                      *)
LEMMA AgesType ==
  ASSUME NEW h \in ALIndex, NEW Q \in [Slot -> Entry]
  PROVE  \A i \in Slot : Ages(h, Q)[i] = PosIn(h, Q[i].index) /\ Ages(h, Q)[i] \in Int
<1> SUFFICES ASSUME NEW i \in Slot PROVE PosIn(h, Q[i].index) \in Int
  BY DEF Ages
<1>1. Q[i].index \in ALIndex
  BY EntryFields
<1>2. n_active \in Nat
  BY Constants
<1> QED  BY <1>1, <1>2, PosRange

(* The entries of the queue have ages of their own.                        *)
LEMMA AgesDistinct ==
  ASSUME NEW w, NEW h, NEW L, NEW Q, NEW S, Setting(w, h, L, Q, S),
         Placed(w, h, L, Q, S)
  PROVE  Distinct(Occupied(Q), Ages(h, Q))
<1>1. h \in ALIndex /\ Q \in [Slot -> Entry]
  BY DEF Setting
<1>2. \A i \in Slot : Ages(h, Q)[i] = PosIn(h, Q[i].index) /\ Ages(h, Q)[i] \in Int
  BY <1>1, AgesType
<1>3. ASSUME NEW i \in Occupied(Q), NEW j \in Occupied(Q), Ages(h, Q)[i] = Ages(h, Q)[j]
      PROVE  i = j
  <2>1. i \in Slot /\ j \in Slot /\ Q[i].valid /\ Q[j].valid
    BY DEF Occupied
  <2>2. Q[i].index \in ALIndex /\ Q[j].index \in ALIndex
    BY <1>1, <2>1, EntryFields
  <2>3. PosIn(h, Q[i].index) = PosIn(h, Q[j].index)
    BY <1>2, <1>3, <2>1
  <2>4. Q[i].index = Q[j].index
    BY <1>1, <2>2, <2>3, PosRange
  <2>5. PICK c \in Int : c = -1
    OBVIOUS
  <2>6. i \in Int /\ j \in Int /\ c \in Int
    BY <2>1, <2>5, Constants
  <2>7. Holds(L, Q, S, c, i, Q[i].index) /\ Holds(L, Q, S, c, j, Q[i].index)
    BY <2>1, <2>4, <2>5 DEF Holds, InEntry
  <2> QED  BY <2>2, <2>6, <2>7 DEF Placed
<1> QED  BY <1>2, <1>3 DEF Distinct, Occupied

(* Operations that leave the lists and the instructions of the queue.      *)
SameQueue(iq, r) == r \in Queue /\ SameLists(iq, r) /\ SameEntries(r.q, iq.q)

(* A queue has its own entries and links.                                  *)
LEMMA SameQueueRefl ==
  ASSUME NEW iq \in Queue
  PROVE  SameQueue(iq, iq)
BY DEF SameQueue, SameLists, SameEntries, SameLinks

(* Queues with equal entries and links, transitively.                      *)
LEMMA SameQueueTrans ==
  ASSUME NEW iq, NEW r, NEW u, SameQueue(iq, r), SameQueue(r, u)
  PROVE  SameQueue(iq, u)
BY DEF SameQueue, SameLists, SameEntries, SameLinks

(* A wakeup changes ready bits only.                                       *)
LEMMA SameQueueWoken ==
  ASSUME NEW iq \in Queue, NEW R \in SUBSET PhysReg, NEW r, r = Woken(iq, R)
  PROVE  SameQueue(iq, r)
BY WokenQueue DEF SameQueue, SameLists, SameEntries, SameLinks

(* The wakeup of a store's readers changes their ready bits only.          *)
LEMMA SameQueueInum ==
  ASSUME NEW iq \in Queue, NEW i, NEW r, r = InumWoken(iq, i)
  PROVE  SameQueue(iq, r)
BY InumWokenQueue DEF SameQueue, SameLists, SameEntries, SameLinks

(* The round-robin pointer touches no entry.                               *)
LEMMA SameQueueNext ==
  ASSUME NEW iq \in Queue, NEW r, r = NextPartition(iq)
  PROVE  SameQueue(iq, r)
BY NextPartitionQueue DEF SameQueue, SameLists, SameEntries, SameLinks

(* The queue stays consistent, with the ages of its instructions.          *)
LEMMA AgesSame ==
  ASSUME NEW h, NEW Q, NEW P, \A s \in Slot : P[s].index = Q[s].index
  PROVE  Ages(h, P) = Ages(h, Q)
BY DEF Ages

(* What depends on entries and links holds in either of two such queues.   *)
LEMMA SameQueueOK ==
  ASSUME NEW h \in ALIndex, NEW iq, QueueOK(iq, Ages(h, iq.q)), NEW r, SameQueue(iq, r)
  PROVE  QueueOK(r, Ages(h, r.q)) /\ r.q \in [Slot -> Entry]
<1>1. /\ r \in Queue /\ SameLists(iq, r)
      /\ \A s \in Slot : r.q[s].index = iq.q[s].index
  BY DEF SameQueue, SameEntries
<1>2. Ages(h, r.q) = Ages(h, iq.q)
  BY <1>1, AgesSame
<1>3. iq.q \in [Slot -> Entry] /\ r.q \in [Slot -> Entry]
  BY <1>1, QueueFields DEF QueueOK
<1>4. \A i \in Slot : Ages(h, iq.q)[i] \in Int
  BY <1>3, AgesType
<1>5. SameOrder(Occupied(iq.q), Ages(h, iq.q), Ages(h, iq.q))
  BY DEF SameOrder
<1> QED  BY <1>1, <1>2, <1>3, <1>4, <1>5, SameListsQueue

(* A queue that lost entries stays consistent.                             *)
LEMMA FewerQueueOK ==
  ASSUME NEW h \in ALIndex, NEW iq, NEW r, QueueOK(r, Ages(h, iq.q)), SameInsts(iq, r)
  PROVE  QueueOK(r, Ages(h, r.q)) /\ r.q \in [Slot -> Entry]
<1>1. \A s \in Slot : r.q[s].index = iq.q[s].index
  BY DEF SameInsts, SameInst
<1>2. Ages(h, r.q) = Ages(h, iq.q)
  BY <1>1, AgesSame
<1>3. r.q \in [Slot -> Entry]
  BY QueueFields DEF QueueOK
<1> QED  BY <1>2, <1>3

(* What fits has a place for everything.                                   *)
LEMMA FitsFields ==
  ASSUME NEW w, NEW h, NEW L, NEW iq, NEW S, Fits(w, h, L, iq, S)
  PROVE  /\ Setting(w, h, L, iq.q, S) /\ QueueOK(iq, Ages(h, iq.q))
         /\ Housed(w, h, L, iq.q, S) /\ WindowOK(w) /\ Placed(w, h, L, iq.q, S)
         /\ Kept(w, h, L, iq.q, S)
         /\ IsWindow(w) /\ h \in ALIndex /\ LanesOK(L) /\ iq \in Queue
         /\ iq.q \in [Slot -> Entry] /\ S \in SUBSET ALIndex
BY DEF Fits, Setting, Housed, QueueOK

(* The register before Writeback is the last cell of its lane.             *)
LEMMA WbCell ==
  ASSUME NEW L, NEW n \in Lane
  PROVE  Cell(L, n, ex_depth[n]) = L[n].wb
BY LaneDepth DEF Cell

-----------------------------------------------------------------------------
(* Each step keeps the engine together.                                    *)
(* An instruction that is no open branch leaves Writeback.                 *)
LEMMA FitsDone ==
  ASSUME NEW w, NEW h, NEW L, NEW iq, NEW S, Fits(w, h, L, iq, S),
         NEW n \in Lane, L[n].wb.valid, NEW i, i = L[n].wb.index,
         ~Open(w[PosIn(h, i)]), NEW v, v = CompletedAt(w, PosIn(h, i)),
         NEW M, M = Written(L, n), NEW r, SameQueue(iq, r)
  PROVE  Fits(v, h, M, r, S)
<1>1. /\ Setting(w, h, L, iq.q, S) /\ QueueOK(iq, Ages(h, iq.q))
      /\ Housed(w, h, L, iq.q, S) /\ WindowOK(w) /\ Placed(w, h, L, iq.q, S)
      /\ IsWindow(w) /\ h \in ALIndex /\ LanesOK(L) /\ S \in SUBSET ALIndex
  BY FitsFields
<1>2. QueueOK(r, Ages(h, r.q)) /\ r.q \in [Slot -> Entry]
  BY <1>1, SameQueueOK
<1>3. Cell(L, n, ex_depth[n]).valid /\ i = Cell(L, n, ex_depth[n]).index
  BY WbCell
<1>4. SameEntries(r.q, iq.q)
  BY DEF SameQueue
<1>5. Housed(v, h, M, r.q, S)
  BY <1>1, <1>2, <1>3, <1>4, DonePlaces
<1>6. PosIn(h, i) \in 1..Len(w)
  <2>1. i \in ALIndex /\ InFlight(w, h, i)
    BY <1>1, <1>3, LaneDepth, PlacedFlight
  <2> QED  BY <1>1, <2>1, FlightPos
<1>7. /\ IsWindow(v) /\ Len(v) = Len(w)
      /\ \A j \in 1..Len(w) : /\ SameCode(v[j], w[j])
                              /\ v[j].completed <=> (j = PosIn(h, i) \/ w[j].completed)
  BY <1>1, <1>6, CompletedWindow
<1>8. WindowOK(v)
  <2>1. Len(v) <= Len(w)
    BY <1>1, <1>7, WindowSeq
  <2>2. \A j \in 1..Len(v) : SameCode(v[j], w[j]) /\ (w[j].completed => v[j].completed)
    BY <1>7
  <2> QED  BY <1>1, <1>7, <2>1, <2>2, WindowOKPrefix
<1>9. LanesOK(M)
  BY <1>1, WrittenCells
<1> QED  BY <1>1, <1>2, <1>5, <1>7, <1>8, <1>9 DEF Fits, Setting

(* A stalled load is served.                                               *)
LEMMA FitsServed ==
  ASSUME NEW w, NEW h, NEW L, NEW iq, NEW S, Fits(w, h, L, iq, S), NEW i \in S,
         NEW v, v = CompletedAt(w, PosIn(h, i)), NEW T, T = S \ {i},
         NEW r, SameQueue(iq, r)
  PROVE  Fits(v, h, L, r, T)
<1>1. /\ Setting(w, h, L, iq.q, S) /\ QueueOK(iq, Ages(h, iq.q))
      /\ Housed(w, h, L, iq.q, S) /\ WindowOK(w) /\ Placed(w, h, L, iq.q, S)
      /\ IsWindow(w) /\ h \in ALIndex /\ LanesOK(L) /\ S \in SUBSET ALIndex
  BY FitsFields
<1>2. QueueOK(r, Ages(h, r.q)) /\ r.q \in [Slot -> Entry]
  BY <1>1, SameQueueOK
<1>4. SameEntries(r.q, iq.q)
  BY DEF SameQueue
<1>5. Housed(v, h, L, r.q, T)
  BY <1>1, <1>2, <1>4, ServedPlaces
<1>6. PosIn(h, i) \in 1..Len(w)
  <2>1. i \in ALIndex /\ InFlight(w, h, i)
    BY <1>1, PlacedFlight
  <2> QED  BY <1>1, <2>1, FlightPos
<1>7. /\ IsWindow(v) /\ Len(v) = Len(w)
      /\ \A j \in 1..Len(w) : /\ SameCode(v[j], w[j])
                              /\ v[j].completed <=> (j = PosIn(h, i) \/ w[j].completed)
  BY <1>1, <1>6, CompletedWindow
<1>8. WindowOK(v)
  <2>1. Len(v) <= Len(w)
    BY <1>1, <1>7, WindowSeq
  <2>2. \A j \in 1..Len(v) : SameCode(v[j], w[j]) /\ (w[j].completed => v[j].completed)
    BY <1>7
  <2> QED  BY <1>1, <1>7, <2>1, <2>2, WindowOKPrefix
<1> QED  BY <1>1, <1>2, <1>5, <1>7, <1>8 DEF Fits, Setting

(* A branch that was predicted right leaves Writeback.                     *)
LEMMA FitsResolved ==
  ASSUME NEW w, NEW h, NEW L, NEW iq, NEW S, Fits(w, h, L, iq, S),
         NEW n \in Lane,
         NEW i, NEW b, BranchDone(w, h, L, n, i, b),
         NEW v, v = CompletedAt(w, PosIn(h, i)),
         NEW M0, M0 = Cleared(L, b), NEW M, M = Written(M0, n),
         NEW r, r = clear_branch_bit(iq, b)
  PROVE  Fits(v, h, M, r, S)
<1>1. /\ Setting(w, h, L, iq.q, S) /\ QueueOK(iq, Ages(h, iq.q))
      /\ Housed(w, h, L, iq.q, S) /\ WindowOK(w) /\ Placed(w, h, L, iq.q, S)
      /\ IsWindow(w) /\ h \in ALIndex /\ LanesOK(L) /\ iq \in Queue
      /\ S \in SUBSET ALIndex /\ iq.q \in [Slot -> Entry]
  BY FitsFields
<1>2. /\ r \in Queue /\ SameLists(iq, r)
      /\ \A s \in Slot : /\ r.q[s].index = iq.q[s].index /\ r.q[s].tags = iq.q[s].tags
                         /\ r.q[s].branch_mask = iq.q[s].branch_mask \ {b}
  <2>1. iq \in Queue
    BY <1>1
  <2> QED  BY ONLY <2>1, r = clear_branch_bit(iq, b), ClearedQueue
<1>3. r.q \in [Slot -> Entry]
  BY <1>2, QueueFields
<1>4. QueueOK(r, Ages(h, r.q))
  <2>1. Ages(h, r.q) = Ages(h, iq.q)
    <3>1. \A s \in Slot : r.q[s].index = iq.q[s].index
      BY <1>2
    <3> QED  BY ONLY <3>1, AgesSame
  <2>2. \A j \in Slot : Ages(h, iq.q)[j] \in Int
    BY <1>1, AgesType
  <2>3. SameOrder(Occupied(iq.q), Ages(h, iq.q), Ages(h, iq.q))
    BY DEF SameOrder
  <2> QED  BY <1>1, <1>2, <2>1, <2>2, <2>3, SameListsQueue
<1>5. Cell(L, n, ex_depth[n]).valid /\ i = Cell(L, n, ex_depth[n]).index
  BY DEF BranchDone
<1>6. \A s \in Slot : /\ r.q[s].valid = iq.q[s].valid /\ r.q[s].index = iq.q[s].index
                      /\ r.q[s].tags = iq.q[s].tags
                      /\ r.q[s].branch_mask = iq.q[s].branch_mask \ {b}
  BY <1>2 DEF SameLists, SameLinks
<1>7. Housed(v, h, M, r.q, S)
  <2>1. PICK P : P = r.q
    OBVIOUS
  <2>2. /\ P \in [Slot -> Entry]
        /\ \A s \in Slot : /\ P[s].valid = iq.q[s].valid /\ P[s].index = iq.q[s].index
                           /\ P[s].tags = iq.q[s].tags
                           /\ P[s].branch_mask = iq.q[s].branch_mask \ {b}
    BY <2>1, <1>3, <1>6
  <2>3. Setting(w, h, L, iq.q, S) /\ Housed(w, h, L, iq.q, S) /\ WindowOK(w)
    BY <1>1
  <2>4. Housed(v, h, M, P, S)
    BY ONLY <2>2, <2>3, n \in Lane, BranchDone(w, h, L, n, i, b),
       v = CompletedAt(w, PosIn(h, i)),
       M0 = Cleared(L, b), M = Written(M0, n), ResolvedPlaces
  <2> QED  BY <2>1, <2>4
<1>8. PosIn(h, i) \in 1..Len(w)
  <2>1. i \in ALIndex /\ InFlight(w, h, i)
    BY <1>1, <1>5, LaneDepth, PlacedFlight
  <2> QED  BY <1>1, <2>1, FlightPos
<1>9. /\ IsWindow(v) /\ Len(v) = Len(w)
      /\ \A j \in 1..Len(w) : /\ SameCode(v[j], w[j])
                              /\ v[j].completed <=> (j = PosIn(h, i) \/ w[j].completed)
  BY <1>1, <1>8, CompletedWindow
<1>10. WindowOK(v)
  <2>1. Len(v) <= Len(w)
    BY <1>1, <1>9, WindowSeq
  <2>2. \A j \in 1..Len(v) : SameCode(v[j], w[j]) /\ (w[j].completed => v[j].completed)
    BY <1>9
  <2> QED  BY <1>1, <1>9, <2>1, <2>2, WindowOKPrefix
<1>11. LanesOK(M0)
  BY <1>1, ClearedCells
<1>12. LanesOK(M)
  BY <1>11, WrittenCells
<1> QED  BY <1>1, <1>3, <1>4, <1>7, <1>9, <1>10, <1>12 DEF Fits, Setting

(* A branch that was predicted wrong leaves Writeback.                     *)
LEMMA FitsCut ==
  ASSUME NEW w, NEW h, NEW L, NEW iq, NEW S, Fits(w, h, L, iq, S),
         NEW n \in Lane,
         NEW i, NEW b, BranchDone(w, h, L, n, i, b),
         NEW v, v = CutAt(w, PosIn(h, i)),
         NEW M0, M0 = Killed(L, b), NEW M, M = Written(M0, n),
         NEW T, T = StalledBefore(S, h, PosIn(h, i)),
         NEW r, r = Squashed(iq, b)
  PROVE  Fits(v, h, M, r, T)
<1>1. /\ Setting(w, h, L, iq.q, S) /\ QueueOK(iq, Ages(h, iq.q))
      /\ Housed(w, h, L, iq.q, S) /\ WindowOK(w) /\ Placed(w, h, L, iq.q, S)
      /\ IsWindow(w) /\ h \in ALIndex /\ LanesOK(L) /\ iq \in Queue
      /\ S \in SUBSET ALIndex /\ iq.q \in [Slot -> Entry]
  BY FitsFields
<1>2. /\ QueueOK(r, Ages(h, iq.q)) /\ SameInsts(iq, r)
      /\ Occupied(r.q) = {s \in Occupied(iq.q) : b \notin iq.q[s].branch_mask}
  <2>1. PICK K : K = Ages(h, iq.q)
    OBVIOUS
  <2>2. QueueOK(iq, K)
    BY <1>1, <2>1
  <2>3. /\ QueueOK(Squashed(iq, b), K) /\ SameInsts(iq, Squashed(iq, b))
        /\ Occupied(Squashed(iq, b).q) = {s \in Occupied(iq.q) : b \notin iq.q[s].branch_mask}
    BY ONLY <2>2, SquashedQueue
  <2> QED  BY ONLY r = Squashed(iq, b), <2>1, <2>3
<1>3. QueueOK(r, Ages(h, r.q)) /\ r.q \in [Slot -> Entry]
  BY <1>1, <1>2, FewerQueueOK
<1>4. Cell(L, n, ex_depth[n]).valid /\ i = Cell(L, n, ex_depth[n]).index
  BY DEF BranchDone
<1>5. \A s \in Slot : /\ r.q[s].valid <=> iq.q[s].valid /\ b \notin iq.q[s].branch_mask
                      /\ r.q[s].index = iq.q[s].index /\ r.q[s].tags = iq.q[s].tags
                      /\ r.q[s].branch_mask = iq.q[s].branch_mask
  BY <1>2 DEF SameInsts, SameInst, Occupied
<1>6. Housed(v, h, M, r.q, T)
  <2>1. PICK P : P = r.q
    OBVIOUS
  <2>2. /\ P \in [Slot -> Entry]
        /\ \A s \in Slot : /\ P[s].valid <=> iq.q[s].valid /\ b \notin iq.q[s].branch_mask
                           /\ P[s].index = iq.q[s].index /\ P[s].tags = iq.q[s].tags
                           /\ P[s].branch_mask = iq.q[s].branch_mask
    BY <2>1, <1>3, <1>5
  <2>3. Setting(w, h, L, iq.q, S) /\ Housed(w, h, L, iq.q, S) /\ WindowOK(w)
    BY <1>1
  <2>4. Housed(v, h, M, P, T)
    BY ONLY <2>2, <2>3, n \in Lane, BranchDone(w, h, L, n, i, b),
       v = CutAt(w, PosIn(h, i)),
       M0 = Killed(L, b), M = Written(M0, n),
       T = StalledBefore(S, h, PosIn(h, i)), CutPlaces
  <2> QED  BY <2>1, <2>4
<1>7. PosIn(h, i) \in 1..Len(w)
  <2>1. i \in ALIndex /\ InFlight(w, h, i)
    BY <1>1, <1>4, LaneDepth, PlacedFlight
  <2> QED  BY <1>1, <2>1, FlightPos
<1>8. /\ IsWindow(v) /\ Len(v) = PosIn(h, i)
      /\ \A j \in 1..PosIn(h, i) :
           /\ SameCode(v[j], w[j])
           /\ v[j].completed <=> (j = PosIn(h, i) \/ w[j].completed)
  BY <1>1, <1>7, CutWindow
<1>9. WindowOK(v)
  <2>1. Len(v) <= Len(w)
    BY <1>1, <1>7, <1>8, WindowSeq
  <2>2. \A j \in 1..Len(v) : SameCode(v[j], w[j]) /\ (w[j].completed => v[j].completed)
    BY <1>8
  <2> QED  BY <1>1, <1>8, <2>1, <2>2, WindowOKPrefix
<1>10. LanesOK(M0)
  BY <1>1, KilledCells
<1>11. LanesOK(M)
  BY <1>10, WrittenCells
<1>12. T \in SUBSET ALIndex
  BY <1>1 DEF StalledBefore
<1> QED  BY <1>1, <1>3, <1>6, <1>8, <1>9, <1>11, <1>12 DEF Fits, Setting

(* The head commits.                                                       *)
LEMMA FitsCommit ==
  ASSUME NEW w, NEW h, NEW L, NEW iq, NEW S, Fits(w, h, L, iq, S),
         w # <<>>, w[1].completed, NEW v, v = Left(w), NEW g, g = Next1(h, n_active)
  PROVE  Fits(v, g, L, iq, S)
<1>1. /\ Setting(w, h, L, iq.q, S) /\ QueueOK(iq, Ages(h, iq.q))
      /\ Housed(w, h, L, iq.q, S) /\ WindowOK(w) /\ Placed(w, h, L, iq.q, S)
      /\ IsWindow(w) /\ h \in ALIndex /\ LanesOK(L) /\ iq \in Queue
      /\ S \in SUBSET ALIndex /\ iq.q \in [Slot -> Entry]
  BY FitsFields
<1>2. /\ g \in ALIndex
      /\ \A i \in ALIndex : InFlight(w, h, i) => PosIn(g, i) + 1 = PosIn(h, i)
  BY <1>1, FlightCommit
<1>3. Housed(v, g, L, iq.q, S)
  BY <1>1, CommitPlaces
<1>4. IsWindow(v) /\ WindowOK(v)
  BY <1>1, TailWindow, WindowOKTail
<1>5. QueueOK(iq, Ages(g, iq.q))
  <2>1. /\ \A i \in Slot : Ages(h, iq.q)[i] = PosIn(h, iq.q[i].index) /\ Ages(h, iq.q)[i] \in Int
        /\ \A i \in Slot : Ages(g, iq.q)[i] = PosIn(g, iq.q[i].index) /\ Ages(g, iq.q)[i] \in Int
    BY <1>1, <1>2, AgesType
  <2>2. \A s \in Slot : iq.q[s].valid =>
          InFlight(w, h, iq.q[s].index) /\ iq.q[s].index \in ALIndex
    BY <1>1, PlacedFlight
  <2>3. \A i \in Occupied(iq.q) : /\ Ages(g, iq.q)[i] + 1 = Ages(h, iq.q)[i]
                                  /\ Ages(g, iq.q)[i] \in Int
    BY <2>1, <2>2, <1>2 DEF Occupied
  <2>4. SameOrder(Occupied(iq.q), Ages(h, iq.q), Ages(g, iq.q))
    <3>1. ASSUME NEW i \in Occupied(iq.q), NEW j \in Occupied(iq.q)
          PROVE  /\ Ages(h, iq.q)[i] < Ages(h, iq.q)[j] <=> Ages(g, iq.q)[i] < Ages(g, iq.q)[j]
                 /\ Ages(g, iq.q)[i] = Ages(g, iq.q)[j] => Ages(h, iq.q)[i] = Ages(h, iq.q)[j]
      <4>1. PICK p, q, m, n : /\ p = Ages(h, iq.q)[i] /\ q = Ages(h, iq.q)[j]
                              /\ m = Ages(g, iq.q)[i] /\ n = Ages(g, iq.q)[j]
        OBVIOUS
      <4>2. m \in Int /\ n \in Int /\ p = m + 1 /\ q = n + 1
        BY <4>1, <2>3
      <4>3. (p < q <=> m < n) /\ (m = n => p = q)
        BY ONLY <4>2
      <4> QED  BY <4>1, <4>3
    <3> QED  BY <3>1 DEF SameOrder
  <2>5. SameLists(iq, iq)
    BY DEF SameLists, SameLinks
  <2>6. \A i \in Slot : Ages(g, iq.q)[i] \in Int
    BY <2>1
  <2> QED  BY ONLY <1>1, <2>4, <2>5, <2>6, SameListsQueue
<1> QED  BY <1>1, <1>2, <1>3, <1>4, <1>5 DEF Fits, Setting

(* The engine starts, and starts again after a squash, with nothing in it. *)
LEMMA FitsEmpty ==
  ASSUME NEW L, L = [l \in Lane |-> EmptyLane(l)], NEW iq,
         iq = EmptyQueue \/ \E u \in Queue : iq = Flushed(u)
  PROVE  Fits(<<>>, 0, L, iq, {})
<1>1. iq \in Queue
  <2>1. \A i \in Slot : [s \in Slot |-> 0][i] \in Int
    OBVIOUS
  <2>2. QueueOK(EmptyQueue, [s \in Slot |-> 0])
    BY <2>1, EmptyQueueOK
  <2>3. \A u \in Queue : QueueOK(Flushed(u), [s \in Slot |-> 0])
    BY <2>1, FlushedQueue
  <2> QED  BY <2>2, <2>3 DEF QueueOK
<1>2. iq.q \in [Slot -> Entry] /\ 0 \in ALIndex
  BY <1>1, QueueFields, Constants
<1>3. \A i \in Slot : Ages(0, iq.q)[i] \in Int
  BY <1>2, AgesType
<1>4. QueueOK(iq, Ages(0, iq.q)) /\ Occupied(iq.q) = {}
  BY <1>3, EmptyQueueOK, FlushedQueue
<1>5. \A s \in Slot : ~iq.q[s].valid
  BY <1>4 DEF Occupied
<1>6. LanesOK(L) /\ Housed(<<>>, 0, L, iq.q, {})
  BY <1>2, <1>5, EmptyPlaces
<1> QED  BY <1>2, <1>4, <1>6, NoWindow, WindowOKEmpty DEF Fits, Setting

(* select_and_issue() gives up.                                            *)
LEMMA FitsSame ==
  ASSUME NEW w, NEW h, NEW L, NEW iq, NEW S, Fits(w, h, L, iq, S),
         NEW r, SameQueue(iq, r)
  PROVE  Fits(w, h, L, r, S)
<1>1. /\ Setting(w, h, L, iq.q, S) /\ QueueOK(iq, Ages(h, iq.q))
      /\ Placed(w, h, L, iq.q, S) /\ Kept(w, h, L, iq.q, S)
      /\ WindowOK(w) /\ h \in ALIndex
  BY FitsFields
<1>2. QueueOK(r, Ages(h, r.q)) /\ r.q \in [Slot -> Entry]
  BY <1>1, SameQueueOK
<1>3. \A s \in Slot : /\ r.q[s].valid = iq.q[s].valid /\ r.q[s].index = iq.q[s].index
                      /\ r.q[s].tags = iq.q[s].tags
                      /\ r.q[s].branch_mask = iq.q[s].branch_mask
  BY DEF SameQueue, SameEntries
<1>4. Placed(w, h, L, r.q, S)
  BY <1>1, <1>3, PlacedSame
<1>5. Kept(w, h, L, r.q, S)
  BY <1>1, <1>3 DEF Kept
<1> QED  BY <1>1, <1>2, <1>4, <1>5 DEF Fits, Setting, Housed

(* An instruction is issued.                                               *)
LEMMA FitsIssued ==
  ASSUME NEW w, NEW h, NEW L, NEW iq, NEW S, Fits(w, h, L, iq, S),
         NEW s \in Occupied(iq.q), NEW n \in Lane, ~L[n].rr.valid,
         NEW p \in LaneReg, p.valid, p.index = iq.q[s].index,
         p.branch_mask = iq.q[s].branch_mask,
         NEW M, M = IssuedTo(L, n, p), NEW r, r = Removed(iq, s)
  PROVE  Fits(w, h, M, r, S)
<1>1. /\ Setting(w, h, L, iq.q, S) /\ QueueOK(iq, Ages(h, iq.q))
      /\ Housed(w, h, L, iq.q, S) /\ WindowOK(w)
      /\ IsWindow(w) /\ h \in ALIndex /\ LanesOK(L) /\ iq \in Queue
      /\ S \in SUBSET ALIndex /\ iq.q \in [Slot -> Entry]
  BY FitsFields
<1>2. /\ QueueOK(r, Ages(h, iq.q)) /\ SameInsts(iq, r)
      /\ Occupied(r.q) = Occupied(iq.q) \ {s}
  BY <1>1, RemovedQueue
<1>3. QueueOK(r, Ages(h, r.q)) /\ r.q \in [Slot -> Entry]
  BY <1>1, <1>2, FewerQueueOK
<1>4. \A t \in Slot : /\ r.q[t].valid <=> iq.q[t].valid /\ t # s
                      /\ r.q[t].index = iq.q[t].index /\ r.q[t].tags = iq.q[t].tags
                      /\ r.q[t].branch_mask = iq.q[t].branch_mask
  BY <1>2 DEF SameInsts, SameInst, Occupied
<1>5. s \in Slot /\ iq.q[s].valid
  BY DEF Occupied
<1>6. Housed(w, h, M, r.q, S)
  BY <1>1, <1>4, <1>5, IssuedPlaces
<1>7. LanesOK(M)
  BY <1>1, IssuedCells
<1> QED  BY <1>1, <1>3, <1>6, <1>7 DEF Fits, Setting

(* An instruction moves from Register Read to Execute.                     *)
LEMMA FitsRead ==
  ASSUME NEW w, NEW h, NEW L, NEW iq, NEW S, Fits(w, h, L, iq, S),
         NEW n \in Lane, L[n].rr.valid, ~L[n].ex[0].valid,
         NEW M, M = ReadFrom(L, n, L[n].rr), NEW r, SameQueue(iq, r)
  PROVE  Fits(w, h, M, r, S)
<1>1. /\ Setting(w, h, L, iq.q, S) /\ QueueOK(iq, Ages(h, iq.q))
      /\ Housed(w, h, L, iq.q, S) /\ WindowOK(w)
      /\ IsWindow(w) /\ h \in ALIndex /\ LanesOK(L) /\ S \in SUBSET ALIndex
  BY FitsFields
<1>2. QueueOK(r, Ages(h, r.q)) /\ r.q \in [Slot -> Entry]
  BY <1>1, SameQueueOK
<1>3. SameEntries(r.q, iq.q)
  BY DEF SameQueue
<1>4. Housed(w, h, M, r.q, S)
  BY <1>1, <1>3, ReadPlaces
<1>5. LanesOK(M)
  BY <1>1, CellType, ReadCells
<1> QED  BY <1>1, <1>2, <1>4, <1>5 DEF Fits, Setting

(* The instructions of a lane advance.                                     *)
LEMMA FitsExecuted ==
  ASSUME NEW w, NEW h, NEW L, NEW iq, NEW S, Fits(w, h, L, iq, S),
         NEW n \in Lane,
         NEW last, NEW goes, NEW p, NEW T, LastGoes(w, h, L, S, n, last, goes, p, T),
         NEW M, M = Advanced(L, n, p),
         NEW r, SameQueue(iq, r)
  PROVE  Fits(w, h, M, r, T)
<1>1. /\ Setting(w, h, L, iq.q, S) /\ QueueOK(iq, Ages(h, iq.q))
      /\ Housed(w, h, L, iq.q, S) /\ WindowOK(w)
      /\ IsWindow(w) /\ h \in ALIndex /\ LanesOK(L) /\ S \in SUBSET ALIndex
  BY FitsFields
<1>2. QueueOK(r, Ages(h, r.q)) /\ r.q \in [Slot -> Entry]
  BY <1>1, SameQueueOK
<1>3. SameEntries(r.q, iq.q)
  BY DEF SameQueue
<1>4. Housed(w, h, M, r.q, T)
  <2>1. PICK P : P = r.q
    OBVIOUS
  <2>2. SameEntries(P, iq.q)
    BY <2>1, <1>3
  <2>3. Setting(w, h, L, iq.q, S) /\ Housed(w, h, L, iq.q, S)
    BY <1>1
  <2>4. Housed(w, h, M, P, T)
    BY ONLY <2>2, <2>3, n \in Lane, LastGoes(w, h, L, S, n, last, goes, p, T),
       M = Advanced(L, n, p), ExecutedPlaces
  <2> QED  BY <2>1, <2>4
<1>5. last \in LaneReg /\ p \in LaneReg
  <2>1. L[n].wb \in LaneReg /\ L[n].ex \in [0..(ex_depth[n] - 1) -> LaneReg]
    BY <1>1, CellType
  <2>2. ex_depth[n] - 1 \in 0..(ex_depth[n] - 1)
    BY LaneDepth
  <2> QED  BY <2>1, <2>2 DEF LastGoes
<1>6. LanesOK(M)
  <2>1. PICK d0 : d0 = ex_depth[n] - 1
    OBVIOUS
  <2> QED  BY <1>1, <1>5, <2>1, ExecutedCells
<1>7. T \in SUBSET ALIndex
  BY <1>1, <1>5, RegFields DEF LastGoes
<1> QED  BY <1>1, <1>2, <1>4, <1>6, <1>7 DEF Fits, Setting

(* An instruction that needs no execution enters.                          *)
LEMMA FitsNop ==
  ASSUME NEW w, NEW h, NEW L, NEW iq, NEW S, Fits(w, h, L, iq, S),
         Len(w) < n_active, NEW x \in Inst, x.completed, NEW v, v = Entered(w, x),
         \A j \in 1..Len(w) : w[j].dest_valid /\ x.dest_valid => w[j].phys_reg # x.phys_reg
  PROVE  Fits(v, h, L, iq, S)
<1>1. /\ Setting(w, h, L, iq.q, S) /\ QueueOK(iq, Ages(h, iq.q))
      /\ Housed(w, h, L, iq.q, S) /\ WindowOK(w)
      /\ IsWindow(w) /\ h \in ALIndex /\ LanesOK(L) /\ S \in SUBSET ALIndex
      /\ iq.q \in [Slot -> Entry]
  BY FitsFields
<1>2. Housed(v, h, L, iq.q, S)
  BY <1>1, NopPlaces
<1>3. ~Open(x)
  BY DEF Open
<1>4. IsWindow(v) /\ WindowOK(v)
  BY <1>1, <1>3, AppendWindow, WindowOKAppend
<1> QED  BY <1>1, <1>2, <1>4 DEF Fits, Setting

(* Any other one enters the queue.                                         *)
LEMMA FitsEntered ==
  ASSUME NEW w, NEW h, NEW L, NEW iq, NEW S, Fits(w, h, L, iq, S),
         Len(w) < n_active, NEW x \in Inst, ~x.completed, NEW v, v = Entered(w, x),
         Open(x) => x.kind = "branch" /\ x.branch_ID \notin OpenIn(w, Len(w) + 1),
         \A j \in 1..Len(w) : w[j].dest_valid /\ x.dest_valid => w[j].phys_reg # x.phys_reg,
         ~stall(iq, 1), NEW e \in Entry, e.index = AtIn(h, Len(w) + 1), e.tags = x.tags,
         e.branch_mask = OpenIn(w, Len(w) + 1), NEW r, r = Dispatched(iq, e)
  PROVE  Fits(v, h, L, r, S)
<1>1. /\ Setting(w, h, L, iq.q, S) /\ QueueOK(iq, Ages(h, iq.q))
      /\ Housed(w, h, L, iq.q, S) /\ WindowOK(w) /\ Placed(w, h, L, iq.q, S)
      /\ IsWindow(w) /\ h \in ALIndex /\ LanesOK(L) /\ S \in SUBSET ALIndex
      /\ iq.q \in [Slot -> Entry]
  BY FitsFields
<1>2. PICK f, k, J : /\ f = Head1(iq) /\ k = AtIn(h, Len(w) + 1)
                     /\ J = [i \in Slot |-> IF i = f THEN Len(w) + 1 ELSE Ages(h, iq.q)[i]]
  OBVIOUS
<1>3. Len(w) \in Nat
  BY <1>1, WindowSeq
<1>4. \A i \in Slot : Ages(h, iq.q)[i] = PosIn(h, iq.q[i].index) /\ Ages(h, iq.q)[i] \in Int
  BY <1>1, AgesType
<1>5. \A i \in Occupied(iq.q) : i \in Slot /\ Ages(h, iq.q)[i] <= Len(w)
  <2>1. \A i \in Slot : iq.q[i].valid => InFlight(w, h, iq.q[i].index)
    BY <1>1, PlacedFlight
  <2> QED  BY <1>4, <2>1 DEF Occupied, InFlight
<1>6. f \in Slot \ Occupied(iq.q)
  <2>1. iq \in Queue /\ FreeListOK(iq)
    BY <1>1 DEF QueueOK
  <2>2. iq.fl_length > 0 /\ iq.fl_length \in 0..size
    BY <2>1, QueueFields DEF stall
  <2>3. f = Nth(iq, 0)
    BY <1>2, <2>1, NextOfAhead, QueueFields DEF Head1, Nth, Ahead
  <2>4. 0 \in 0..(iq.fl_length - 1)
    BY <2>2
  <2>5. ~iq.q[f].valid
    BY <2>1, <2>3, <2>4 DEF FreeListOK
  <2>6. f \in Slot
    BY <1>2, <2>1, QueueFields DEF Head1
  <2> QED  BY <2>5, <2>6 DEF Occupied
<1>7. \A i \in Slot : J[i] \in Int
  BY <1>2, <1>3, <1>4
<1>8. \A i \in Occupied(iq.q) : J[i] = Ages(h, iq.q)[i] /\ J[i] < J[f]
  <2> SUFFICES ASSUME NEW i \in Occupied(iq.q)
               PROVE  J[i] = Ages(h, iq.q)[i] /\ J[i] < J[f]
    OBVIOUS
  <2>1. J[f] = Len(w) + 1 /\ J[i] = Ages(h, iq.q)[i]
    BY <1>2, <1>5, <1>6
  <2>2. Ages(h, iq.q)[i] \in Int /\ Ages(h, iq.q)[i] <= Len(w)
    BY <1>4, <1>5
  <2> QED  BY <2>1, <2>2, <1>3
<1>9. /\ QueueOK(r, J) /\ Occupied(r.q) = Occupied(iq.q) \cup {f}
      /\ SameInst(r.q[f], e)
      /\ \A i \in Slot \ {f} : SameInst(r.q[i], iq.q[i])
  <2>1. PICK K : K = Ages(h, iq.q)
    OBVIOUS
  <2>2. QueueOK(iq, K) /\ f = Head1(iq) /\ \A i \in Occupied(iq.q) : J[i] = K[i]
    BY <2>1, <1>1, <1>2, <1>8
  <2>3. \A i \in Occupied(iq.q) : J[i] < J[f]
    BY <1>8
  <2> QED  BY ONLY <2>2, <2>3, <1>7, ~stall(iq, 1), e \in Entry, r = Dispatched(iq, e),
              DispatchedQueue
<1>10. r.q \in [Slot -> Entry]
  BY <1>9, QueueFields DEF QueueOK
<1>11. k \in ALIndex /\ PosIn(h, k) = Len(w) + 1
  BY <1>1, <1>2, FlightEnter
<1>12. Ages(h, r.q) = J
  <2>1. \A i \in Slot : PosIn(h, r.q[i].index) = J[i]
    BY <1>2, <1>4, <1>9, <1>11 DEF SameInst
  <2>2. J = [i \in Slot |-> J[i]]
    BY <1>2
  <2> QED  BY <2>1, <2>2 DEF Ages
<1>13. /\ r.q[f].valid /\ r.q[f].index = k /\ r.q[f].tags = x.tags
       /\ r.q[f].branch_mask = OpenIn(w, Len(w) + 1)
  BY <1>2, <1>9 DEF SameInst, Occupied
<1>14. \A s \in Slot \ {f} : /\ r.q[s].valid = iq.q[s].valid /\ r.q[s].index = iq.q[s].index
                             /\ r.q[s].tags = iq.q[s].tags
                             /\ r.q[s].branch_mask = iq.q[s].branch_mask
  <2> SUFFICES ASSUME NEW s \in Slot \ {f}
               PROVE  /\ r.q[s].valid = iq.q[s].valid /\ r.q[s].index = iq.q[s].index
                      /\ r.q[s].tags = iq.q[s].tags
                      /\ r.q[s].branch_mask = iq.q[s].branch_mask
    OBVIOUS
  <2>1. r.q[s].valid <=> iq.q[s].valid
    BY <1>9 DEF Occupied
  <2>2. r.q[s].valid \in BOOLEAN /\ iq.q[s].valid \in BOOLEAN
    BY <1>1, <1>10, EntryFields
  <2>3. SameInst(r.q[s], iq.q[s])
    BY <1>9
  <2>4. r.q[s].valid = iq.q[s].valid
    BY ONLY <2>1, <2>2, Zenon
  <2> QED  BY <2>3, <2>4 DEF SameInst
<1>15. Housed(v, h, L, r.q, S)
  <2>1. PICK P : P = r.q
    OBVIOUS
  <2>2. ~iq.q[f].valid /\ f \in Slot
    BY <1>6 DEF Occupied
  <2>3. /\ P \in [Slot -> Entry] /\ P[f].valid /\ P[f].index = AtIn(h, Len(w) + 1)
        /\ P[f].tags = x.tags /\ P[f].branch_mask = OpenIn(w, Len(w) + 1)
    BY <2>1, <1>2, <1>10, <1>13
  <2>4. \A s \in Slot \ {f} : /\ P[s].valid = iq.q[s].valid /\ P[s].index = iq.q[s].index
                              /\ P[s].tags = iq.q[s].tags
                              /\ P[s].branch_mask = iq.q[s].branch_mask
    BY <2>1, <1>14
  <2>5. Setting(w, h, L, iq.q, S) /\ Housed(w, h, L, iq.q, S)
    BY <1>1
  <2>6. Housed(v, h, L, P, S)
    BY ONLY <2>2, <2>3, <2>4, <2>5, Len(w) < n_active, x \in Inst, ~x.completed,
       v = Entered(w, x), EnteredPlaces
  <2> QED  BY <2>1, <2>6
<1>16. IsWindow(v) /\ WindowOK(v)
  BY <1>1, AppendWindow, WindowOKAppend
<1> QED  BY <1>1, <1>9, <1>10, <1>12, <1>15, <1>16 DEF Fits, Setting

-----------------------------------------------------------------------------
(* The stages of a cycle, and the registers they leave empty.              *)
StageOK(s, n) ==
  s \in StageName /\ n \in 0..((IF s = "retire" THEN RETIRE_WIDTH ELSE issue_width) - 1)
NextOf(s, n, t, m) ==
  IF n = issue_width - 1 THEN t = After(s) /\ m = 0 ELSE m = n + 1 /\ t = s

(* The stage that follows starts at lane 0.                                *)
LEMMA StageAfter ==
  ASSUME NEW s \in StageName
  PROVE  StageOK(After(s), 0)
<1>1. After(s) \in StageName
  BY DEF After, StageName
<1>2. 0 \in 0..(RETIRE_WIDTH - 1) /\ 0 \in 0..(issue_width - 1)
  BY Constants
<1> QED  BY <1>1, <1>2 DEF StageOK

(* The next lane, or the first of the next stage, is one that exists.      *)
LEMMA StageNext ==
  ASSUME NEW s, NEW n, StageOK(s, n), s # "retire", NEW t, NEW m, NextOf(s, n, t, m)
  PROVE  StageOK(t, m) /\ n \in Lane
<1>1. s \in StageName /\ n \in 0..(issue_width - 1)
  BY DEF StageOK
<1>2. CASE n = issue_width - 1
  <2>1. t = After(s) /\ m = 0
    BY <1>2 DEF NextOf
  <2> QED  BY <1>1, <2>1, StageAfter DEF Lane
<1>3. CASE n # issue_width - 1
  <2>1. t = s /\ m = n + 1
    BY <1>3 DEF NextOf
  <2>2. m \in 0..(issue_width - 1)
    BY <1>1, <1>3, <2>1, Constants
  <2> QED  BY <1>1, <2>1, <2>2 DEF StageOK, Lane
<1> QED  BY <1>2, <1>3

(* Stages that need nothing empty.                                         *)
LEMMA DrainedNone ==
  ASSUME NEW s, NEW n, s \in {"retire", "schedule", "dispatch"} \/ (s = "writeback" /\ n = 0),
         NEW L
  PROVE  Drained(s, n, L)
<1>1. \A l \in Lane : ~(l < 0)
  BY Constants DEF Lane
<1> QED  BY <1>1 DEF Drained

(* Writeback empties the registers before it.                              *)
LEMMA DrainedWriteback ==
  ASSUME NEW n, StageOK("writeback", n), NEW L, Drained("writeback", n, L),
         NEW t, NEW m, NextOf("writeback", n, t, m),
         NEW N, \A l \in Lane : N[l].wb.valid => l # n /\ L[l].wb.valid
  PROVE  Drained(t, m, N)
<1>1. n \in 0..(issue_width - 1) /\ issue_width \in Nat \ {0}
  BY Constants DEF StageOK
<1>2. \A l \in Lane : l < n => ~L[l].wb.valid
  BY DEF Drained
<1>3. CASE n = issue_width - 1
  <2>1. t = "load_replay" /\ m = 0
    BY <1>3 DEF NextOf, After
  <2>2. \A l \in Lane : ~N[l].wb.valid
    <3>1. \A l \in Lane : l < n \/ l = n
      BY <1>1, <1>3 DEF Lane
    <3> QED  BY <1>2, <3>1
  <2> QED  BY <2>1, <2>2 DEF Drained
<1>4. CASE n # issue_width - 1
  <2>1. t = "writeback" /\ m = n + 1
    BY <1>4 DEF NextOf
  <2>2. \A l \in Lane : l < m => ~N[l].wb.valid
    <3>1. \A l \in Lane : l < m => l < n \/ l = n
      BY <1>1, <2>1 DEF Lane
    <3> QED  BY <1>2, <3>1
  <2> QED  BY <2>1, <2>2 DEF Drained
<1> QED  BY <1>3, <1>4

(* The load replay leaves Execute's targets empty.                         *)
LEMMA DrainedReplay ==
  ASSUME NEW n, NEW L, Drained("load_replay", n, L)
  PROVE  Drained("execute", 0, L)
<1>1. \A l \in Lane : ~(l < 0)
  BY Constants DEF Lane
<1> QED  BY <1>1 DEF Drained

(* Execute fills them, and empties the first execute stages.               *)
LEMMA DrainedExecute ==
  ASSUME NEW n, StageOK("execute", n), NEW L, Drained("execute", n, L),
         NEW t, NEW m, NextOf("execute", n, t, m),
         NEW N, \A l \in Lane : l # n => N[l] = L[l], ~N[n].ex[0].valid
  PROVE  Drained(t, m, N)
<1>1. n \in 0..(issue_width - 1) /\ issue_width \in Nat \ {0}
  BY Constants DEF StageOK
<1>2. /\ \A l \in Lane : l >= n => ~L[l].wb.valid
      /\ \A l \in Lane : l < n => ~L[l].ex[0].valid
  BY DEF Drained
<1>3. CASE n = issue_width - 1
  <2>1. t = "register_read" /\ m = 0
    BY <1>3 DEF NextOf, After
  <2>2. \A l \in Lane : ~N[l].ex[0].valid
    <3>1. \A l \in Lane : l < n \/ l = n
      BY <1>1, <1>3 DEF Lane
    <3>2. \A l \in Lane : l < n => l # n
      BY <1>1 DEF Lane
    <3> QED  BY <1>2, <3>1, <3>2
  <2> QED  BY <2>1, <2>2 DEF Drained
<1>4. CASE n # issue_width - 1
  <2>1. t = "execute" /\ m = n + 1
    BY <1>4 DEF NextOf
  <2>2. \A l \in Lane : l < m => ~N[l].ex[0].valid
    <3>1. \A l \in Lane : l < m => (l < n /\ l # n) \/ l = n
      BY <1>1, <2>1 DEF Lane
    <3> QED  BY <1>2, <3>1
  <2>3. \A l \in Lane : l >= m => ~N[l].wb.valid
    <3>1. \A l \in Lane : l >= m => l >= n /\ l # n
      BY <1>1, <2>1 DEF Lane
    <3> QED  BY <1>2, <3>1
  <2> QED  BY <2>1, <2>2, <2>3 DEF Drained
<1> QED  BY <1>3, <1>4

(* Register Read fills them.                                               *)
LEMMA DrainedRead ==
  ASSUME NEW n, StageOK("register_read", n), NEW L, Drained("register_read", n, L),
         NEW t, NEW m, NextOf("register_read", n, t, m),
         NEW N, \A l \in Lane : l # n => N[l] = L[l]
  PROVE  Drained(t, m, N)
<1>1. n \in 0..(issue_width - 1) /\ issue_width \in Nat \ {0}
  BY Constants DEF StageOK
<1>2. \A l \in Lane : l >= n => ~L[l].ex[0].valid
  BY DEF Drained
<1>3. CASE n = issue_width - 1
  <2>1. t = "schedule"
    BY <1>3 DEF NextOf, After
  <2> QED  BY <2>1, DrainedNone
<1>4. CASE n # issue_width - 1
  <2>1. t = "register_read" /\ m = n + 1
    BY <1>4 DEF NextOf
  <2>3. \A l \in Lane : l >= m => ~N[l].ex[0].valid
    <3>1. \A l \in Lane : l >= m => l >= n /\ l # n
      BY <1>1, <2>1 DEF Lane
    <3> QED  BY <1>2, <3>1
  <2> QED  BY <2>1, <2>3 DEF Drained
<1> QED  BY <1>3, <1>4

-----------------------------------------------------------------------------
(* What the renamer gives an instruction.                                  *)
LEMMA LookupMapped ==
  ASSUME NEW c \in [LogReg -> PhysReg], NEW w, IsWindow(w), NEW r \in LogReg
  PROVE  /\ Names!Lookup(c, w)[r] \in PhysReg
         /\ Mapped(w, c, Names!Lookup(c, w)[r], Len(w) + 1)
<1>1. Len(w) \in Nat /\ DOMAIN w = 1..Len(w) /\ \A j \in 1..Len(w) : w[j] \in Inst
  BY WindowSeq
<1>2. PICK W : W = {k \in DOMAIN w : w[k].dest_valid /\ w[k].log_reg = r}
  OBVIOUS
<1>3. \A k : k \in W <=> k \in 1..Len(w) /\ Writes(w[k], r)
  BY <1>1, <1>2 DEF Writes
<1>4. r \in Names!LogReg
  BY DEF LogReg, Names!LogReg
<1>5. Names!Lookup(c, w)[r] =
        IF W = {} THEN c[r] ELSE w[CHOOSE k \in W : \A l \in W : l <= k].phys_reg
  BY <1>2, <1>4 DEF Names!Lookup
<1>6. (Len(w) + 1) - 1 = Len(w)
  BY <1>1
<1>7. CASE W = {}
  <2>1. Names!Lookup(c, w)[r] = c[r] /\ \A j \in 1..((Len(w) + 1) - 1) : ~Writes(w[j], r)
    BY <1>3, <1>5, <1>6, <1>7
  <2> QED  BY <2>1 DEF Mapped
<1>8. CASE W # {}
  <2>1. PICK k : k = CHOOSE x \in W : \A l \in W : l <= x
    OBVIOUS
  <2>2. \E x \in W : \A l \in W : l <= x
    BY <1>1, <1>3, <1>8, GreatestNumber
  <2>3. k \in W /\ \A l \in W : l <= k
    BY <2>1, <2>2
  <2>4. Names!Lookup(c, w)[r] = w[k].phys_reg
    BY <1>5, <1>8, <2>1
  <2>5. k \in 1..Len(w) /\ Writes(w[k], r) /\ w[k] \in Inst
    BY <1>1, <1>3, <2>3
  <2>6. \A m \in (k + 1)..Len(w) : ~Writes(w[m], r)
    <3>1. ASSUME NEW m \in (k + 1)..Len(w), Writes(w[m], r) PROVE FALSE
      <4>1. m \in 1..Len(w) /\ ~(m <= k)
        BY <1>1, <2>5
      <4>2. m \in W
        BY <4>1, <3>1, <1>3
      <4> QED  BY <4>1, <4>2, <2>3
    <3> QED  BY <3>1
  <2>7. w[k].phys_reg \in PhysReg
    BY <2>5, InstFields
  <2>8. Mapped(w, c, w[k].phys_reg, Len(w) + 1)
    BY <1>6, <2>5, <2>6 DEF Mapped
  <2> QED  BY <2>4, <2>7, <2>8
<1> QED  BY <1>7, <1>8

(* An unused register is mapped nowhere and is no destination in flight.   *)
LEMMA UnusedFields ==
  ASSUME NEW c, NEW w, IsWindow(w), NEW p \in Names!Unused(c, w)
  PROVE  /\ p \in PhysReg /\ \A r \in LogReg : c[r] # p
         /\ \A k \in 1..Len(w) : w[k].dest_valid => w[k].phys_reg # p
BY WindowSeq DEF Names!Unused, Names!PhysReg, Names!LogReg, PhysReg, LogReg

(* An unused register is mapped nowhere.                                   *)
LEMMA UnusedUnmapped ==
  ASSUME NEW c, NEW w, IsWindow(w), NEW p \in Names!Unused(c, w), NEW k \in 1..(Len(w) + 1)
  PROVE  ~Mapped(w, c, p, k)
<1>1. /\ \A r \in LogReg : c[r] # p
      /\ \A j \in 1..Len(w) : w[j].dest_valid => w[j].phys_reg # p
  BY UnusedFields
<1>2. \A j \in 1..(k - 1) : j \in 1..Len(w)
  BY WindowSeq
<1> QED  BY <1>1, <1>2 DEF Mapped, Writes

(* The branch ID that is assigned is not in use.                           *)
LeastFree(B) == CHOOSE b \in Branch \ B : \A c \in Branch \ B : b <= c

(* The least free branch ID is free, when there is a free one.             *)
LEMMA LeastFreeID ==
  ASSUME NEW B, B \subseteq Branch, B # Branch
  PROVE  LeastFree(B) \in Branch \ B
<1>1. Branch \ B \in SUBSET Nat /\ Branch \ B # {}
  <2>1. Branch \subseteq Nat
    BY Constants DEF Branch
  <2> QED  BY <2>1
<1>2. \E b \in Branch \ B : \A c \in Branch \ B : b <= c
  BY <1>1, LeastNumber
<1> QED  BY <1>2 DEF LeastFree

-----------------------------------------------------------------------------
(* The invariant of the structures.                                        *)
Regs(c, R, W) == c \in [LogReg -> PhysReg] /\ R \in SUBSET PhysReg /\ W \in SUBSET PhysReg
StructInv ==
  /\ StageOK(stage, lane) /\ Drained(stage, lane, Execution_Lanes)
  /\ Regs(committed, PRF_ready, PRF_written)
  /\ Fits(window, AL_head, Execution_Lanes, IQ, stalled)

(* StructInv is the types, the queue's lists and the places.               *)
LEMMA StructIff == StructInv <=> TypeOK /\ QueueInv /\ PlaceInv
<1>1. ASSUME StructInv PROVE TypeOK /\ QueueInv /\ PlaceInv
  <2>1. Fits(window, AL_head, Execution_Lanes, IQ, stalled)
    BY <1>1 DEF StructInv
  <2>2. /\ QueueOK(IQ, Ages(AL_head, IQ.q)) /\ WindowOK(window)
        /\ Placed(window, AL_head, Execution_Lanes, IQ.q, stalled)
        /\ Kept(window, AL_head, Execution_Lanes, IQ.q, stalled)
        /\ IsWindow(window) /\ AL_head \in ALIndex /\ LanesOK(Execution_Lanes)
        /\ IQ \in Queue /\ stalled \in SUBSET ALIndex
    BY <2>1, FitsFields
  <2>3. TypeOK
    BY <1>1, <2>2 DEF StructInv, StageOK, Regs, TypeOK, IsWindow
  <2>4. QueueInv
    BY <2>2 DEF QueueInv, QueueOK
  <2>5. PlaceInv
    BY <1>1, <2>2 DEF PlaceInv, StructInv
  <2> QED  BY <2>3, <2>4, <2>5
<1>2. ASSUME TypeOK, QueueInv, PlaceInv PROVE StructInv
  <2>1. /\ Setting(window, AL_head, Execution_Lanes, IQ.q, stalled)
        /\ IQ \in Queue /\ StageOK(stage, lane) /\ Regs(committed, PRF_ready, PRF_written)
    BY <1>2, QueueFields DEF TypeOK, Setting, IsWindow, StageOK, Regs
  <2>2. /\ Placed(window, AL_head, Execution_Lanes, IQ.q, stalled)
        /\ Kept(window, AL_head, Execution_Lanes, IQ.q, stalled)
        /\ WindowOK(window) /\ Drained(stage, lane, Execution_Lanes)
    BY <1>2 DEF PlaceInv
  <2>3. Distinct(Occupied(IQ.q), Ages(AL_head, IQ.q))
    BY <2>1, <2>2, AgesDistinct
  <2>4. QueueOK(IQ, Ages(AL_head, IQ.q))
    BY <1>2, <2>1, <2>3 DEF QueueOK, QueueInv
  <2> QED  BY <2>1, <2>2, <2>4 DEF StructInv, Fits, Housed
<1> QED  BY <1>1, <1>2

(* What StructInv says of each piece of state.                             *)
LEMMA StructFields ==
  ASSUME StructInv
  PROVE  /\ StageOK(stage, lane) /\ Drained(stage, lane, Execution_Lanes)
         /\ Regs(committed, PRF_ready, PRF_written)
         /\ Fits(window, AL_head, Execution_Lanes, IQ, stalled)
         /\ IsWindow(window) /\ AL_head \in ALIndex /\ LanesOK(Execution_Lanes)
         /\ IQ \in Queue /\ stalled \in SUBSET ALIndex
BY FitsFields DEF StructInv

(* StructInv holds initially.                                              *)
LEMMA StructInit == Init => StructInv
<1> SUFFICES ASSUME Init PROVE StructInv
  OBVIOUS
<1>1. Fits(window, AL_head, Execution_Lanes, IQ, stalled)
  BY FitsEmpty DEF Init
<1>2. StageOK(stage, lane)
  BY Constants DEF Init, StageOK, StageName
<1>3. Drained(stage, lane, Execution_Lanes)
  BY DrainedNone DEF Init
<1>4. Regs(committed, PRF_ready, PRF_written)
  BY Constants DEF Init, Regs
<1> QED  BY <1>1, <1>2, <1>3, <1>4 DEF StructInv

(* Where an instruction in flight is in the window.                        *)
LEMMA WbFlight ==
  ASSUME NEW w, NEW h, NEW L, NEW iq, NEW S, Fits(w, h, L, iq, S),
         NEW n \in Lane, L[n].wb.valid, NEW i, i = L[n].wb.index
  PROVE  /\ i \in ALIndex /\ InFlight(w, h, i) /\ PosIn(h, i) \in 1..Len(w)
         /\ ~w[PosIn(h, i)].completed /\ w[PosIn(h, i)] \in Inst
<1>1. /\ Setting(w, h, L, iq.q, S) /\ Placed(w, h, L, iq.q, S)
      /\ IsWindow(w) /\ h \in ALIndex
  BY FitsFields
<1>2. Cell(L, n, ex_depth[n]).valid /\ i = Cell(L, n, ex_depth[n]).index
      /\ ex_depth[n] \in Reg(n)
  BY WbCell, LaneDepth
<1>3. i \in ALIndex /\ InFlight(w, h, i)
  BY <1>1, <1>2, PlacedFlight
<1> QED  BY <1>1, <1>3, FlightPos

(* Retire keeps it.                                                        *)
LEMMA StageRetire ==
  ASSUME StageOK("retire", lane), NextRetire, stage = "retire", NEW L
  PROVE  StageOK(stage', lane') /\ Drained(stage', lane', L)
<1>1. CASE NextStage
  <2>1. stage' = "writeback" /\ lane' = 0
    BY <1>1 DEF NextStage, After
  <2> QED  BY <2>1, StageAfter, DrainedNone DEF StageOK, After, StageName
<1>2. CASE lane < RETIRE_WIDTH - 1 /\ lane' = lane + 1 /\ UNCHANGED stage
  <2>1. lane' \in 0..(RETIRE_WIDTH - 1) /\ stage' = "retire"
    BY <1>2, Constants DEF StageOK
  <2> QED  BY <2>1, DrainedNone DEF StageOK, StageName
<1> QED  BY <1>1, <1>2 DEF NextRetire

(* A flush leaves empty structures, which are consistent.                  *)
LEMMA StructFlush ==
  ASSUME StructInv, NEW c, c \in [LogReg -> PhysReg], squash_complete(c)
  PROVE  /\ Fits(window, AL_head, Execution_Lanes, IQ, stalled)'
         /\ Regs(committed, PRF_ready, PRF_written)'
<1>1. IQ \in Queue
  BY StructFields
<1>2. PICK L, r : L = [l \in Lane |-> EmptyLane(l)] /\ r = Flushed(IQ)
  OBVIOUS
<1>3. Fits(<<>>, 0, L, r, {})
  BY <1>1, <1>2, FitsEmpty
<1>4. /\ window' = <<>> /\ AL_head' = 0 /\ Execution_Lanes' = L /\ IQ' = r /\ stalled' = {}
      /\ committed' = c /\ PRF_ready' = PhysReg /\ PRF_written' = PhysReg
  BY <1>2 DEF squash_complete
<1> QED  BY <1>3, <1>4 DEF Regs

(* The committed map after the head.                                       *)
AfterHead(c, x) == IF x.dest_valid THEN [c EXCEPT ![x.log_reg] = x.phys_reg] ELSE c

(* The committed map stays a map after the head commits.                   *)
LEMMA AfterHeadType ==
  ASSUME NEW c \in [LogReg -> PhysReg], NEW x \in Inst
  PROVE  /\ AfterHead(c, x) \in [LogReg -> PhysReg]
         /\ \A r \in LogReg : AfterHead(c, x)[r] = IF Writes(x, r) THEN x.phys_reg ELSE c[r]
BY InstFields DEF AfterHead, Writes

(* The head of a window is its first instruction.                          *)
LEMMA HeadFields ==
  ASSUME NEW w, IsWindow(w), w # <<>>
  PROVE  Head(w) = w[1] /\ w[1] \in Inst /\ 1 \in 1..Len(w)
<1>1. Len(w) \in Nat /\ Len(w) >= 1 /\ Head(w) = w[1]
  <2>1. PICK v : v = Left(w)
    OBVIOUS
  <2> QED  BY <2>1, TailWindow, WindowSeq
<1>2. 1 \in 1..Len(w)
  BY <1>1
<1> QED  BY <1>1, <1>2, WindowSeq

(* Retire keeps StructInv: the head commits, or the machine is flushed.    *)
LEMMA StructRetire == StructInv /\ Retire => StructInv'
<1> SUFFICES ASSUME StructInv, Retire PROVE StructInv'
  OBVIOUS
<1>1. /\ StageOK(stage, lane) /\ Drained(stage, lane, Execution_Lanes)
      /\ Regs(committed, PRF_ready, PRF_written)
      /\ Fits(window, AL_head, Execution_Lanes, IQ, stalled) /\ IsWindow(window)
  BY StructFields
<1>2. stage = "retire" /\ NextRetire
  BY DEF Retire
<1>3. StageOK(stage', lane') /\ Drained(stage', lane', Execution_Lanes')
  BY <1>1, <1>2, StageRetire
<1>4. SUFFICES /\ Fits(window, AL_head, Execution_Lanes, IQ, stalled)'
               /\ Regs(committed, PRF_ready, PRF_written)'
  BY <1>3 DEF StructInv
<1>5. CASE window # <<>> /\ Head(window).completed
  <2>1. PICK x, m : x = Head(window) /\ m = AfterHead(committed, x)
    OBVIOUS
  <2>2. x = window[1] /\ x \in Inst /\ x.completed
    BY <1>1, <1>5, <2>1, HeadFields
  <2>3. m \in [LogReg -> PhysReg] /\ committed \in [LogReg -> PhysReg]
    BY <1>1, <2>1, <2>2, AfterHeadType DEF Regs
  <2>4. \/ /\ committed' = m /\ window' = Tail(window)
           /\ AL_head' = Next1(AL_head, n_active)
           /\ UNCHANGED <<prfVars, IQ, Execution_Lanes, stalled>>
        \/ squash_complete(committed)
        \/ squash_complete(m)
    BY <1>5, <2>1 DEF Retire, AfterHead
  <2>5. CASE squash_complete(committed)
    BY <2>3, <2>5, StructFlush
  <2>6. CASE squash_complete(m)
    BY <2>3, <2>6, StructFlush
  <2>7. CASE /\ committed' = m /\ window' = Tail(window)
             /\ AL_head' = Next1(AL_head, n_active)
             /\ UNCHANGED <<prfVars, IQ, Execution_Lanes, stalled>>
    <3>1. PICK v, g : v = Left(window) /\ g = Next1(AL_head, n_active)
      OBVIOUS
    <3>2. Fits(v, g, Execution_Lanes, IQ, stalled)
      BY <1>1, <1>5, <2>2, <3>1, FitsCommit
    <3>3. window' = v /\ AL_head' = g
      BY <2>7, <3>1 DEF Left
    <3> QED  BY <1>1, <2>3, <2>7, <3>2, <3>3 DEF Regs, prfVars
  <2> QED  BY <2>4, <2>5, <2>6, <2>7
<1>6. CASE ~(window # <<>> /\ Head(window).completed)
  BY <1>1, <1>6 DEF Retire, Regs, prfVars
<1> QED  BY <1>5, <1>6

(* Writeback keeps it.                                                     *)
LEMMA WrittenWb ==
  ASSUME NEW L, LanesOK(L), NEW n \in Lane, NEW N, N = Written(L, n)
  PROVE  /\ ~N[n].wb.valid
         /\ \A l \in Lane : N[l].wb.valid => l # n /\ L[l].wb.valid
<1>1. \A l \in Lane : \A d \in Reg(l) :
        Cell(N, l, d) = IF l = n /\ d = ex_depth[n] THEN NoPlace ELSE Cell(L, l, d)
  BY WrittenCells
<1>2. ASSUME NEW l \in Lane, N[l].wb.valid
      PROVE  l # n /\ L[l].wb.valid
  BY <1>1, <1>2, WbCell, LaneDepth, RegFields
<1> QED  BY <1>2

(* Writeback keeps it: completion, a resolved branch or a recovery.        *)
LEMMA StructWriteback == StructInv /\ Writeback => StructInv'
<1> SUFFICES ASSUME StructInv, Writeback PROVE StructInv'
  OBVIOUS
<1>1. /\ StageOK(stage, lane) /\ Drained(stage, lane, Execution_Lanes)
      /\ Regs(committed, PRF_ready, PRF_written)
      /\ Fits(window, AL_head, Execution_Lanes, IQ, stalled) /\ LanesOK(Execution_Lanes)
      /\ IsWindow(window) /\ IQ \in Queue
  BY StructFields
<1>2. stage = "writeback" /\ NextOf(stage, lane, stage', lane')
  BY DEF Writeback, NextLane, NextStage, NextOf
<1>3. StageOK(stage', lane') /\ lane \in Lane
  <2>1. stage # "retire"
    BY <1>2
  <2> QED  BY <1>1, <1>2, <2>1, StageNext
<1>4. Regs(committed, PRF_ready, PRF_written)' /\ AL_head' = AL_head
  BY <1>1 DEF Writeback, Regs, prfVars
<1>5. SUFFICES /\ Fits(window, AL_head, Execution_Lanes, IQ, stalled)'
               /\ \A l \in Lane : Execution_Lanes'[l].wb.valid =>
                    l # lane /\ Execution_Lanes[l].wb.valid
  <2>1. Drained(stage', lane', Execution_Lanes')
    BY <1>1, <1>2, <1>5, DrainedWriteback
  <2> QED  BY <1>3, <1>4, <1>5, <2>1 DEF StructInv
<1>6. CASE /\ ~Execution_Lanes[lane].wb.valid
           /\ UNCHANGED <<window, IQ, Execution_Lanes, stalled>>
  BY <1>1, <1>4, <1>6
<1>7. PICK i, k, b : /\ i = Execution_Lanes[lane].wb.index /\ k = PosIn(AL_head, i)
                     /\ b = window[k].branch_ID
  OBVIOUS
<1>8. Pos(i) = k /\ InstOf(Execution_Lanes[lane].wb) = window[k]
  BY <1>7 DEF Pos, PosIn, InstOf
<1>9. CASE WritebackDone
  <2>1. PICK v, M, r : /\ v = CompletedAt(window, k) /\ M = Written(Execution_Lanes, lane)
                       /\ r = LateWakeup(IQ, window[k], i)
    OBVIOUS
  <2>2. /\ Execution_Lanes[lane].wb.valid /\ ~Open(window[k])
        /\ window' = v /\ Execution_Lanes' = M /\ IQ' = r /\ stalled' = stalled
    BY <1>7, <1>8, <1>9, <2>1 DEF WritebackDone, CompletedAt, Completed
  <2>3. SameQueue(IQ, r)
    <3>1. r = InumWoken(IQ, i) \/ r = IQ
      BY <2>1 DEF LateWakeup
    <3> QED  BY <1>1, <3>1, SameQueueInum, SameQueueRefl
  <2>4. Fits(v, AL_head, M, r, stalled)
    BY <1>1, <1>3, <1>7, <2>1, <2>2, <2>3, FitsDone
  <2> QED  BY <1>1, <1>3, <1>4, <2>1, <2>2, <2>4, WrittenWb
<1>10. CASE WritebackCorrect
  <2>1. PICK v, M0, M, r : /\ v = CompletedAt(window, k) /\ M0 = Cleared(Execution_Lanes, b)
                           /\ M = Written(M0, lane) /\ r = clear_branch_bit(IQ, b)
    OBVIOUS
  <2>2. /\ Execution_Lanes[lane].wb.valid /\ Open(window[k])
        /\ window' = v /\ Execution_Lanes' = M /\ IQ' = r /\ stalled' = stalled
    BY ZenonT(30), <1>7, <1>8, <1>10, <2>1 DEF WritebackCorrect, CompletedAt, Completed, EachPlace, Cleared
  <2>3. Fits(v, AL_head, M, r, stalled)
    <3>1. BranchDone(window, AL_head, Execution_Lanes, lane, i, b)
      BY <1>3, <1>7, <2>2, WbCell DEF BranchDone
    <3> QED  BY <1>1, <1>3, <1>7, <2>1, <3>1, FitsResolved
  <2>4. /\ LanesOK(M0)
        /\ \A l \in Lane : \A d \in Reg(l) :
             Cell(M0, l, d) = ClearedPlace(b, Cell(Execution_Lanes, l, d))
    BY <1>1, <2>1, ClearedCells
  <2>5. \A l \in Lane : M0[l].wb.valid => Execution_Lanes[l].wb.valid
    BY <1>1, <2>4, WbCell, LaneDepth, CellType, ResolvedPlace
  <2>6. \A l \in Lane : M[l].wb.valid => l # lane /\ M0[l].wb.valid
    BY <1>3, <2>1, <2>4, WrittenWb
  <2> QED  BY <1>4, <2>2, <2>3, <2>5, <2>6
<1>11. CASE WritebackMispredict
  <2>1. PICK v, M0, M, r, T : /\ v = CutAt(window, k) /\ M0 = Killed(Execution_Lanes, b)
                              /\ M = Written(M0, lane) /\ r = Squashed(IQ, b)
                              /\ T = StalledBefore(stalled, AL_head, k)
    OBVIOUS
  <2>2. /\ Execution_Lanes[lane].wb.valid /\ Open(window[k])
        /\ window' = v /\ Execution_Lanes' = M /\ IQ' = r /\ stalled' = T
    BY ZenonT(30), <1>7, <1>8, <1>11, <2>1 DEF WritebackMispredict, CutAt, CompletedAt, Completed,
       EachPlace, Killed, Survivors, StalledBefore, Pos, PosIn
  <2>3. Fits(v, AL_head, M, r, T)
    <3>1. BranchDone(window, AL_head, Execution_Lanes, lane, i, b)
      BY <1>3, <1>7, <2>2, WbCell DEF BranchDone
    <3> QED  BY <1>1, <1>3, <1>7, <2>1, <3>1, FitsCut
  <2>4. /\ LanesOK(M0)
        /\ \A l \in Lane : \A d \in Reg(l) :
             Cell(M0, l, d) = KilledPlace(b, Cell(Execution_Lanes, l, d))
    BY <1>1, <2>1, KilledCells
  <2>5. \A l \in Lane : M0[l].wb.valid => Execution_Lanes[l].wb.valid
    BY <1>1, <2>4, WbCell, LaneDepth, CellType, RegFields DEF KilledPlace
  <2>6. \A l \in Lane : M[l].wb.valid => l # lane /\ M0[l].wb.valid
    BY <1>3, <2>1, <2>4, WrittenWb
  <2> QED  BY <1>4, <2>2, <2>3, <2>5, <2>6
<1> QED  BY <1>6, <1>9, <1>10, <1>11 DEF Writeback

(* load_replay() keeps it.                                                 *)
LEMMA StalledFlight ==
  ASSUME NEW w, NEW h, NEW L, NEW iq, NEW S, Fits(w, h, L, iq, S), NEW i \in S
  PROVE  /\ i \in ALIndex /\ InFlight(w, h, i) /\ PosIn(h, i) \in 1..Len(w)
         /\ ~w[PosIn(h, i)].completed /\ w[PosIn(h, i)] \in Inst
         /\ w[PosIn(h, i)].kind = "load"
<1>1. /\ Setting(w, h, L, iq.q, S) /\ Placed(w, h, L, iq.q, S)
      /\ IsWindow(w) /\ h \in ALIndex /\ Kept(w, h, L, iq.q, S)
  BY FitsFields
<1>2. i \in ALIndex /\ InFlight(w, h, i)
  BY <1>1, PlacedFlight
<1> QED  BY <1>1, <1>2, FlightPos DEF Kept

(* A replayed load goes to Writeback, which keeps StructInv.               *)
LEMMA StructReplay == StructInv /\ load_replay => StructInv'
<1> SUFFICES ASSUME StructInv, load_replay PROVE StructInv'
  OBVIOUS
<1>1. /\ StageOK(stage, lane) /\ Drained(stage, lane, Execution_Lanes)
      /\ Regs(committed, PRF_ready, PRF_written)
      /\ Fits(window, AL_head, Execution_Lanes, IQ, stalled) /\ IQ \in Queue
  BY StructFields
<1>2. /\ stage = "load_replay" /\ stage' = "execute" /\ lane' = 0
      /\ committed' = committed /\ AL_head' = AL_head /\ Execution_Lanes' = Execution_Lanes
  BY DEF load_replay, NextStage, After
<1>3. Drained(stage', lane', Execution_Lanes')
  BY <1>1, <1>2, DrainedReplay
<1>4. StageOK(stage', lane')
  BY <1>2, StageAfter DEF StageOK, After, StageName
<1>5. CASE \E i \in stalled : ServeLoad(i)
  <2>1. PICK i \in stalled : ServeLoad(i)
    BY <1>5
  <2>2. PICK k, x, v, T, r : /\ k = PosIn(AL_head, i) /\ x = window[k]
                             /\ v = CompletedAt(window, k) /\ T = stalled \ {i}
                             /\ r = Woken(IQ, Broadcast(x))
    OBVIOUS
  <2>3. /\ window' = v /\ stalled' = T /\ IQ' = r
        /\ PRF_ready' = PRF_ready \cup Broadcast(x)
        /\ PRF_written' = PRF_written \cup Dest(x)
    BY <2>1, <2>2 DEF ServeLoad, Pos, PosIn, CompletedAt, Completed
  <2>4. x \in Inst
    BY <1>1, <2>2, StalledFlight
  <2>5. Dest(x) \in SUBSET PhysReg /\ Broadcast(x) \in SUBSET PhysReg
    BY <2>4, InstFields
  <2>6. Regs(committed', PRF_ready', PRF_written')
    BY <1>1, <1>2, <2>3, <2>5 DEF Regs
  <2>7. SameQueue(IQ, r)
    BY <1>1, <2>2, <2>5, SameQueueWoken
  <2>8. Fits(v, AL_head, Execution_Lanes, r, T)
    BY <1>1, <2>2, <2>7, FitsServed
  <2> QED  BY <1>2, <1>3, <1>4, <2>3, <2>6, <2>8 DEF StructInv
<1>6. CASE UNCHANGED <<window, stalled, IQ, prfVars>>
  BY <1>1, <1>2, <1>3, <1>4, <1>6 DEF StructInv, prfVars, Regs
<1> QED  BY <1>5, <1>6 DEF load_replay

(* The instruction of a pipeline register.                                 *)
LEMMA CellFlight ==
  ASSUME NEW w, NEW h, NEW L, NEW iq, NEW S, Fits(w, h, L, iq, S),
         NEW l \in Lane, NEW d \in Reg(l), NEW c, c = Cell(L, l, d), c.valid
  PROVE  /\ c.index \in ALIndex /\ InFlight(w, h, c.index)
         /\ PosIn(h, c.index) \in 1..Len(w) /\ w[PosIn(h, c.index)] \in Inst
         /\ ~w[PosIn(h, c.index)].completed
<1>1. /\ Setting(w, h, L, iq.q, S) /\ Placed(w, h, L, iq.q, S)
      /\ IsWindow(w) /\ h \in ALIndex
  BY FitsFields
<1>2. c.index \in ALIndex /\ InFlight(w, h, c.index)
  BY <1>1, PlacedFlight
<1> QED  BY <1>1, <1>2, FlightPos

(* An execute stage is a cell of its lane.                                 *)
LEMMA ExCell ==
  ASSUME NEW L, NEW l \in Lane, NEW d \in 0..(ex_depth[l] - 1)
  PROVE  Cell(L, l, d) = L[l].ex[d] /\ d \in Reg(l)
BY LaneDepth DEF Cell

(* The register before Register Read is a cell of its lane.                *)
LEMMA RrCell ==
  ASSUME NEW L, NEW l \in Lane, NEW d, d = -1
  PROVE  Cell(L, l, d) = L[l].rr /\ d \in Reg(l)
BY LaneDepth DEF Cell

(* What Execute does: the register before Writeback, whether its           *)
(* instruction goes on, and what is broadcast.                             *)
LastOf(L, n) == L[n].ex[ex_depth[n] - 1]
InstIn(w, h, c) == w[PosIn(h, c.index)]
Goes(w, h, L, n, hit) ==
  LastOf(L, n).valid /\ (InstIn(w, h, LastOf(L, n)).kind = "load" => hit)
Hits(w, h, L, n, hit) ==
  IF LastOf(L, n).valid /\ InstIn(w, h, LastOf(L, n)).kind = "load" /\ hit
    THEN Broadcast(InstIn(w, h, LastOf(L, n))) ELSE {}
Nears(w, h, L, n) ==
  LET c == L[n].ex[(ex_depth[n] - 1) - 1] IN
  IF ex_depth[n] - 1 > 0 /\ c.valid /\ InstIn(w, h, c).kind # "load"
    THEN Broadcast(InstIn(w, h, c)) ELSE {}

(* What Execute assigns, in those terms.                                   *)
LEMMA ExecuteFields ==
  ASSUME NEW hit \in BOOLEAN, Execute(hit),
         NEW c, c = LastOf(Execution_Lanes, lane), NEW x, x = InstIn(window, AL_head, c),
         NEW p, p = (IF Goes(window, AL_head, Execution_Lanes, lane, hit) THEN c
                     ELSE Execution_Lanes[lane].wb),
         NEW W, W = Hits(window, AL_head, Execution_Lanes, lane, hit)
                      \cup Nears(window, AL_head, Execution_Lanes, lane)
  PROVE  /\ stage = "execute" /\ NextOf(stage, lane, stage', lane')
         /\ ~hit => c.valid /\ x.kind = "load"
         /\ stalled' = (IF c.valid /\ ~Goes(window, AL_head, Execution_Lanes, lane, hit)
                          THEN stalled \cup {c.index} ELSE stalled)
         /\ IQ' = Woken(IQ, W) /\ PRF_ready' = PRF_ready \cup W
         /\ PRF_written' = (IF c.valid THEN PRF_written \cup Executed(x, hit) ELSE PRF_written)
         /\ Execution_Lanes' = Advanced(Execution_Lanes, lane, p)
         /\ committed' = committed /\ window' = window /\ AL_head' = AL_head
<1>1. /\ stage = "execute" /\ NextOf(stage, lane, stage', lane')
      /\ committed' = committed /\ window' = window /\ AL_head' = AL_head
  BY ZenonT(30) DEF Execute, NextLane, NextStage, NextOf
<1>2. \A q : InstOf(q) = InstIn(window, AL_head, q)
  BY DEF InstOf, InstIn, Pos, PosIn
<1>3. ~hit => c.valid /\ x.kind = "load"
  BY ZenonT(30), <1>2 DEF Execute, LastOf
<1>4. stalled' = IF c.valid /\ ~hit THEN stalled \cup {c.index} ELSE stalled
  BY ZenonT(30) DEF Execute, LastOf
<1>5. c.valid /\ ~Goes(window, AL_head, Execution_Lanes, lane, hit) <=> c.valid /\ ~hit
  BY <1>3 DEF Goes
<1>6. stalled' = IF c.valid /\ ~Goes(window, AL_head, Execution_Lanes, lane, hit)
                   THEN stalled \cup {c.index} ELSE stalled
  BY <1>4, <1>5
<1>7. IQ' = Woken(IQ, W) /\ PRF_ready' = PRF_ready \cup W
  BY ZenonT(30), <1>2 DEF Execute, LastOf, Hits, Nears
<1>8. PRF_written' = IF c.valid THEN PRF_written \cup Executed(x, hit) ELSE PRF_written
  BY ZenonT(30), <1>2 DEF Execute, LastOf
<1>9. Execution_Lanes' = Advanced(Execution_Lanes, lane, p)
  <2>1. Goes(window, AL_head, Execution_Lanes, lane, hit) <=>
          c.valid /\ (InstOf(c).kind = "load" => hit)
    BY <1>2 DEF Goes
  <2>2. p = IF c.valid /\ (InstOf(c).kind = "load" => hit) THEN c ELSE Execution_Lanes[lane].wb
    BY <2>1
  <2>3. c = Execution_Lanes[lane].ex[ex_depth[lane] - 1]
    BY DEF LastOf
  <2> QED  BY ZenonT(30), <2>2, <2>3 DEF Execute, Advanced
<1> QED  BY <1>1, <1>3, <1>6, <1>7, <1>8, <1>9

(* What it broadcasts are registers.                                       *)
LEMMA WokenRegs ==
  ASSUME NEW w, NEW h, NEW L, NEW iq, NEW S, Fits(w, h, L, iq, S), NEW n \in Lane, NEW hit
  PROVE  /\ Hits(w, h, L, n, hit) \in SUBSET PhysReg /\ Nears(w, h, L, n) \in SUBSET PhysReg
         /\ LastOf(L, n) \in LaneReg
         /\ LastOf(L, n).valid => Executed(InstIn(w, h, LastOf(L, n)), hit) \in SUBSET PhysReg
<1>1. PICK d : d = ex_depth[n] - 1
  OBVIOUS
<1>2. d \in 0..(ex_depth[n] - 1) /\ (d > 0 => d - 1 \in 0..(ex_depth[n] - 1))
  BY <1>1, LaneDepth
<1>3. ASSUME NEW s \in 0..(ex_depth[n] - 1), L[n].ex[s].valid
      PROVE  InstIn(w, h, L[n].ex[s]) \in Inst
  BY <1>3, ExCell, CellFlight DEF InstIn
<1>4. LastOf(L, n).valid => InstIn(w, h, LastOf(L, n)) \in Inst
  BY <1>1, <1>2, <1>3 DEF LastOf
<1>5. Hits(w, h, L, n, hit) \in SUBSET PhysReg
  BY <1>4, InstFields DEF Hits
<1>6. Nears(w, h, L, n) \in SUBSET PhysReg
  BY <1>1, <1>2, <1>3, InstFields DEF Nears
<1>7. LastOf(L, n).valid => Executed(InstIn(w, h, LastOf(L, n)), hit) \in SUBSET PhysReg
  BY <1>4, InstFields DEF Executed
<1>8. LastOf(L, n) \in LaneReg
  BY <1>1, <1>2, FitsFields, CellType DEF LastOf
<1> QED  BY <1>5, <1>6, <1>7, <1>8

(* Execute keeps StructInv.                                                *)
LEMMA StructExecute ==
  ASSUME StructInv, NEW hit \in BOOLEAN, Execute(hit)
  PROVE  StructInv'
<1>1. /\ StageOK(stage, lane) /\ Drained(stage, lane, Execution_Lanes)
      /\ Regs(committed, PRF_ready, PRF_written)
      /\ Fits(window, AL_head, Execution_Lanes, IQ, stalled) /\ IQ \in Queue
      /\ LanesOK(Execution_Lanes)
  BY StructFields
<1>2. PICK w, h, L, n, c, x, W :
        /\ w = window /\ h = AL_head /\ L = Execution_Lanes /\ n = lane
        /\ c = LastOf(L, n) /\ x = InstIn(w, h, c)
        /\ W = Hits(w, h, L, n, hit) \cup Nears(w, h, L, n)
  OBVIOUS
<1>3. /\ stage = "execute" /\ NextOf(stage, lane, stage', lane')
      /\ ~hit => c.valid /\ x.kind = "load"
      /\ stalled' = (IF c.valid /\ ~Goes(w, h, L, n, hit) THEN stalled \cup {c.index}
                     ELSE stalled)
      /\ IQ' = Woken(IQ, W) /\ PRF_ready' = PRF_ready \cup W
      /\ PRF_written' = (IF c.valid THEN PRF_written \cup Executed(x, hit) ELSE PRF_written)
      /\ Execution_Lanes' = Advanced(L, n, IF Goes(w, h, L, n, hit) THEN c ELSE L[n].wb)
      /\ committed' = committed /\ window' = w /\ AL_head' = h
  <2>1. PICK p : p = IF Goes(w, h, L, n, hit) THEN c ELSE L[n].wb
    OBVIOUS
  <2> QED  BY <1>2, <2>1, ExecuteFields
<1>4. StageOK(stage', lane') /\ n \in Lane
  <2>1. stage # "retire"
    BY <1>3
  <2> QED  BY <1>1, <1>2, <1>3, <2>1, StageNext
<1>5. /\ W \in SUBSET PhysReg /\ c \in LaneReg
      /\ c.valid => Executed(x, hit) \in SUBSET PhysReg
  BY <1>1, <1>2, <1>4, WokenRegs
<1>6. Regs(committed', PRF_ready', PRF_written')
  BY <1>1, <1>3, <1>5 DEF Regs
<1>7. PICK goes \in BOOLEAN : goes <=> Goes(w, h, L, n, hit)
  BY DEF Goes
<1>8. PICK p, M, T, r : /\ p = (IF goes THEN c ELSE L[n].wb) /\ M = Advanced(L, n, p)
                        /\ T = (IF c.valid /\ ~goes THEN stalled \cup {c.index} ELSE stalled)
                        /\ r = Woken(IQ, W)
  OBVIOUS
<1>9. Execution_Lanes' = M /\ stalled' = T /\ IQ' = r
  BY <1>3, <1>7, <1>8
<1>10. SameQueue(IQ, r)
  BY <1>1, <1>5, <1>8, SameQueueWoken
<1>11. ~L[n].wb.valid
  <2>1. n >= n
    BY <1>4, LaneDepth
  <2> QED  BY <1>1, <1>2, <1>3, <1>4, <2>1 DEF Drained
<1>12. /\ goes => c.valid
       /\ c.valid /\ ~goes => w[PosIn(h, c.index)].kind = "load"
  BY <1>2, <1>7 DEF Goes, InstIn
<1>13. Fits(w, h, M, r, T)
  <2>1. c = L[n].ex[ex_depth[n] - 1]
    BY <1>2 DEF LastOf
  <2>2. Fits(w, h, L, IQ, stalled)
    BY <1>1, <1>2
  <2>3. LastGoes(w, h, L, stalled, n, c, goes, p, T)
    BY <1>7, <1>8, <1>11, <1>12, <2>1 DEF LastGoes
  <2> QED  BY ONLY <1>4, <1>8, <1>10, <2>2, <2>3, FitsExecuted
<1>14. /\ \A l \in Lane : l # n => M[l] = L[l]
       /\ ~M[n].ex[0].valid
  <2>1. p \in LaneReg
    BY <1>1, <1>2, <1>4, <1>5, <1>8, CellType
  <2>2. PICK d0 : d0 = ex_depth[n] - 1
    OBVIOUS
  <2>3. /\ LanesOK(M)
        /\ \A d \in Reg(n) : d # -1 /\ d # ex_depth[n] /\ d = 0 => Cell(M, n, d) = NoPlace
    BY <1>1, <1>2, <1>4, <1>8, <2>1, <2>2, ExecutedCells
  <2>4. 0 \in 0..(ex_depth[n] - 1)
    BY <1>4, LaneDepth
  <2>5. Cell(M, n, 0) = M[n].ex[0] /\ 0 \in Reg(n)
    BY <1>4, <2>4, ExCell
  <2>6. 0 # -1 /\ 0 # ex_depth[n]
    BY <1>4, LaneDepth
  <2>7. ~M[n].ex[0].valid
    BY <2>3, <2>5, <2>6, RegFields
  <2>8. \A l \in Lane : l # n => M[l] = L[l]
    BY <1>1, <1>2, <1>8 DEF Advanced, LanesOK
  <2> QED  BY <2>7, <2>8
<1>15. Drained(stage', lane', Execution_Lanes')
  BY <1>1, <1>2, <1>3, <1>9, <1>14, DrainedExecute
<1> QED  BY <1>3, <1>2, <1>4, <1>6, <1>9, <1>13, <1>15 DEF StructInv

(* Register Read keeps it.                                                 *)
Reads(w, h, L, n) ==
  IF L[n].rr.valid /\ Early(n) /\ InstIn(w, h, L[n].rr).kind # "load"
    THEN Broadcast(InstIn(w, h, L[n].rr)) ELSE {}

(* What Register Read assigns.                                             *)
LEMMA ReadFields ==
  ASSUME register_read, NEW p, p = Execution_Lanes[lane].rr,
         NEW W, W = Reads(window, AL_head, Execution_Lanes, lane)
  PROVE  /\ stage = "register_read" /\ NextOf(stage, lane, stage', lane')
         /\ IQ' = Woken(IQ, W) \/ IQ' = InumWoken(Woken(IQ, W), p.index)
         /\ PRF_ready' = PRF_ready \cup W
         /\ p.valid => Execution_Lanes' = ReadFrom(Execution_Lanes, lane, p)
         /\ ~p.valid => Execution_Lanes' = Execution_Lanes
         /\ committed' = committed /\ window' = window /\ AL_head' = AL_head
         /\ PRF_written' = PRF_written /\ stalled' = stalled
<1>1. /\ stage = "register_read" /\ NextOf(stage, lane, stage', lane')
      /\ committed' = committed /\ window' = window /\ AL_head' = AL_head
      /\ PRF_written' = PRF_written /\ stalled' = stalled
  BY DEF register_read, NextLane, NextStage, NextOf
<1>2. \A q : InstOf(q) = InstIn(window, AL_head, q)
  BY DEF InstOf, InstIn, Pos, PosIn
<1>3. IQ' = Woken(IQ, W) \/ IQ' = InumWoken(Woken(IQ, W), p.index)
  BY <1>2 DEF register_read, Reads
<1>4. PRF_ready' = PRF_ready \cup W
  BY <1>2 DEF register_read, Reads, SetsReady
<1>5. /\ p.valid => Execution_Lanes' = ReadFrom(Execution_Lanes, lane, p)
      /\ ~p.valid => Execution_Lanes' = Execution_Lanes
  BY DEF register_read, ReadFrom
<1> QED  BY <1>1, <1>3, <1>4, <1>5

(* What Register Read broadcasts are registers.                            *)
LEMMA ReadRegs ==
  ASSUME NEW w, NEW h, NEW L, NEW iq, NEW S, Fits(w, h, L, iq, S), NEW n \in Lane
  PROVE  Reads(w, h, L, n) \in SUBSET PhysReg
<1>1. PICK d : d = -1
  OBVIOUS
<1>2. L[n].rr.valid => InstIn(w, h, L[n].rr) \in Inst
  BY <1>1, RrCell, CellFlight DEF InstIn
<1> QED  BY <1>2, InstFields DEF Reads

(* Register Read keeps StructInv.                                          *)
LEMMA StructRead == StructInv /\ register_read => StructInv'
<1> SUFFICES ASSUME StructInv, register_read PROVE StructInv'
  OBVIOUS
<1>1. /\ StageOK(stage, lane) /\ Drained(stage, lane, Execution_Lanes)
      /\ Regs(committed, PRF_ready, PRF_written)
      /\ Fits(window, AL_head, Execution_Lanes, IQ, stalled) /\ IQ \in Queue
      /\ LanesOK(Execution_Lanes)
  BY StructFields
<1>2. PICK p, W : p = Execution_Lanes[lane].rr
                  /\ W = Reads(window, AL_head, Execution_Lanes, lane)
  OBVIOUS
<1>3. /\ stage = "register_read" /\ NextOf(stage, lane, stage', lane')
      /\ IQ' = Woken(IQ, W) \/ IQ' = InumWoken(Woken(IQ, W), p.index)
      /\ PRF_ready' = PRF_ready \cup W
      /\ p.valid => Execution_Lanes' = ReadFrom(Execution_Lanes, lane, p)
      /\ ~p.valid => Execution_Lanes' = Execution_Lanes
      /\ committed' = committed /\ window' = window /\ AL_head' = AL_head
      /\ PRF_written' = PRF_written /\ stalled' = stalled
  BY <1>2, ReadFields
<1>4. StageOK(stage', lane') /\ lane \in Lane
  <2>1. stage # "retire"
    BY <1>3
  <2> QED  BY <1>1, <1>3, <2>1, StageNext
<1>5. W \in SUBSET PhysReg
  BY <1>1, <1>2, <1>4, ReadRegs
<1>6. Regs(committed', PRF_ready', PRF_written')
  BY <1>1, <1>3, <1>5 DEF Regs
<1>7. PICK u, r : u = Woken(IQ, W) /\ r = IQ'
  OBVIOUS
<1>8. SameQueue(IQ, r)
  <2>1. SameQueue(IQ, u) /\ u \in Queue
    BY <1>1, <1>5, <1>7, SameQueueWoken DEF SameQueue
  <2>2. CASE r = u
    BY <2>1, <2>2
  <2>3. CASE r = InumWoken(u, p.index)
    <3>1. SameQueue(u, r)
      BY <2>1, <2>3, SameQueueInum
    <3> QED  BY <2>1, <3>1, SameQueueTrans
  <2> QED  BY <1>3, <1>7, <2>2, <2>3
<1>9. ~Execution_Lanes[lane].ex[0].valid
  <2>1. lane >= lane
    BY <1>4, LaneDepth
  <2> QED  BY <1>1, <1>3, <1>4, <2>1 DEF Drained
<1>10. SUFFICES /\ Fits(window, AL_head, Execution_Lanes', r, stalled)
                /\ \A l \in Lane : l # lane => Execution_Lanes'[l] = Execution_Lanes[l]
  <2>1. Drained(stage', lane', Execution_Lanes')
    BY <1>1, <1>3, <1>10, DrainedRead
  <2> QED  BY <1>3, <1>4, <1>6, <1>7, <1>10, <2>1 DEF StructInv
<1>11. CASE p.valid
  <2>1. PICK M : M = ReadFrom(Execution_Lanes, lane, p)
    OBVIOUS
  <2>2. Execution_Lanes' = M
    BY <1>3, <1>11, <2>1
  <2>3. Fits(window, AL_head, M, r, stalled)
    BY <1>1, <1>2, <1>4, <1>8, <1>9, <1>11, <2>1, FitsRead
  <2>4. \A l \in Lane : l # lane => M[l] = Execution_Lanes[l]
    BY <1>1, <2>1 DEF ReadFrom, LanesOK
  <2> QED  BY <2>2, <2>3, <2>4
<1>12. CASE ~p.valid
  <2>1. Fits(window, AL_head, Execution_Lanes, r, stalled)
    BY <1>1, <1>8, FitsSame
  <2> QED  BY <1>3, <1>12, <2>1
<1> QED  BY <1>11, <1>12

(* Schedule keeps it.                                                      *)
LEMMA IssueFields ==
  ASSUME StructInv, Issue
  PROVE  \E s \in Occupied(IQ.q), n \in Lane, p \in LaneReg :
           /\ stage = "schedule" /\ IQ.q[s].ready = IQ.q[s].tags
           /\ ~Execution_Lanes[n].rr.valid
           /\ p.valid /\ p.index = IQ.q[s].index /\ p.branch_mask = IQ.q[s].branch_mask
           /\ IQ' = Removed(IQ, s) /\ Execution_Lanes' = IssuedTo(Execution_Lanes, n, p)
           /\ UNCHANGED <<cycleVars, committed, window, AL_head, prfVars, stalled>>
<1>1. IQ \in Queue
  BY StructFields
<1>2. PICK s, C : s = Selected(IQ, FreeLanes) /\ C = IQ.q[s].lane_id \cap FreeLanes
  OBVIOUS
<1>3. s \in Occupied(IQ.q) /\ IQ.q[s].ready = IQ.q[s].tags /\ C # {}
  BY <1>1, <1>2, SelectedReady DEF Issue
<1>4. PICK n : n = CHOOSE c \in C : \A m \in C : c <= m
  OBVIOUS
<1>5. C \subseteq Lane /\ \A c \in C : ~Execution_Lanes[c].rr.valid
  BY <1>2 DEF FreeLanes
<1>6. n \in C
  <2>1. Lane \subseteq Nat
    BY Constants DEF Lane
  <2>2. C \in SUBSET Nat
    BY <1>5, <2>1
  <2>3. \E c \in C : \A m \in C : c <= m
    BY <1>3, <2>2, LeastNumber
  <2> QED  BY <1>4, <2>3
<1>7. PICK p : p = [valid |-> TRUE, index |-> IQ.q[s].index,
                    branch_mask |-> IQ.q[s].branch_mask]
  OBVIOUS
<1>8. s \in Slot /\ IQ.q[s] \in Entry
  BY <1>1, <1>3, QueueFields DEF Occupied
<1>9. /\ p \in LaneReg /\ p.valid /\ p.index = IQ.q[s].index
      /\ p.branch_mask = IQ.q[s].branch_mask
  BY <1>7, <1>8, EntryFields DEF LaneReg
<1>10. /\ stage = "schedule" /\ IQ' = Removed(IQ, s)
       /\ Execution_Lanes' = IssuedTo(Execution_Lanes, n, p)
       /\ UNCHANGED <<cycleVars, committed, window, AL_head, prfVars, stalled>>
  BY <1>2, <1>4, <1>7 DEF Issue, IssuedTo
<1> QED  BY <1>3, <1>5, <1>6, <1>9, <1>10

(* Issue keeps StructInv: the entry leaves the queue for its lane.         *)
LEMMA StructIssue == StructInv /\ Issue => StructInv'
<1> SUFFICES ASSUME StructInv, Issue PROVE StructInv'
  OBVIOUS
<1>1. /\ StageOK(stage, lane)
      /\ Regs(committed, PRF_ready, PRF_written)
      /\ Fits(window, AL_head, Execution_Lanes, IQ, stalled)
  BY StructFields
<1>2. PICK s \in Occupied(IQ.q), n \in Lane, p \in LaneReg :
        /\ stage = "schedule" /\ ~Execution_Lanes[n].rr.valid
        /\ p.valid /\ p.index = IQ.q[s].index /\ p.branch_mask = IQ.q[s].branch_mask
        /\ IQ' = Removed(IQ, s) /\ Execution_Lanes' = IssuedTo(Execution_Lanes, n, p)
        /\ UNCHANGED <<cycleVars, committed, window, AL_head, prfVars, stalled>>
  BY IssueFields
<1>3. PICK M, r : M = IssuedTo(Execution_Lanes, n, p) /\ r = Removed(IQ, s)
  OBVIOUS
<1>4. Fits(window, AL_head, M, r, stalled)
  BY <1>1, <1>2, <1>3, FitsIssued
<1>5. Drained(stage', lane', Execution_Lanes')
  BY <1>2, DrainedNone DEF cycleVars
<1> QED  BY <1>1, <1>2, <1>3, <1>4, <1>5 DEF StructInv, Regs, cycleVars, prfVars

(* The end of Schedule keeps it.                                           *)
LEMMA StructEndSchedule == StructInv /\ EndSchedule => StructInv'
<1> SUFFICES ASSUME StructInv, EndSchedule PROVE StructInv'
  OBVIOUS
<1>1. /\ Regs(committed, PRF_ready, PRF_written)
      /\ Fits(window, AL_head, Execution_Lanes, IQ, stalled) /\ IQ \in Queue
  BY StructFields
<1>2. /\ stage' = "dispatch" /\ lane' = 0 /\ IQ' = NextPartition(IQ)
      /\ UNCHANGED <<committed, window, AL_head, prfVars, Execution_Lanes, stalled>>
  BY DEF EndSchedule, NextStage, After
<1>3. PICK r : r = NextPartition(IQ)
  OBVIOUS
<1>4. Fits(window, AL_head, Execution_Lanes, r, stalled)
  BY <1>1, <1>3, SameQueueNext, FitsSame
<1>5. StageOK(stage', lane') /\ Drained(stage', lane', Execution_Lanes')
  BY <1>2, StageAfter, DrainedNone, Constants DEF StageOK, StageName
<1> QED  BY <1>1, <1>2, <1>3, <1>4, <1>5 DEF StructInv, Regs, prfVars

(* The end of Dispatch keeps it.                                           *)
LEMMA StructEndDispatch == StructInv /\ EndDispatch => StructInv'
<1> SUFFICES ASSUME StructInv, EndDispatch PROVE StructInv'
  OBVIOUS
<1>1. /\ Regs(committed, PRF_ready, PRF_written)
      /\ Fits(window, AL_head, Execution_Lanes, IQ, stalled)
  BY StructFields
<1>2. /\ stage' = "retire" /\ lane' = 0
      /\ UNCHANGED <<committed, window, AL_head, prfVars, IQ, Execution_Lanes, stalled>>
  BY DEF EndDispatch, NextStage, After
<1>3. StageOK(stage', lane') /\ Drained(stage', lane', Execution_Lanes')
  BY <1>2, DrainedNone, Constants DEF StageOK, StageName
<1> QED  BY <1>1, <1>2, <1>3 DEF StructInv, Regs, prfVars

(* Dispatch: x is the instruction and e its entry.                         *)
Enters(x, e) ==
  /\ stage = "dispatch" /\ Len(window) < n_active
  /\ x \in Inst /\ e \in Entry
  /\ \A t \in x.tags : \E s \in LogReg : t = Map[s]
  /\ x.dest_valid => x.phys_reg \in Free
  /\ x.completed => x.tags = {} /\ ~x.dest_valid
  /\ Open(x) => x.kind = "branch" /\ x.branch_ID \notin OpenIn(window, Len(window) + 1)
  /\ ~x.completed => ~stall(IQ, 1)
  /\ e.index = AtIn(AL_head, Len(window) + 1) /\ e.tags = x.tags
  /\ e.branch_mask = OpenIn(window, Len(window) + 1) /\ e.ready = x.tags \cap PRF_ready
  /\ window' = Entered(window, x)
  /\ IQ' = IF x.completed THEN IQ ELSE Dispatched(IQ, e)
  /\ PRF_ready' = IF ~x.dest_valid THEN PRF_ready
                  ELSE IF x.predicted THEN PRF_ready \cup {x.phys_reg}
                                      ELSE PRF_ready \ {x.phys_reg}
  /\ PRF_written' = IF ~x.dest_valid THEN PRF_written
                    ELSE IF x.predicted THEN PRF_written \cup {x.phys_reg}
                                        ELSE PRF_written \ {x.phys_reg}
  /\ UNCHANGED <<cycleVars, committed, AL_head, Execution_Lanes, stalled>>

EntryOf(i, M, F, T, R, m, y) ==
  [Blank EXCEPT !.index = i, !.branch_mask = M, !.lane_id = F, !.tags = T,
                !.ready = R, !.inum = m, !.inum_ready = y]

(* An entry made at dispatch has the type of an entry.                     *)
LEMMA BlankEntry ==
  ASSUME NEW i \in ALIndex, NEW M \in SUBSET Branch, NEW F \in SUBSET Lane,
         NEW T \in SUBSET PhysReg, NEW R \in SUBSET PhysReg,
         NEW m \in ALIndex \cup {NoInum}, NEW y \in BOOLEAN,
         NEW e, e = EntryOf(i, M, F, T, R, m, y)
  PROVE  e \in Entry /\ e.index = i /\ e.tags = T /\ e.branch_mask = M /\ e.ready = R
<1>1. e = [valid |-> FALSE, index |-> i, branch_mask |-> M, lane_id |-> F,
           tags |-> T, ready |-> R, inum |-> m, inum_ready |-> y,
           prev |-> NoSlot, next |-> NoSlot]
  BY DEF Blank, EntryOf
<1>2. FALSE \in BOOLEAN /\ NoSlot \in Slot \cup {NoSlot}
  OBVIOUS
<1>3. [valid |-> FALSE, index |-> i, branch_mask |-> M, lane_id |-> F,
       tags |-> T, ready |-> R, inum |-> m, inum_ready |-> y,
       prev |-> NoSlot, next |-> NoSlot] \in Entry
  BY <1>2, Zenon DEF Entry
<1>4. e.index = i /\ e.tags = T /\ e.branch_mask = M /\ e.ready = R
  BY ONLY <1>1
<1> QED  BY <1>1, <1>3, <1>4

(* An instruction made at dispatch has the type of an instruction.         *)
LEMMA NewInst ==
  ASSUME NEW kind \in Kind, NEW T \in SUBSET PhysReg, NEW d \in BOOLEAN, NEW r \in LogReg,
         NEW p \in PhysReg, NEW y \in BOOLEAN, NEW b \in 0..n_branches, NEW z \in BOOLEAN,
         NEW x, x = [kind |-> kind, tags |-> T, dest_valid |-> d, log_reg |-> r,
                     phys_reg |-> p, predicted |-> y, branch_ID |-> b, completed |-> z]
  PROVE  /\ x \in Inst /\ x.kind = kind /\ x.tags = T /\ (x.dest_valid <=> d)
         /\ x.log_reg = r /\ x.phys_reg = p /\ (x.predicted <=> y)
         /\ x.branch_ID = b /\ (x.completed <=> z)
BY DEF Inst

(* What Dispatch assigns, for some instruction and entry.                  *)
LEMMA DispatchFields ==
  ASSUME StructInv,
         NEW kind \in Kind, NEW srcs \in SUBSET LogReg, NEW dest \in BOOLEAN,
         NEW predicted \in BOOLEAN, NEW r \in LogReg, NEW p \in PhysReg,
         NEW inum \in ALIndex \cup {NoInum}, NEW lanes \in SUBSET Lane,
         Dispatch(kind, srcs, dest, r, p, predicted, inum, lanes)
  PROVE  \E x, e : Enters(x, e)
<1>1. /\ Fits(window, AL_head, Execution_Lanes, IQ, stalled)
      /\ IsWindow(window) /\ AL_head \in ALIndex
      /\ committed \in [LogReg -> PhysReg]
  BY StructFields DEF Regs
<1>2. Len(window) < n_active /\ Len(window) \in Nat /\ n_active \in Nat
  BY <1>1, WindowSeq, Constants DEF Dispatch, Room
<1>3. GBM = OpenIn(window, Len(window) + 1) /\ GBM \subseteq Branch
  <2>1. GBM = OpenIn(window, Len(window) + 1)
    BY DEF GBM, OpenBefore, OpenIn
  <2>2. Len(window) + 1 \in Int
    BY <1>2
  <2> QED  BY <1>1, <2>1, <2>2, OpenInDef
<1>4. PICK T : T = {Map[s] : s \in srcs}
  OBVIOUS
<1>5. \A s \in LogReg : Map[s] \in PhysReg
  BY <1>1, LookupMapped DEF Map
<1>6. T \in SUBSET PhysReg /\ \A t \in T : \E s \in LogReg : t = Map[s]
  BY <1>4, <1>5
<1>7. PICK q, b : /\ q = (IF dest THEN r ELSE 0)
                  /\ b = (IF kind = "branch" THEN FirstFree ELSE NoBranch)
  OBVIOUS
<1>8. PICK f : f = (IF dest THEN p ELSE 0)
  OBVIOUS
<1>9. q \in LogReg /\ f \in PhysReg
  <2>1. 0 \in LogReg /\ 0 \in PhysReg
    BY Constants DEF LogReg, PhysReg
  <2> QED  BY <1>7, <1>8, <2>1
<1>10. /\ b \in 0..n_branches
       /\ b # NoBranch => kind = "branch" /\ b \notin OpenIn(window, Len(window) + 1)
  <2>1. NoBranch \in 0..n_branches /\ Branch \subseteq 0..n_branches
    BY Constants DEF NoBranch, Branch
  <2>2. CASE kind = "branch"
    <3>1. GBM # Branch
      BY <2>2 DEF Dispatch
    <3>2. FirstFree = LeastFree(GBM)
      BY DEF FirstFree, LeastFree
    <3>3. b \in Branch \ GBM
      BY <1>3, <1>7, <2>2, <3>1, <3>2, LeastFreeID
    <3> QED  BY <1>3, <2>1, <2>2, <3>3
  <2>3. CASE kind # "branch"
    BY <1>7, <2>1, <2>3
  <2> QED  BY <2>2, <2>3
<1>11. PICK z \in BOOLEAN : z <=> kind = "nop"
  OBVIOUS
<1>12. PICK x : x = [kind |-> kind, tags |-> T, dest_valid |-> dest, log_reg |-> q,
                     phys_reg |-> f, predicted |-> predicted, branch_ID |-> b,
                     completed |-> (kind = "nop")]
  OBVIOUS
<1>13. x = [kind |-> kind, tags |-> T, dest_valid |-> dest, log_reg |-> q,
            phys_reg |-> f, predicted |-> predicted, branch_ID |-> b, completed |-> z]
  BY <1>11, <1>12
<1>14. /\ x \in Inst /\ x.kind = kind /\ x.tags = T /\ (x.dest_valid <=> dest)
       /\ x.log_reg = q /\ x.phys_reg = f /\ (x.predicted <=> predicted)
       /\ x.branch_ID = b /\ (x.completed <=> z)
  BY <1>6, <1>9, <1>10, <1>13, NewInst
<1>15. PICK R, i, y : R = T \cap PRF_ready /\ i = AtIn(AL_head, Len(window) + 1)
                      /\ y = (inum = NoInum)
  OBVIOUS
<1>16. R \in SUBSET PhysReg /\ i \in ALIndex /\ y \in BOOLEAN
  <2>1. Len(window) + 1 \in 1..n_active
    BY <1>2
  <2> QED  BY <1>1, <1>6, <1>15, <2>1, AtRange
<1>17. PICK e : e = EntryOf(i, GBM, lanes, T, R, inum, y)
  OBVIOUS
<1>18. /\ e \in Entry /\ e.index = i /\ e.tags = T /\ e.branch_mask = GBM /\ e.ready = R
  BY <1>3, <1>6, <1>16, <1>17, BlankEntry
<1>19. At(Len(window) + 1) = i
  BY <1>15 DEF At, AtIn
<1>20. /\ window' = Append(window, x)
       /\ IQ' = IF kind = "nop" THEN IQ ELSE Dispatched(IQ, e)
  <2>1. window' = Append(window, x)
    BY <1>4, <1>7, <1>8, <1>12 DEF Dispatch
  <2>2. IQ' = IF kind = "nop" THEN IQ ELSE Dispatched(IQ, e)
    BY <1>4, <1>15, <1>17, <1>19 DEF Dispatch, EntryOf
  <2> QED  BY <2>1, <2>2
<1>21. /\ stage = "dispatch" /\ (kind = "nop" \/ ~stall(IQ, 1))
       /\ dest => p \in Free
       /\ kind = "nop" => srcs = {} /\ ~dest
       /\ PRF_ready' = (IF ~dest THEN PRF_ready
                        ELSE IF predicted THEN PRF_ready \cup {p} ELSE PRF_ready \ {p})
       /\ PRF_written' = (IF ~dest THEN PRF_written
                          ELSE IF predicted THEN PRF_written \cup {p}
                                            ELSE PRF_written \ {p})
       /\ UNCHANGED <<cycleVars, committed, AL_head, Execution_Lanes, stalled>>
  BY DEF Dispatch
<1>22. x.completed => x.tags = {} /\ ~x.dest_valid
  BY <1>4, <1>11, <1>14, <1>21
<1>23. Open(x) => x.kind = "branch" /\ x.branch_ID \notin OpenIn(window, Len(window) + 1)
  BY <1>10, <1>14 DEF Open
<1>24. dest => f = p
  BY <1>8
<1>25. Enters(x, e)
  BY <1>2, <1>3, <1>6, <1>11, <1>14, <1>15, <1>18, <1>20, <1>21, <1>22, <1>23, <1>24
     DEF Enters, Entered
<1> QED  BY <1>25

(* Dispatch keeps StructInv.                                               *)
LEMMA StructEnters ==
  ASSUME StructInv, NEW x, NEW e, Enters(x, e)
  PROVE  StructInv'
<1>1. /\ StageOK(stage, lane) /\ Regs(committed, PRF_ready, PRF_written)
      /\ Fits(window, AL_head, Execution_Lanes, IQ, stalled)
      /\ IsWindow(window) /\ AL_head \in ALIndex
  BY StructFields
<1>2. x \in Inst /\ e \in Entry /\ Len(window) < n_active
  BY DEF Enters
<1>3. \A j \in 1..Len(window) :
        window[j].dest_valid /\ x.dest_valid => window[j].phys_reg # x.phys_reg
  BY <1>1, UnusedFields DEF Enters, Free
<1>4. PICK v, r : v = Entered(window, x) /\ r = Dispatched(IQ, e)
  OBVIOUS
<1>5. window' = v /\ IQ' = IF x.completed THEN IQ ELSE r
  BY <1>4 DEF Enters
<1>6. CASE x.completed
  <2>1. Fits(v, AL_head, Execution_Lanes, IQ, stalled)
    BY <1>1, <1>2, <1>3, <1>4, <1>6, FitsNop
  <2> QED  BY <1>5, <1>6, <2>1, <1>1, <1>2, InstFields, DrainedNone
           DEF StructInv, Regs, Enters, cycleVars
<1>7. CASE ~x.completed
  <2>1. /\ Open(x) => x.kind = "branch" /\ x.branch_ID \notin OpenIn(window, Len(window) + 1)
        /\ ~stall(IQ, 1) /\ e.index = AtIn(AL_head, Len(window) + 1) /\ e.tags = x.tags
        /\ e.branch_mask = OpenIn(window, Len(window) + 1)
    BY <1>7 DEF Enters
  <2>2. Fits(v, AL_head, Execution_Lanes, r, stalled)
    BY <1>1, <1>2, <1>3, <1>4, <1>7, <2>1, FitsEntered
  <2> QED  BY <1>5, <1>7, <2>2, <1>1, <1>2, InstFields, DrainedNone
           DEF StructInv, Regs, Enters, cycleVars
<1> QED  BY <1>6, <1>7

(* Every step keeps it.                                                    *)
LEMMA StructStep == StructInv /\ [Next]_vars => StructInv'
<1> SUFFICES ASSUME StructInv, [Next]_vars PROVE StructInv'
  OBVIOUS
<1>1. CASE Retire
  BY <1>1, StructRetire
<1>2. CASE Writeback
  BY <1>2, StructWriteback
<1>3. CASE load_replay
  BY <1>3, StructReplay
<1>4. CASE \E hit \in BOOLEAN : Execute(hit)
  BY <1>4, StructExecute
<1>5. CASE register_read
  BY <1>5, StructRead
<1>6. CASE Issue
  BY <1>6, StructIssue
<1>7. CASE EndSchedule
  BY <1>7, StructEndSchedule
<1>8. CASE EndDispatch
  BY <1>8, StructEndDispatch
<1>9. ASSUME NEW kind \in Kind, NEW srcs \in SUBSET LogReg, NEW dest \in BOOLEAN,
             NEW predicted \in BOOLEAN, NEW r \in LogReg, NEW p \in PhysReg,
             NEW inum \in ALIndex \cup {NoInum}, NEW lanes \in SUBSET Lane,
             Dispatch(kind, srcs, dest, r, p, predicted, inum, lanes)
      PROVE  StructInv'
  BY <1>9, DispatchFields, StructEnters
<1>10. CASE UNCHANGED vars
  BY <1>10 DEF StructInv, vars, Regs
<1> QED  BY <1>1, <1>2, <1>3, <1>4, <1>5, <1>6, <1>7, <1>8, <1>9, <1>10 DEF Next, Cycle

(* The invariant of the structures holds always.                           *)
LEMMA StructAlways == Spec => []StructInv
<1>1. Init => StructInv
  BY StructInit
<1>2. StructInv /\ [Next]_vars => StructInv'
  BY StructStep
<1> QED  BY <1>1, <1>2, PTL DEF Spec

(* For every size of the queue, number of lanes, depth of a lane, window   *)
(* and number of registers: the state has its types, the issue queue's     *)
(* free list and linked list fit its entries, and an instruction in flight *)
(* is in exactly one entry, register or stalled load, with the branch mask *)
(* of the open branches before it (issue_queue.cc, squash.cc resolve).     *)
THEOREM StructureInvariant == Spec => [](TypeOK /\ QueueInv /\ PlaceInv)
BY StructAlways, StructIff, PTL

-----------------------------------------------------------------------------
(* The free list and the linked list agree with the entries.               *)
LEMMA OlderAges ==
  ASSUME StructInv
  PROVE  /\ Waiting = Occupied(IQ.q) /\ Waiting \subseteq Slot
         /\ \A i, j \in Slot : Older(i, j) <=> Ages(AL_head, IQ.q)[i] < Ages(AL_head, IQ.q)[j]
<1>1. AL_head \in ALIndex /\ IQ.q \in [Slot -> Entry]
  BY StructFields, FitsFields
<1>2. \A i \in Slot : Ages(AL_head, IQ.q)[i] = Pos(IQ.q[i].index)
  BY <1>1, AgesType DEF Pos, PosIn
<1> QED  BY <1>2 DEF Older, Waiting, Occupied

(* Next and previous in the linked list are so in program order.           *)
LEMMA FollowsBehind ==
  ASSUME StructInv, NEW i \in Waiting, NEW j
  PROVE  /\ Behind(Occupied(IQ.q), Ages(AL_head, IQ.q), i, j) => Follows(i, j)
         /\ Ahd(Occupied(IQ.q), Ages(AL_head, IQ.q), i, j) => Precedes(i, j)
<1>1. /\ Waiting = Occupied(IQ.q) /\ Waiting \subseteq Slot
      /\ \A a, b \in Slot : Older(a, b) <=> Ages(AL_head, IQ.q)[a] < Ages(AL_head, IQ.q)[b]
  BY OlderAges
<1>2. \A a, b \in Waiting : Older(a, b) <=> Ages(AL_head, IQ.q)[a] < Ages(AL_head, IQ.q)[b]
  BY <1>1
<1>3. PICK K : K = Ages(AL_head, IQ.q)
  OBVIOUS
<1>4. \A a, b \in Waiting : Older(a, b) <=> K[a] < K[b]
  BY ONLY <1>2, <1>3
<1>5. ASSUME Behind(Waiting, K, i, j) PROVE Follows(i, j)
  BY <1>4, <1>5, Zenon DEF Behind, Follows
<1>6. ASSUME Ahd(Waiting, K, i, j) PROVE Precedes(i, j)
  BY <1>4, <1>6, Zenon DEF Ahd, Precedes
<1> QED  BY <1>1, <1>3, <1>5, <1>6

(* The free list's slots are the invalid entries.                          *)
LEMMA FreeSlotsExact ==
  ASSUME StructInv
  PROVE  FreeSlots = Slot \ Waiting
<1>1. FreeListOK(IQ) /\ IQ \in Queue /\ Waiting = Occupied(IQ.q)
  BY StructFields, FitsFields, OlderAges DEF QueueOK
<1>2. FreeSlots = {Nth(IQ, d) : d \in 0..(IQ.fl_length - 1)}
  BY DEF FreeSlots, Nth
<1>3. \A d \in 0..(IQ.fl_length - 1) : Nth(IQ, d) \in Slot /\ ~IQ.q[Nth(IQ, d)].valid
  <2>1. ASSUME NEW d \in 0..(IQ.fl_length - 1) PROVE Nth(IQ, d) \in Slot
    <3>0. IQ.fl_head \in Slot /\ IQ.fl \in [Slot -> Slot] /\ IQ.fl_length \in 0..size
      BY <1>1, QueueFields
    <3>1. d \in 0..size
      BY <2>1, <3>0, Constants
    <3>2. Ahead(d, IQ.fl_head, size) \in Slot
      BY <3>0, <3>1, NextOfAhead
    <3> QED  BY <3>0, <3>2 DEF Nth
  <2> QED  BY <1>1, <2>1 DEF FreeListOK
<1>4. \A i \in Slot \ Waiting : \E d \in 0..(IQ.fl_length - 1) : Nth(IQ, d) = i
  BY <1>1 DEF FreeListOK
<1>5. \A d \in 0..(IQ.fl_length - 1) : Nth(IQ, d) \notin Waiting
  BY <1>3 DEF Waiting
<1> QED  BY <1>2, <1>3, <1>4, <1>5

(* StructInv gives the property of the queue's lists.                      *)
LEMMA StructQueue == StructInv => QueueConsistent
<1> SUFFICES ASSUME StructInv PROVE QueueConsistent
  OBVIOUS
<1>1. /\ FreeListOK(IQ) /\ Waiting = Occupied(IQ.q) /\ Waiting \subseteq Slot
      /\ Linked(IQ.q, Occupied(IQ.q), Ages(AL_head, IQ.q), IQ.oldest, IQ.youngest)
  BY StructFields, FitsFields, OlderAges DEF QueueOK
<1>2. PICK K : K = Ages(AL_head, IQ.q)
  OBVIOUS
<1>3. \A a, b \in Waiting : Older(a, b) <=> K[a] < K[b]
  BY <1>1, <1>2, OlderAges
<1>4. Linked(IQ.q, Waiting, K, IQ.oldest, IQ.youngest)
  BY <1>1, <1>2
<1>5. IF Waiting = {} THEN IQ.oldest = NoSlot /\ IQ.youngest = NoSlot
      ELSE /\ IQ.oldest \in Waiting /\ \A m \in Waiting : ~Older(m, IQ.oldest)
           /\ IQ.youngest \in Waiting /\ \A m \in Waiting : ~Older(IQ.youngest, m)
  BY <1>3, <1>4, Zenon DEF Linked
<1>6. \A i \in Waiting : Behind(Waiting, K, i, IQ.q[i].next) /\ Ahd(Waiting, K, i, IQ.q[i].prev)
  BY <1>4, Zenon DEF Linked
<1>7. \A i \in Waiting : Follows(i, IQ.q[i].next) /\ Precedes(i, IQ.q[i].prev)
  BY <1>1, <1>2, <1>6, FollowsBehind
<1>8. IQ.length = Cardinality(Waiting) /\ IQ.length + IQ.fl_length = size
  BY <1>1 DEF FreeListOK
<1> QED  BY <1>5, <1>7, <1>8, FreeSlotsExact DEF QueueConsistent

(* At any time the free list holds exactly the invalid entries, the length *)
(* is the number of valid ones, and the pointers visit those in program    *)
(* order in both directions (issue_queue.cc dispatch, remove, squash).     *)
THEOREM QueueListsConsistent == Spec => []QueueConsistent
BY StructAlways, StructQueue, PTL

-----------------------------------------------------------------------------
(* The registers of the lanes under the names the property gives them.     *)
Name(l, d) == IF d = -1 THEN <<"rr", l, 0>>
              ELSE IF d = ex_depth[l] THEN <<"wb", l, 0>> ELSE <<"ex", l, d>>

(* A valid register has its name among the busy places.                    *)
LEMMA NamePlace ==
  ASSUME NEW l \in Lane, NEW d \in Reg(l)
  PROVE  Name(l, d) \in Places /\ PlaceAt(Name(l, d)) = Cell(Execution_Lanes, l, d)
<1>1. ex_depth[l] \in Nat \ {0} /\ d \in (-1)..ex_depth[l]
  BY Constants DEF Reg
<1>2. CASE d = -1
  BY <1>2 DEF Name, Places, PlaceAt, Cell
<1>3. CASE d = ex_depth[l]
  <2>1. d # -1
    BY <1>1, <1>3
  <2> QED  BY <1>3, <2>1 DEF Name, Places, PlaceAt, Cell
<1>4. CASE d # -1 /\ d # ex_depth[l]
  <2>1. d \in 0..(ex_depth[l] - 1)
    BY <1>1, <1>4
  <2>2. Name(l, d) = <<"ex", l, d>>
    BY <1>4 DEF Name
  <2>3. <<"ex", l, d>> \in Places
    BY <2>1 DEF Places
  <2> QED  BY <1>4, <2>2, <2>3 DEF PlaceAt, Cell
<1> QED  BY <1>2, <1>3, <1>4

(* A busy place is the name of a valid register.                           *)
LEMMA PlaceName ==
  ASSUME NEW p \in Places
  PROVE  \E l \in Lane : \E d \in Reg(l) : p = Name(l, d)
<1>1. \A l \in Lane : ex_depth[l] \in Nat \ {0}
  BY Constants
<1>2. CASE \E l \in Lane : p = <<"rr", l, 0>>
  <2>1. PICK l \in Lane : p = <<"rr", l, 0>>
    BY <1>2
  <2>2. -1 \in Reg(l)
    BY <1>1 DEF Reg
  <2> QED  BY <2>1, <2>2 DEF Name
<1>3. CASE \E l \in Lane : p = <<"wb", l, 0>>
  <2>1. PICK l \in Lane : p = <<"wb", l, 0>>
    BY <1>3
  <2>2. ex_depth[l] \in Reg(l) /\ ex_depth[l] # -1
    BY <1>1 DEF Reg
  <2> QED  BY <2>1, <2>2 DEF Name
<1>4. CASE \E l \in Lane : \E d \in 0..(ex_depth[l] - 1) : p = <<"ex", l, d>>
  <2>1. PICK l \in Lane : \E d \in 0..(ex_depth[l] - 1) : p = <<"ex", l, d>>
    BY <1>4
  <2>2. PICK d \in 0..(ex_depth[l] - 1) : p = <<"ex", l, d>>
    BY <2>1
  <2>3. d \in Reg(l) /\ d # -1 /\ d # ex_depth[l]
    BY <1>1 DEF Reg
  <2> QED  BY <2>2, <2>3 DEF Name
<1> QED  BY <1>2, <1>3, <1>4 DEF Places

(* How many places of each kind hold an instruction.                       *)
EntriesOf(i) == {s \in Waiting : IQ.q[s].index = i}
CellsOf(i)   == {p \in Busy : PlaceAt(p).index = i}

(* An entry in use holds its instruction.                                  *)
LEMMA EntriesHold ==
  ASSUME NEW i, NEW s
  PROVE  s \in EntriesOf(i) <=> InEntry(IQ.q, s, i)
BY DEF EntriesOf, InEntry, Waiting

(* A busy place holds its instruction.                                     *)
LEMMA CellsHold ==
  ASSUME NEW i
  PROVE  /\ \A p \in CellsOf(i) : \E l \in Lane : \E d \in Reg(l) :
              p = Name(l, d) /\ InCell(Execution_Lanes, l, d, i)
         /\ \A l, d : InCell(Execution_Lanes, l, d, i) =>
              l \in Lane /\ d \in Reg(l) /\ Name(l, d) \in CellsOf(i)
<1>1. ASSUME NEW p \in CellsOf(i)
      PROVE  \E l \in Lane : \E d \in Reg(l) :
               p = Name(l, d) /\ InCell(Execution_Lanes, l, d, i)
  <2>1. p \in Places /\ PlaceAt(p).valid /\ PlaceAt(p).index = i
    BY <1>1 DEF CellsOf, Busy
  <2>2. PICK l \in Lane : \E d \in Reg(l) : p = Name(l, d)
    BY <2>1, PlaceName
  <2>3. PICK d \in Reg(l) : p = Name(l, d)
    BY <2>2
  <2>4. PlaceAt(p) = Cell(Execution_Lanes, l, d)
    BY <2>3, NamePlace
  <2> QED  BY <2>1, <2>3, <2>4 DEF InCell, Reg
<1>2. ASSUME NEW l, NEW d, InCell(Execution_Lanes, l, d, i)
      PROVE  l \in Lane /\ d \in Reg(l) /\ Name(l, d) \in CellsOf(i)
  <2>1. /\ l \in Lane /\ d \in Reg(l)
        /\ Cell(Execution_Lanes, l, d).valid /\ Cell(Execution_Lanes, l, d).index = i
    BY <1>2 DEF InCell, Reg
  <2>2. Name(l, d) \in Places /\ PlaceAt(Name(l, d)) = Cell(Execution_Lanes, l, d)
    BY <2>1, NamePlace
  <2>3. PICK p : p = Name(l, d)
    OBVIOUS
  <2>4. p \in Places /\ PlaceAt(p).valid /\ PlaceAt(p).index = i
    BY <2>1, <2>2, <2>3
  <2> QED  BY <2>1, <2>3, <2>4 DEF CellsOf, Busy
<1> QED  BY <1>1, <1>2

HoldsNow(a, b, i) == Holds(Execution_Lanes, IQ.q, stalled, a, b, i)

(* An instruction in flight is held once.                                  *)
LEMMA HeldOnce ==
  ASSUME StructInv, NEW i \in ALIndex, InFlight(window, AL_head, i)
  PROVE  HeldBy(i) = 1
<1>1. /\ Placed(window, AL_head, Execution_Lanes, IQ.q, stalled)
      /\ Setting(window, AL_head, Execution_Lanes, IQ.q, stalled)
  BY StructFields, FitsFields
<1>2. PICK a, b \in Int : HoldsNow(a, b, i)
  BY <1>1 DEF Placed, HoldsNow
<1>3. \A c, d \in Int : HoldsNow(c, d, i) => c = a /\ d = b
  BY <1>1, <1>2 DEF Placed, HoldsNow
<1>4. HeldBy(i) = Cardinality(EntriesOf(i)) + Cardinality(CellsOf(i))
                    + (IF i \in stalled THEN 1 ELSE 0)
  BY DEF HeldBy, EntriesOf, CellsOf
<1>5. /\ \A s \in EntriesOf(i) : s \in Int /\ HoldsNow(-1, s, i)
      /\ \A p \in CellsOf(i) : \E l \in Lane : \E d \in Reg(l) :
           p = Name(l, d) /\ l \in Int /\ d \in Int /\ l # -1 /\ l # -2 /\ HoldsNow(l, d, i)
      /\ i \in stalled => HoldsNow(-2, 0, i)
  <2>1. ASSUME NEW s \in EntriesOf(i) PROVE s \in Int /\ HoldsNow(-1, s, i)
    <3>1. InEntry(IQ.q, s, i)
      BY <2>1, EntriesHold
    <3>2. s \in Int
      BY <3>1, Constants DEF InEntry
    <3> QED  BY <3>1, <3>2 DEF HoldsNow, Holds
  <2>2. ASSUME NEW p \in CellsOf(i)
        PROVE  \E l \in Lane : \E d \in Reg(l) :
                 p = Name(l, d) /\ l \in Int /\ d \in Int /\ l # -1 /\ l # -2
                 /\ HoldsNow(l, d, i)
    <3>1. PICK l \in Lane : \E d \in Reg(l) :
            p = Name(l, d) /\ InCell(Execution_Lanes, l, d, i)
      BY CellsHold
    <3>2. PICK d \in Reg(l) : p = Name(l, d) /\ InCell(Execution_Lanes, l, d, i)
      BY <3>1
    <3>3. l \in Int /\ d \in Int /\ l # -1 /\ l # -2
      BY LaneDepth DEF Lane, Reg
    <3> QED  BY <3>2, <3>3 DEF HoldsNow, Holds
  <2>3. i \in stalled => HoldsNow(-2, 0, i)
    BY DEF HoldsNow, Holds
  <2> QED  BY <2>1, <2>2, <2>3
<1>6. CASE a # -1 /\ a # -2
  <2>1. InCell(Execution_Lanes, a, b, i)
    BY <1>2, <1>6 DEF HoldsNow, Holds
  <2>2. Name(a, b) \in CellsOf(i)
    BY <2>1, CellsHold
  <2>3. \A p \in CellsOf(i) : p = Name(a, b)
    BY <1>3, <1>5
  <2>4. CellsOf(i) = {Name(a, b)}
    BY <2>2, <2>3
  <2>5. EntriesOf(i) = {} /\ i \notin stalled
    BY <1>3, <1>5, <1>6
  <2>6. Cardinality(CellsOf(i)) = 1
    BY ONLY <2>4, FS_Singleton
  <2>7. Cardinality(EntriesOf(i)) = 0
    BY ONLY <2>5, FS_EmptySet
  <2> QED  BY <1>4, <2>5, <2>6, <2>7
<1>7. CASE a = -1
  <2>1. CellsOf(i) = {} /\ i \notin stalled
    BY <1>3, <1>5, <1>7
  <2>2. b \in EntriesOf(i)
    <3>1. ~InCell(Execution_Lanes, a, b, i)
      BY <1>7 DEF InCell, Lane
    <3> QED  BY <1>2, <1>7, <3>1, EntriesHold DEF HoldsNow, Holds
  <2>3. \A s \in EntriesOf(i) : s = b
    BY <1>3, <1>5
  <2>4. EntriesOf(i) = {b}
    BY <2>2, <2>3
  <2>5. Cardinality(EntriesOf(i)) = 1
    BY ONLY <2>4, FS_Singleton
  <2>6. Cardinality(CellsOf(i)) = 0
    BY ONLY <2>1, FS_EmptySet
  <2> QED  BY <1>4, <2>1, <2>5, <2>6
<1>8. CASE a = -2
  <2>1. CellsOf(i) = {} /\ EntriesOf(i) = {}
    BY <1>3, <1>5, <1>8
  <2>2. i \in stalled
    <3>1. ~InCell(Execution_Lanes, a, b, i)
      BY <1>8 DEF InCell, Lane
    <3> QED  BY <1>2, <1>8, <3>1 DEF HoldsNow, Holds
  <2> QED  BY <1>4, <2>1, <2>2, FS_EmptySet
<1> QED  BY <1>6, <1>7, <1>8

(* One that is not in flight is not held.                                  *)
LEMMA HeldNowhere ==
  ASSUME StructInv, NEW i \in ALIndex, ~InFlight(window, AL_head, i)
  PROVE  HeldBy(i) = 0
<1>1. /\ Placed(window, AL_head, Execution_Lanes, IQ.q, stalled)
      /\ Setting(window, AL_head, Execution_Lanes, IQ.q, stalled)
  BY StructFields, FitsFields
<1>2. HeldBy(i) = Cardinality(EntriesOf(i)) + Cardinality(CellsOf(i))
                    + (IF i \in stalled THEN 1 ELSE 0)
  BY DEF HeldBy, EntriesOf, CellsOf
<1>3. \A s : ~InEntry(IQ.q, s, i)
  BY <1>1, PlacedFlight DEF InEntry
<1>4. \A l, d : ~InCell(Execution_Lanes, l, d, i)
  BY <1>1, PlacedFlight DEF InCell, Reg
<1>5. EntriesOf(i) = {} /\ CellsOf(i) = {}
  BY <1>3, <1>4, EntriesHold, CellsHold
<1>6. i \notin stalled
  BY <1>1, PlacedFlight
<1> QED  BY <1>2, <1>5, <1>6, FS_EmptySet

(* StructInv gives the property of the places.                             *)
LEMMA StructPlace == StructInv => ExactlyOnePlace
<1> SUFFICES ASSUME StructInv PROVE ExactlyOnePlace
  OBVIOUS
<1>1. /\ Placed(window, AL_head, Execution_Lanes, IQ.q, stalled)
      /\ Kept(window, AL_head, Execution_Lanes, IQ.q, stalled)
  BY StructFields, FitsFields
<1>2. \A i \in ALIndex : Pos(i) = PosIn(AL_head, i)
  BY DEF Pos, PosIn
<1>3. ASSUME NEW i \in ALIndex
      PROVE  HeldBy(i) = IF Pos(i) <= Len(window) /\ ~window[Pos(i)].completed
                           THEN 1 ELSE 0
  BY <1>2, HeldOnce, HeldNowhere DEF InFlight
<1>4. ASSUME NEW s \in Waiting
      PROVE  IQ.q[s].branch_mask = OpenBefore(Pos(IQ.q[s].index))
  BY <1>1 DEF Kept, Waiting, Pos, PosIn, OpenBefore, OpenIn
<1>5. ASSUME NEW p \in Busy
      PROVE  PlaceAt(p).branch_mask = OpenBefore(Pos(PlaceAt(p).index))
  <2>1. p \in Places /\ PlaceAt(p).valid
    BY <1>5 DEF Busy
  <2>2. PICK l \in Lane : \E d \in Reg(l) : p = Name(l, d)
    BY <2>1, PlaceName
  <2>3. PICK d \in Reg(l) : p = Name(l, d)
    BY <2>2
  <2>4. PlaceAt(p) = Cell(Execution_Lanes, l, d)
    BY <2>3, NamePlace
  <2>5. d \in Int /\ d \in (-1)..ex_depth[l]
    BY LaneDepth DEF Reg
  <2>6. Cell(Execution_Lanes, l, d).branch_mask =
          OpenIn(window, PosIn(AL_head, Cell(Execution_Lanes, l, d).index))
    BY <1>1, <2>1, <2>4, <2>5 DEF Kept
  <2>7. \A i : OpenBefore(Pos(i)) = OpenIn(window, PosIn(AL_head, i))
    BY DEF Pos, PosIn, OpenBefore, OpenIn
  <2> QED  BY <2>4, <2>6, <2>7
<1> QED  BY <1>3, <1>4, <1>5 DEF ExactlyOnePlace

(* Nothing in flight is lost, held twice or left behind by a squash, and   *)
(* the branch masks are exact (squash.cc resolve, issue_queue.cc squash).  *)
THEOREM OnePlaceEach == Spec => []ExactlyOnePlace
BY StructAlways, StructPlace, PTL

-----------------------------------------------------------------------------
(* The sources of an instruction stay mapped before it.                    *)
LEMMA SourcesPrefix ==
  ASSUME NEW w, IsWindow(w), NEW c, Sources(w, c),
         NEW v, IsWindow(v), Len(v) <= Len(w), \A j \in 1..Len(v) : SameCode(v[j], w[j])
  PROVE  Sources(v, c)
<1>1. Len(w) \in Nat /\ Len(v) \in Nat
  BY WindowSeq
<1>2. \A j \in 1..Len(v) : /\ j \in 1..Len(w) /\ v[j].tags = w[j].tags
                           /\ v[j].phys_reg = w[j].phys_reg
                           /\ \A r : Writes(v[j], r) <=> Writes(w[j], r)
  BY <1>1 DEF SameCode, Writes
<1>3. ASSUME NEW k \in 1..Len(v), NEW t \in v[k].tags PROVE Mapped(v, c, t, k)
  <2>1. k \in 1..Len(w) /\ t \in w[k].tags
    BY <1>2
  <2>2. PICK r \in LogReg :
          \/ c[r] = t /\ \A j \in 1..(k - 1) : ~Writes(w[j], r)
          \/ \E j \in 1..(k - 1) : /\ Writes(w[j], r) /\ w[j].phys_reg = t
                                   /\ \A m \in (j + 1)..(k - 1) : ~Writes(w[m], r)
    BY <2>1 DEF Sources, Mapped
  <2>3. \A j \in 1..(k - 1) : j \in 1..Len(v)
    BY <1>1
  <2>4. CASE c[r] = t /\ \A j \in 1..(k - 1) : ~Writes(w[j], r)
    <3>1. \A j \in 1..(k - 1) : ~Writes(v[j], r)
      BY <1>2, <2>3, <2>4
    <3> QED  BY <2>4, <3>1 DEF Mapped
  <2>5. CASE \E j \in 1..(k - 1) : /\ Writes(w[j], r) /\ w[j].phys_reg = t
                                   /\ \A m \in (j + 1)..(k - 1) : ~Writes(w[m], r)
    <3>1. PICK j \in 1..(k - 1) : /\ Writes(w[j], r) /\ w[j].phys_reg = t
                                  /\ \A m \in (j + 1)..(k - 1) : ~Writes(w[m], r)
      BY <2>5
    <3>2. \A m \in (j + 1)..(k - 1) : m \in 1..(k - 1)
      BY <1>1
    <3>3. /\ Writes(v[j], r) /\ v[j].phys_reg = t
          /\ \A m \in (j + 1)..(k - 1) : ~Writes(v[m], r)
      BY <1>2, <2>3, <3>1, <3>2
    <3> QED  BY <3>3 DEF Mapped
  <2> QED  BY <2>2, <2>4, <2>5
<1> QED  BY <1>3 DEF Sources

(* A commit moves a source from the window to the committed map.           *)
LEMMA SourcesTail ==
  ASSUME NEW w, IsWindow(w), w # <<>>, NEW c \in [LogReg -> PhysReg], Sources(w, c),
         NEW v, v = Left(w), NEW d, d = AfterHead(c, w[1])
  PROVE  Sources(v, d)
<1>1. /\ IsWindow(v) /\ Len(v) = Len(w) - 1 /\ Len(w) >= 1 /\ Len(w) \in Nat
      /\ \A j \in 1..Len(v) : v[j] = w[j + 1]
  BY TailWindow, WindowSeq
<1>2. \A r \in LogReg : d[r] = IF Writes(w[1], r) THEN w[1].phys_reg ELSE c[r]
  BY <1>1, HeadFields, AfterHeadType
<1>3. ASSUME NEW k \in 1..Len(v), NEW t \in v[k].tags PROVE Mapped(v, d, t, k)
  <2>1. k + 1 \in 1..Len(w) /\ t \in w[k + 1].tags /\ (k + 1) - 1 = k
    BY <1>1
  <2>2. PICK r \in LogReg :
          \/ c[r] = t /\ \A j \in 1..k : ~Writes(w[j], r)
          \/ \E j \in 1..k : /\ Writes(w[j], r) /\ w[j].phys_reg = t
                             /\ \A m \in (j + 1)..k : ~Writes(w[m], r)
    BY <2>1 DEF Sources, Mapped
  <2>3. \A j \in 1..(k - 1) : j \in 1..Len(v) /\ j + 1 \in 1..k /\ v[j] = w[j + 1]
    BY <1>1
  <2>4. CASE c[r] = t /\ \A j \in 1..k : ~Writes(w[j], r)
    <3>1. \A j \in 1..(k - 1) : ~Writes(v[j], r)
      BY <2>3, <2>4
    <3>2. 1 \in 1..k
      BY <1>1
    <3>3. d[r] = t
      BY <1>2, <2>4, <3>2
    <3> QED  BY <3>1, <3>3 DEF Mapped
  <2>5. ASSUME NEW j \in 1..k, Writes(w[j], r), w[j].phys_reg = t,
               \A m \in (j + 1)..k : ~Writes(w[m], r)
        PROVE  Mapped(v, d, t, k)
    <3>1. CASE j = 1
      <4>1. d[r] = t
        BY <1>2, <2>5, <3>1
      <4>2. \A m \in 1..(k - 1) : ~Writes(v[m], r)
        <5>1. \A m \in 1..(k - 1) : m + 1 \in (j + 1)..k
          BY <3>1, <1>1
        <5> QED  BY <2>3, <2>5, <5>1
      <4> QED  BY <4>1, <4>2 DEF Mapped
    <3>2. CASE j # 1
      <4>1. PICK i : i = j - 1
        OBVIOUS
      <4>2. i \in 1..(k - 1) /\ i + 1 = j
        BY <3>2, <4>1, <1>1
      <4>3. Writes(v[i], r) /\ v[i].phys_reg = t
        BY <2>3, <2>5, <4>2
      <4>4. \A m \in (i + 1)..(k - 1) : ~Writes(v[m], r)
        <5>1. \A m \in (i + 1)..(k - 1) : m \in 1..(k - 1) /\ m + 1 \in (j + 1)..k
          BY <4>2, <1>1
        <5> QED  BY <2>3, <2>5, <5>1
      <4> QED  BY <4>2, <4>3, <4>4 DEF Mapped
    <3> QED  BY <3>1, <3>2
  <2> QED  BY <2>2, <2>4, <2>5
<1> QED  BY <1>3 DEF Sources

(* Mapped before a position is decided by what is before it.               *)
LEMMA MappedBefore ==
  ASSUME NEW w, NEW v, NEW c, NEW t, NEW k \in Int, \A j \in 1..(k - 1) : v[j] = w[j],
         Mapped(w, c, t, k)
  PROVE  Mapped(v, c, t, k)
<1>1. PICK r \in LogReg :
        \/ c[r] = t /\ \A j \in 1..(k - 1) : ~Writes(w[j], r)
        \/ \E j \in 1..(k - 1) : /\ Writes(w[j], r) /\ w[j].phys_reg = t
                                 /\ \A m \in (j + 1)..(k - 1) : ~Writes(w[m], r)
  BY DEF Mapped
<1>2. CASE c[r] = t /\ \A j \in 1..(k - 1) : ~Writes(w[j], r)
  BY <1>2 DEF Mapped
<1>3. ASSUME NEW j \in 1..(k - 1), Writes(w[j], r), w[j].phys_reg = t,
             \A m \in (j + 1)..(k - 1) : ~Writes(w[m], r)
      PROVE  Mapped(v, c, t, k)
  <2>1. \A m \in (j + 1)..(k - 1) : m \in 1..(k - 1)
    OBVIOUS
  <2>2. Writes(v[j], r) /\ v[j].phys_reg = t /\ \A m \in (j + 1)..(k - 1) : ~Writes(v[m], r)
    BY <1>3, <2>1
  <2> QED  BY <2>2 DEF Mapped
<1> QED  BY <1>1, <1>2, <1>3

(* The sources read at rename are mapped before the new instruction.       *)
LEMMA SourcesEntered ==
  ASSUME NEW w, IsWindow(w), Len(w) < n_active, NEW c, Sources(w, c),
         NEW x \in Inst, \A t \in x.tags : Mapped(w, c, t, Len(w) + 1),
         NEW v, v = Entered(w, x)
  PROVE  Sources(v, c)
<1>1. /\ Len(v) = Len(w) + 1 /\ Len(w) \in Nat /\ v[Len(w) + 1] = x
      /\ \A j \in 1..Len(w) : v[j] = w[j]
  BY AppendWindow, WindowSeq
<1>2. ASSUME NEW k \in 1..Len(v), NEW t \in v[k].tags PROVE Mapped(v, c, t, k)
  <2>1. k \in Int /\ \A j \in 1..(k - 1) : v[j] = w[j]
    BY <1>1
  <2>2. Mapped(w, c, t, k)
    <3>1. CASE k = Len(w) + 1
      BY <1>1, <1>2, <3>1
    <3>2. CASE k # Len(w) + 1
      <4>1. k \in 1..Len(w)
        BY <1>1, <3>2
      <4> QED  BY <1>1, <1>2, <4>1 DEF Sources
    <3> QED  BY <3>1, <3>2
  <2> QED  BY <2>1, <2>2, MappedBefore
<1> QED  BY <1>2 DEF Sources

(* An empty window has no sources to find.                                 *)
LEMMA SourcesEmpty ==
  ASSUME NEW c
  PROVE  Sources(<<>>, c)
BY NoWindow DEF Sources

-----------------------------------------------------------------------------
(* The ready operands of the entries are those whose ready bit is set.     *)
Woke(Q, R) == \A s \in Slot : Q[s].valid => Q[s].ready = Q[s].tags \cap R
WakeInv == Sources(window, committed) /\ Woke(IQ.q, PRF_ready)

(* Woke is the property of the entries in use.                             *)
LEMMA WokeIff == Woke(IQ.q, PRF_ready) <=> NoLostWakeup
BY DEF Woke, NoLostWakeup, Waiting

FewerEntries(Q, P) ==
  \A s \in Slot : P[s].valid =>
    Q[s].valid /\ P[s].ready = Q[s].ready /\ P[s].tags = Q[s].tags

(* It holds of fewer entries.                                              *)
LEMMA WokeFewer ==
  ASSUME NEW Q, NEW R, Woke(Q, R), NEW P, FewerEntries(Q, P)
  PROVE  Woke(P, R)
BY DEF Woke, FewerEntries

(* A broadcast sets the entries' bits and the renamer's together.          *)
LEMMA WokeWoken ==
  ASSUME NEW iq \in Queue, NEW R, Woke(iq.q, R), NEW B \in SUBSET PhysReg,
         NEW r, r = Woken(iq, B)
  PROVE  Woke(r.q, R \cup B)
<1>1. ASSUME NEW s \in Slot, r.q[s].valid
      PROVE  r.q[s].ready = r.q[s].tags \cap (R \cup B)
  <2>1. iq.q[s].valid
    BY <1>1, WokenQueue DEF SameLists, SameLinks
  <2>2. r.q[s].tags = iq.q[s].tags /\ r.q[s].ready = iq.q[s].ready \cup (B \cap iq.q[s].tags)
    BY <2>1, WokenQueue
  <2>3. iq.q[s].ready = iq.q[s].tags \cap R
    BY <2>1 DEF Woke
  <2> QED  BY <2>2, <2>3
<1> QED  BY <1>1 DEF Woke

(* The wakeup of a store's readers leaves register operands alone.         *)
LEMMA WokeInum ==
  ASSUME NEW iq \in Queue, NEW R, Woke(iq.q, R), NEW i, NEW r, r = InumWoken(iq, i)
  PROVE  Woke(r.q, R)
<1>1. FewerEntries(iq.q, r.q)
  BY InumWokenQueue DEF FewerEntries, SameLists, SameLinks
<1> QED  BY <1>1, WokeFewer

(* A resolved branch leaves them alone.                                    *)
LEMMA WokeCleared ==
  ASSUME NEW iq \in Queue, NEW R, Woke(iq.q, R), NEW b, NEW r, r = clear_branch_bit(iq, b)
  PROVE  Woke(r.q, R)
<1>1. FewerEntries(iq.q, r.q)
  BY ClearedQueue DEF FewerEntries, SameLists, SameLinks
<1> QED  BY <1>1, WokeFewer

(* A squash leaves the surviving entries' operands alone.                  *)
LEMMA WokeSquashed ==
  ASSUME NEW iq, NEW K, QueueOK(iq, K), NEW R, Woke(iq.q, R), NEW b,
         NEW r, r = Squashed(iq, b)
  PROVE  Woke(r.q, R)
<1>1. SameInsts(iq, r) /\ Occupied(r.q) \subseteq Occupied(iq.q)
  BY SquashedQueue
<1>2. FewerEntries(iq.q, r.q)
  BY <1>1 DEF FewerEntries, SameInsts, SameInst, Occupied
<1> QED  BY <1>2, WokeFewer

(* So does the removal of an entry.                                        *)
LEMMA WokeRemoved ==
  ASSUME NEW iq, NEW K, QueueOK(iq, K), NEW R, Woke(iq.q, R), NEW i \in Occupied(iq.q),
         NEW r, r = Removed(iq, i)
  PROVE  Woke(r.q, R)
<1>1. SameInsts(iq, r) /\ Occupied(r.q) \subseteq Occupied(iq.q)
  BY RemovedQueue
<1>2. FewerEntries(iq.q, r.q)
  BY <1>1 DEF FewerEntries, SameInsts, SameInst, Occupied
<1> QED  BY <1>2, WokeFewer

(* A flushed queue has no entries.                                         *)
LEMMA WokeFlushed ==
  ASSUME NEW iq \in Queue, NEW R
  PROVE  Woke(Flushed(iq).q, R)
<1>1. PICK K : K = [i \in Slot |-> 0]
  OBVIOUS
<1>2. \A i \in Slot : K[i] \in Int
  BY <1>1
<1>3. Occupied(Flushed(iq).q) = {}
  BY <1>2, FlushedQueue
<1> QED  BY <1>3 DEF Woke, Occupied

(* Dispatch fills a free entry.                                            *)
LEMMA DispatchedInsts ==
  ASSUME NEW iq, NEW K, QueueOK(iq, K), ~stall(iq, 1), NEW e \in Entry,
         NEW r, r = Dispatched(iq, e), NEW f, f = Head1(iq)
  PROVE  /\ f \in Slot /\ SameInst(r.q[f], e)
         /\ \A i \in Slot \ {f} : SameInst(r.q[i], iq.q[i])
                                  /\ r.q[i].valid = iq.q[i].valid
<1>1. PICK V : V = Occupied(iq.q)
  OBVIOUS
<1>2. iq \in Queue /\ FreeListOK(iq) /\ Linked(iq.q, V, K, iq.oldest, iq.youngest)
  BY <1>1 DEF QueueOK
<1>3. /\ NoSlot \notin V /\ iq.fl_length > 0 /\ iq.length < size
  <2>1. iq.length \in 0..size /\ iq.fl_length \in 0..size /\ size \in Nat
    BY <1>2, QueueFields, Constants
  <2>2. iq.length + iq.fl_length = size
    BY <1>2 DEF FreeListOK
  <2>3. NoSlot \notin V
    BY <1>1, Constants DEF Occupied
  <2> QED  BY <2>1, <2>2, <2>3 DEF stall
<1>4. iq.oldest = NoSlot <=> iq.youngest = NoSlot
  BY <1>2, <1>3 DEF Linked
<1> QED  BY <1>2, <1>3, <1>4, DispatchedFields

(* A dispatched entry starts with the ready bits of its sources.           *)
LEMMA WokeDispatched ==
  ASSUME NEW iq, NEW K, QueueOK(iq, K), ~stall(iq, 1), NEW e \in Entry,
         NEW R, NEW U, Woke(iq.q, R), e.ready = e.tags \cap U,
         \A s \in Slot : iq.q[s].valid => iq.q[s].tags \cap R = iq.q[s].tags \cap U,
         NEW r, r = Dispatched(iq, e)
  PROVE  Woke(r.q, U)
<1>1. PICK f : f = Head1(iq)
  OBVIOUS
<1>2. /\ f \in Slot /\ SameInst(r.q[f], e)
      /\ \A i \in Slot \ {f} : SameInst(r.q[i], iq.q[i]) /\ r.q[i].valid = iq.q[i].valid
  BY <1>1, DispatchedInsts
<1>3. ASSUME NEW s \in Slot, r.q[s].valid
      PROVE  r.q[s].ready = r.q[s].tags \cap U
  <2>1. CASE s = f
    BY <2>1, <1>2 DEF SameInst
  <2>2. CASE s # f
    <3>1. SameInst(r.q[s], iq.q[s]) /\ iq.q[s].valid
      BY <1>2, <1>3, <2>2
    <3>2. iq.q[s].ready = iq.q[s].tags \cap R /\ iq.q[s].tags \cap R = iq.q[s].tags \cap U
      BY <3>1 DEF Woke
    <3> QED  BY <3>1, <3>2 DEF SameInst
  <2> QED  BY <2>1, <2>2
<1> QED  BY <1>3 DEF Woke

-----------------------------------------------------------------------------
(* No step loses a wakeup.                                                 *)
LEMMA CompletedPrefix ==
  ASSUME NEW w, IsWindow(w), NEW k \in 1..Len(w), NEW c, Sources(w, c)
  PROVE  Sources(CompletedAt(w, k), c) /\ Sources(CutAt(w, k), c)
<1>1. PICK u, v : u = CompletedAt(w, k) /\ v = CutAt(w, k)
  OBVIOUS
<1>2. Len(w) \in Nat /\ k \in 1..Len(w)
  BY WindowSeq
<1>3. IsWindow(u) /\ Len(u) = Len(w) /\ \A j \in 1..Len(u) : SameCode(u[j], w[j])
  BY <1>1, CompletedWindow
<1>4. IsWindow(v) /\ Len(v) = k /\ \A j \in 1..Len(v) : SameCode(v[j], w[j])
  BY <1>1, CutWindow
<1>5. Len(u) <= Len(w) /\ Len(v) <= Len(w)
  BY <1>2, <1>3, <1>4
<1>6. Sources(u, c)
  BY <1>3, <1>5, SourcesPrefix
<1>7. Sources(v, c)
  BY <1>4, <1>5, SourcesPrefix
<1> QED  BY <1>1, <1>6, <1>7

(* A flush keeps WakeInv.                                                  *)
LEMMA WakeFlush ==
  ASSUME StructInv, NEW c, squash_complete(c)
  PROVE  WakeInv'
<1>1. IQ \in Queue
  BY StructFields
<1>2. PICK r : r = Flushed(IQ)
  OBVIOUS
<1>3. Woke(r.q, PRF_ready')
  BY <1>1, <1>2, WokeFlushed
<1>4. window' = <<>> /\ IQ' = r
  BY <1>2 DEF squash_complete
<1> QED  BY <1>3, <1>4, SourcesEmpty DEF WakeInv

(* Retire keeps WakeInv.                                                   *)
LEMMA WakeRetire == StructInv /\ WakeInv /\ Retire => WakeInv'
<1> SUFFICES ASSUME StructInv, WakeInv, Retire PROVE WakeInv'
  OBVIOUS
<1>1. IsWindow(window) /\ committed \in [LogReg -> PhysReg]
  BY StructFields DEF Regs
<1>2. CASE window # <<>> /\ Head(window).completed
  <2>1. PICK x, m, v : x = Head(window) /\ m = AfterHead(committed, x) /\ v = Left(window)
    OBVIOUS
  <2>2. x = window[1]
    BY <1>1, <1>2, <2>1, HeadFields
  <2>3. \/ committed' = m /\ window' = v /\ PRF_ready' = PRF_ready /\ IQ' = IQ
        \/ squash_complete(committed)
        \/ squash_complete(m)
    BY <1>2, <2>1 DEF Retire, AfterHead, Left, prfVars
  <2>4. Sources(v, m)
    BY <1>1, <1>2, <2>1, <2>2, SourcesTail DEF WakeInv
  <2> QED  BY <2>3, <2>4, WakeFlush DEF WakeInv
<1>3. CASE ~(window # <<>> /\ Head(window).completed)
  BY <1>3 DEF Retire, WakeInv, prfVars
<1> QED  BY <1>2, <1>3

(* Writeback keeps WakeInv.                                                *)
LEMMA WakeWriteback == StructInv /\ WakeInv /\ Writeback => WakeInv'
<1> SUFFICES ASSUME StructInv, WakeInv, Writeback PROVE WakeInv'
  OBVIOUS
<1>1. /\ Fits(window, AL_head, Execution_Lanes, IQ, stalled) /\ IsWindow(window)
      /\ StageOK(stage, lane) /\ IQ \in Queue /\ QueueOK(IQ, Ages(AL_head, IQ.q))
  BY StructFields, FitsFields
<1>2. /\ lane \in Lane /\ committed' = committed /\ PRF_ready' = PRF_ready
      /\ Sources(window, committed) /\ Woke(IQ.q, PRF_ready)
  BY <1>1 DEF Writeback, prfVars, StageOK, Lane, WakeInv
<1>3. CASE UNCHANGED <<window, IQ>>
  BY <1>2, <1>3 DEF WakeInv
<1>4. PICK i, k, b : /\ i = Execution_Lanes[lane].wb.index /\ k = PosIn(AL_head, i)
                     /\ b = window[k].branch_ID
  OBVIOUS
<1>5. Pos(i) = k /\ InstOf(Execution_Lanes[lane].wb) = window[k]
  BY <1>4 DEF Pos, PosIn, InstOf
<1>6. ASSUME Execution_Lanes[lane].wb.valid
      PROVE  Sources(CompletedAt(window, k), committed) /\ Sources(CutAt(window, k), committed)
  <2>1. k \in 1..Len(window)
    BY <1>1, <1>2, <1>4, <1>6, WbFlight
  <2> QED  BY <1>1, <1>2, <2>1, CompletedPrefix
<1>7. PICK r, s, t : /\ r = LateWakeup(IQ, window[k], i) /\ s = clear_branch_bit(IQ, b)
                     /\ t = Squashed(IQ, b)
  OBVIOUS
<1>8. CASE WritebackDone
  <2>1. /\ Execution_Lanes[lane].wb.valid /\ IQ' = r /\ window' = CompletedAt(window, k)
    BY ZenonT(30), <1>4, <1>5, <1>7, <1>8 DEF WritebackDone, CompletedAt, Completed
  <2>2. r = InumWoken(IQ, i) \/ r = IQ
    BY <1>7 DEF LateWakeup
  <2>3. Woke(r.q, PRF_ready)
    BY <1>1, <1>2, <2>2, WokeInum
  <2> QED  BY <1>2, <1>6, <2>1, <2>3 DEF WakeInv
<1>9. CASE WritebackCorrect
  <2>1. /\ Execution_Lanes[lane].wb.valid /\ IQ' = s /\ window' = CompletedAt(window, k)
    BY ZenonT(30), <1>4, <1>5, <1>7, <1>9 DEF WritebackCorrect, CompletedAt, Completed
  <2>2. Woke(s.q, PRF_ready)
    BY <1>1, <1>2, <1>7, WokeCleared
  <2> QED  BY <1>2, <1>6, <2>1, <2>2 DEF WakeInv
<1>10. CASE WritebackMispredict
  <2>1. /\ Execution_Lanes[lane].wb.valid /\ IQ' = t /\ window' = CutAt(window, k)
    BY ZenonT(30), <1>4, <1>5, <1>7, <1>10 DEF WritebackMispredict, CutAt, CompletedAt, Completed, Survivors
  <2>2. Woke(t.q, PRF_ready)
    BY <1>1, <1>2, <1>7, WokeSquashed
  <2> QED  BY <1>2, <1>6, <2>1, <2>2 DEF WakeInv
<1> QED  BY <1>3, <1>8, <1>9, <1>10 DEF Writeback

(* The load replay keeps WakeInv: it wakes what it marks as ready.         *)
LEMMA WakeReplay == StructInv /\ WakeInv /\ load_replay => WakeInv'
<1> SUFFICES ASSUME StructInv, WakeInv, load_replay PROVE WakeInv'
  OBVIOUS
<1>1. /\ Fits(window, AL_head, Execution_Lanes, IQ, stalled) /\ IsWindow(window) /\ IQ \in Queue
      /\ Sources(window, committed) /\ Woke(IQ.q, PRF_ready) /\ committed' = committed
  BY StructFields DEF WakeInv, load_replay
<1>2. CASE \E i \in stalled : ServeLoad(i)
  <2>1. PICK i \in stalled : ServeLoad(i)
    BY <1>2
  <2>2. PICK k, B, r : /\ k = PosIn(AL_head, i) /\ B = Broadcast(window[k]) /\ r = Woken(IQ, B)
    OBVIOUS
  <2>3. window' = CompletedAt(window, k) /\ IQ' = r /\ PRF_ready' = PRF_ready \cup B
    BY <2>1, <2>2 DEF ServeLoad, Pos, PosIn, CompletedAt, Completed
  <2>4. k \in 1..Len(window) /\ window[k] \in Inst
    BY <1>1, <2>2, StalledFlight
  <2>5. B \in SUBSET PhysReg
    BY <2>2, <2>4, InstFields
  <2>6. Woke(r.q, PRF_ready \cup B)
    BY <1>1, <2>2, <2>5, WokeWoken
  <2>7. Sources(CompletedAt(window, k), committed)
    BY <1>1, <2>4, CompletedPrefix
  <2> QED  BY <1>1, <2>3, <2>6, <2>7 DEF WakeInv
<1>3. CASE UNCHANGED <<window, stalled, IQ, prfVars>>
  BY <1>1, <1>3 DEF WakeInv, prfVars
<1> QED  BY <1>2, <1>3 DEF load_replay

(* Execute keeps WakeInv: it wakes what it marks as ready.                 *)
LEMMA WakeExecute ==
  ASSUME StructInv, WakeInv, NEW hit \in BOOLEAN, Execute(hit)
  PROVE  WakeInv'
<1>1. /\ Fits(window, AL_head, Execution_Lanes, IQ, stalled) /\ IQ \in Queue
      /\ Sources(window, committed) /\ Woke(IQ.q, PRF_ready) /\ StageOK(stage, lane)
  BY StructFields DEF WakeInv
<1>2. PICK c, x, p, W :
        /\ c = LastOf(Execution_Lanes, lane) /\ x = InstIn(window, AL_head, c)
        /\ p = (IF Goes(window, AL_head, Execution_Lanes, lane, hit) THEN c
                ELSE Execution_Lanes[lane].wb)
        /\ W = Hits(window, AL_head, Execution_Lanes, lane, hit)
                 \cup Nears(window, AL_head, Execution_Lanes, lane)
  OBVIOUS
<1>3. /\ stage = "execute" /\ IQ' = Woken(IQ, W) /\ PRF_ready' = PRF_ready \cup W
      /\ committed' = committed /\ window' = window
  BY <1>2, ExecuteFields
<1>4. lane \in Lane
  BY <1>1, <1>3 DEF StageOK, Lane
<1>5. W \in SUBSET PhysReg
  BY <1>1, <1>2, <1>4, WokenRegs
<1>6. PICK r : r = Woken(IQ, W)
  OBVIOUS
<1>7. Woke(r.q, PRF_ready \cup W)
  BY <1>1, <1>5, <1>6, WokeWoken
<1> QED  BY <1>1, <1>3, <1>6, <1>7 DEF WakeInv

(* Register Read keeps WakeInv: it wakes what it marks as ready.           *)
LEMMA WakeRead == StructInv /\ WakeInv /\ register_read => WakeInv'
<1> SUFFICES ASSUME StructInv, WakeInv, register_read PROVE WakeInv'
  OBVIOUS
<1>1. /\ Fits(window, AL_head, Execution_Lanes, IQ, stalled) /\ IQ \in Queue
      /\ Sources(window, committed) /\ Woke(IQ.q, PRF_ready) /\ StageOK(stage, lane)
  BY StructFields DEF WakeInv
<1>2. PICK p, W : p = Execution_Lanes[lane].rr
                  /\ W = Reads(window, AL_head, Execution_Lanes, lane)
  OBVIOUS
<1>3. /\ stage = "register_read" /\ PRF_ready' = PRF_ready \cup W
      /\ IQ' = Woken(IQ, W) \/ IQ' = InumWoken(Woken(IQ, W), p.index)
      /\ committed' = committed /\ window' = window
  BY <1>2, ReadFields
<1>4. lane \in Lane
  BY <1>1, <1>3 DEF StageOK, Lane
<1>5. W \in SUBSET PhysReg
  BY <1>1, <1>2, <1>4, ReadRegs
<1>6. PICK u, s : u = Woken(IQ, W) /\ s = InumWoken(u, p.index)
  OBVIOUS
<1>7. u \in Queue /\ Woke(u.q, PRF_ready \cup W)
  BY <1>1, <1>5, <1>6, WokeWoken, SameQueueWoken DEF SameQueue
<1>8. Woke(s.q, PRF_ready \cup W)
  BY <1>6, <1>7, WokeInum
<1> QED  BY <1>1, <1>3, <1>6, <1>7, <1>8 DEF WakeInv

(* Schedule keeps WakeInv.                                                 *)
LEMMA WakeSchedule == StructInv /\ WakeInv /\ (Issue \/ EndSchedule) => WakeInv'
<1> SUFFICES ASSUME StructInv, WakeInv, Issue \/ EndSchedule PROVE WakeInv'
  OBVIOUS
<1>1. /\ IQ \in Queue /\ QueueOK(IQ, Ages(AL_head, IQ.q))
      /\ Sources(window, committed) /\ Woke(IQ.q, PRF_ready)
  BY StructFields, FitsFields DEF WakeInv
<1>2. CASE Issue
  <2>1. PICK s \in Occupied(IQ.q) : /\ IQ' = Removed(IQ, s)
                                    /\ UNCHANGED <<committed, window, prfVars>>
    BY <1>2, IssueFields
  <2>2. PICK r : r = Removed(IQ, s)
    OBVIOUS
  <2>3. Woke(r.q, PRF_ready)
    BY <1>1, <2>2, WokeRemoved
  <2> QED  BY <1>1, <2>1, <2>2, <2>3 DEF WakeInv, prfVars
<1>3. CASE EndSchedule
  <2>1. IQ'.q = IQ.q /\ UNCHANGED <<committed, window, prfVars>>
    BY <1>1, <1>3, NextPartitionQueue DEF EndSchedule
  <2> QED  BY <1>1, <2>1 DEF WakeInv, prfVars
<1> QED  BY <1>2, <1>3

(* An entry sees no change of a register that it does not read.            *)
LEMMA SameReady ==
  ASSUME NEW T, NEW R, NEW d, NEW y, NEW p, d => p \notin T,
         NEW U, U = IF ~d THEN R ELSE IF y THEN R \cup {p} ELSE R \ {p}
  PROVE  T \cap R = T \cap U
<1>1. CASE ~d
  BY <1>1
<1>2. CASE d /\ y
  BY <1>2
<1>3. CASE d /\ ~y
  BY <1>3
<1> QED  BY <1>1, <1>2, <1>3

(* A register that is dispatched is read by nobody in the window.          *)
LEMMA WakeEnters ==
  ASSUME StructInv, WakeInv, NEW x, NEW e, Enters(x, e)
  PROVE  WakeInv'
<1>1. /\ Fits(window, AL_head, Execution_Lanes, IQ, stalled) /\ IsWindow(window)
      /\ QueueOK(IQ, Ages(AL_head, IQ.q)) /\ committed \in [LogReg -> PhysReg]
      /\ Placed(window, AL_head, Execution_Lanes, IQ.q, stalled)
      /\ Setting(window, AL_head, Execution_Lanes, IQ.q, stalled)
      /\ Kept(window, AL_head, Execution_Lanes, IQ.q, stalled) /\ AL_head \in ALIndex
  BY StructFields, FitsFields DEF Regs
<1>2. Sources(window, committed) /\ Woke(IQ.q, PRF_ready)
  BY DEF WakeInv
<1>3. /\ x \in Inst /\ e \in Entry /\ Len(window) < n_active /\ e.tags = x.tags
      /\ e.ready = x.tags \cap PRF_ready
      /\ ~x.completed => ~stall(IQ, 1)
      /\ window' = Entered(window, x) /\ committed' = committed
      /\ IQ' = IF x.completed THEN IQ ELSE Dispatched(IQ, e)
      /\ x.dest_valid => x.phys_reg \in Free
      /\ PRF_ready' = IF ~x.dest_valid THEN PRF_ready
                      ELSE IF x.predicted THEN PRF_ready \cup {x.phys_reg}
                                          ELSE PRF_ready \ {x.phys_reg}
  BY DEF Enters
<1>4. \A t \in x.tags : Mapped(window, committed, t, Len(window) + 1)
  BY <1>1, LookupMapped DEF Enters, Map
<1>5. Len(window) \in Nat
  BY <1>1, WindowSeq
<1>6. ASSUME x.dest_valid
      PROVE  \A k \in 1..(Len(window) + 1) : ~Mapped(window, committed, x.phys_reg, k)
  BY <1>1, <1>3, <1>6, UnusedUnmapped DEF Free
<1>7. x.dest_valid => x.phys_reg \notin x.tags
  <2>1. Len(window) + 1 \in 1..(Len(window) + 1)
    BY <1>5
  <2> QED  BY <1>4, <1>6, <2>1
<1>8. ASSUME NEW s \in Slot, IQ.q[s].valid, x.dest_valid
      PROVE  x.phys_reg \notin IQ.q[s].tags
  <2>1. PICK k : k = PosIn(AL_head, IQ.q[s].index)
    OBVIOUS
  <2>2. k \in 1..Len(window) /\ IQ.q[s].tags = window[k].tags
    <3>1. InFlight(window, AL_head, IQ.q[s].index) /\ IQ.q[s].index \in ALIndex
      BY <1>1, <1>8, PlacedFlight
    <3>2. k \in 1..Len(window)
      BY <1>1, <2>1, <3>1, FlightPos
    <3> QED  BY <1>1, <1>8, <2>1, <3>2 DEF Kept
  <2>3. k \in 1..(Len(window) + 1)
    BY <1>5, <2>2
  <2> QED  BY <1>2, <1>6, <1>8, <2>2, <2>3 DEF Sources
<1>9. PICK v, U, r : v = Entered(window, x) /\ U = PRF_ready' /\ r = Dispatched(IQ, e)
  OBVIOUS
<1>10. Sources(v, committed)
  BY <1>1, <1>2, <1>3, <1>4, <1>9, SourcesEntered
<1>11. \A s \in Slot : IQ.q[s].valid => IQ.q[s].tags \cap PRF_ready = IQ.q[s].tags \cap U
  BY <1>3, <1>8, <1>9
<1>12. e.ready = e.tags \cap U
  <2>1. x.dest_valid => x.phys_reg \notin e.tags
    BY <1>3, <1>7
  <2>2. U = IF ~x.dest_valid THEN PRF_ready
            ELSE IF x.predicted THEN PRF_ready \cup {x.phys_reg}
                                ELSE PRF_ready \ {x.phys_reg}
    BY <1>3, <1>9
  <2>3. e.tags \cap PRF_ready = e.tags \cap U
    BY ONLY <2>1, <2>2, SameReady
  <2>4. e.ready = e.tags \cap PRF_ready
    BY <1>3
  <2> QED  BY ONLY <2>3, <2>4
<1>13. CASE x.completed
  <2>1. Woke(IQ.q, U)
    BY <1>2, <1>11 DEF Woke
  <2> QED  BY <1>3, <1>9, <1>10, <1>13, <2>1 DEF WakeInv
<1>14. CASE ~x.completed
  <2>1. PICK K : K = Ages(AL_head, IQ.q)
    OBVIOUS
  <2>2. QueueOK(IQ, K) /\ ~stall(IQ, 1) /\ e \in Entry
    <3>1. QueueOK(IQ, K)
      BY <1>1, <2>1
    <3>2. ~stall(IQ, 1)
      BY <1>14 DEF Enters
    <3> QED  BY <1>3, <3>1, <3>2
  <2>3. Woke(r.q, U)
    BY ONLY <1>2, <1>9, <1>11, <1>12, <2>2, WokeDispatched
  <2> QED  BY <1>3, <1>9, <1>10, <1>14, <2>3 DEF WakeInv
<1> QED  BY <1>13, <1>14

(* Every step keeps WakeInv.                                               *)
LEMMA WakeStep == StructInv /\ WakeInv /\ [Next]_vars => WakeInv'
<1> SUFFICES ASSUME StructInv, WakeInv, [Next]_vars PROVE WakeInv'
  OBVIOUS
<1>1. CASE Retire
  BY <1>1, WakeRetire
<1>2. CASE Writeback
  BY <1>2, WakeWriteback
<1>3. CASE load_replay
  BY <1>3, WakeReplay
<1>4. CASE \E hit \in BOOLEAN : Execute(hit)
  BY <1>4, WakeExecute
<1>5. CASE register_read
  BY <1>5, WakeRead
<1>6. CASE Issue \/ EndSchedule
  BY <1>6, WakeSchedule
<1>7. CASE EndDispatch
  BY <1>7 DEF EndDispatch, WakeInv, prfVars
<1>8. ASSUME NEW kind \in Kind, NEW srcs \in SUBSET LogReg, NEW dest \in BOOLEAN,
             NEW predicted \in BOOLEAN, NEW r \in LogReg, NEW p \in PhysReg,
             NEW inum \in ALIndex \cup {NoInum}, NEW lanes \in SUBSET Lane,
             Dispatch(kind, srcs, dest, r, p, predicted, inum, lanes)
      PROVE  WakeInv'
  BY <1>8, DispatchFields, WakeEnters
<1>9. CASE UNCHANGED vars
  BY <1>9 DEF WakeInv, vars
<1> QED  BY <1>1, <1>2, <1>3, <1>4, <1>5, <1>6, <1>7, <1>8, <1>9 DEF Next, Cycle

(* WakeInv holds initially.                                                *)
LEMMA WakeInit == Init => WakeInv
<1> SUFFICES ASSUME Init PROVE WakeInv
  OBVIOUS
<1>1. Sources(window, committed)
  BY SourcesEmpty DEF Init
<1>2. \A s \in Slot : ~IQ.q[s].valid
  BY DEF Init, EmptyQueue, Blank
<1> QED  BY <1>1, <1>2 DEF WakeInv, Woke

(* WakeInv holds always.                                                   *)
LEMMA WakeInvariant == Spec => []WakeInv
<1>1. Init => WakeInv
  BY WakeInit
<1>2. StructInv /\ WakeInv /\ [Next]_vars => WakeInv'
  BY WakeStep
<1> QED  BY <1>1, <1>2, StructAlways, PTL DEF Spec

(* Whenever a broadcast happens relative to the dispatch of its readers,   *)
(* the ready operands that the queue keeps agree with the ready bits.      *)
THEOREM NoWakeupLost == Spec => []NoLostWakeup
<1>1. WakeInv => NoLostWakeup
  BY WokeIff DEF WakeInv
<1> QED  BY <1>1, WakeInvariant, PTL

-----------------------------------------------------------------------------
(* The values of the registers, and what they depend on: w only loses its  *)
(* end and completes, and L only moves what is not at stake.               *)
AtLast(L, l, i) == InCell(L, l, ex_depth[l] - 1, i)

(* The last execute stage is a cell of its lane.                           *)
LEMMA AtLastCell ==
  ASSUME NEW L, NEW l \in Lane, NEW i
  PROVE  AtLast(L, l, i) <=> LastOf(L, l).valid /\ LastOf(L, l).index = i
<1>1. PICK d : d = ex_depth[l] - 1
  OBVIOUS
<1>2. d \in 0..(ex_depth[l] - 1) /\ d \in (-1)..ex_depth[l]
  BY <1>1, LaneDepth
<1>3. Cell(L, l, d) = L[l].ex[d]
  BY <1>2, ExCell
<1> QED  BY <1>1, <1>2, <1>3 DEF AtLast, InCell, LastOf

Prefix(v, w) == /\ IsWindow(v) /\ IsWindow(w) /\ Len(v) <= Len(w)
                /\ \A j \in 1..Len(v) : SameCode(v[j], w[j])
SameWb(L, M, h, m) ==
  \A l \in Lane : M[l].wb.valid =>
    /\ L[l].wb.valid /\ M[l].wb.index = L[l].wb.index
    /\ PosIn(h, L[l].wb.index) \in 1..m
SameLast(L, M, h, m) ==
  \A l \in Lane, j \in 1..m : AtLast(L, l, AtIn(h, j)) => AtLast(M, l, AtIn(h, j))
SameRr(L, M, h, m) ==
  \A l \in Lane : M[l].rr.valid =>
    /\ L[l].rr.valid /\ M[l].rr.index = L[l].rr.index
    /\ PosIn(h, L[l].rr.index) \in 1..m

(* What a prefix of the window keeps of it.                                *)
LEMMA PrefixFields ==
  ASSUME NEW v, NEW w, Prefix(v, w)
  PROVE  \A j \in 1..Len(v) :
           /\ j \in 1..Len(w) /\ v[j].kind = w[j].kind /\ v[j].tags = w[j].tags
           /\ v[j].dest_valid = w[j].dest_valid /\ v[j].phys_reg = w[j].phys_reg
           /\ Dest(v[j]) = Dest(w[j])
<1>1. Len(v) \in Nat /\ Len(w) \in Nat /\ Len(v) <= Len(w)
  BY WindowSeq DEF Prefix
<1>2. \A j \in 1..Len(v) : SameCode(v[j], w[j])
  BY DEF Prefix
<1> SUFFICES ASSUME NEW j \in 1..Len(v)
             PROVE  /\ j \in 1..Len(w) /\ v[j].kind = w[j].kind /\ v[j].tags = w[j].tags
                    /\ v[j].dest_valid = w[j].dest_valid /\ v[j].phys_reg = w[j].phys_reg
                    /\ Dest(v[j]) = Dest(w[j])
  OBVIOUS
<1>3. /\ v[j].kind = w[j].kind /\ v[j].tags = w[j].tags
      /\ v[j].dest_valid = w[j].dest_valid /\ v[j].phys_reg = w[j].phys_reg
  BY <1>2 DEF SameCode
<1>4. Dest(v[j]) = Dest(w[j])
  BY <1>3 DEF Dest
<1> QED  BY <1>1, <1>3, <1>4

(* Values depends on the window and on three kinds of register.            *)
LEMMA ValuesKept ==
  ASSUME NEW w, NEW v, Prefix(v, w), NEW c, NEW h, NEW L, NEW R, NEW W,
         Values(w, c, h, L, R, W),
         NEW X, W \subseteq X, NEW U, U \subseteq R \cup X,
         \A j \in 1..Len(v) : v[j].completed => w[j].completed \/ Dest(w[j]) \subseteq X,
         NEW M, SameWb(L, M, h, Len(v)), SameLast(L, M, h, Len(v))
  PROVE  Values(v, c, h, M, U, X)
<1>1. \A j \in 1..Len(v) :
        /\ j \in 1..Len(w) /\ v[j].kind = w[j].kind
        /\ v[j].dest_valid = w[j].dest_valid /\ v[j].phys_reg = w[j].phys_reg
        /\ Dest(v[j]) = Dest(w[j])
  BY PrefixFields
<1>2. \A r \in LogReg : c[r] \in X
  BY DEF Values
<1>3. ASSUME NEW k \in 1..Len(v), v[k].dest_valid, v[k].completed
      PROVE  v[k].phys_reg \in X
  <2>1. CASE w[k].completed
    BY <2>1, <1>1, <1>3 DEF Values
  <2>2. CASE Dest(w[k]) \subseteq X
    BY <2>2, <1>1, <1>3 DEF Dest
  <2> QED  BY <1>3, <2>1, <2>2
<1>4. ASSUME NEW l \in Lane, M[l].wb.valid
      PROVE  Dest(v[PosIn(h, M[l].wb.index)]) \subseteq X
  <2>1. /\ L[l].wb.valid /\ M[l].wb.index = L[l].wb.index
        /\ PosIn(h, L[l].wb.index) \in 1..Len(v)
    BY <1>4 DEF SameWb
  <2>2. Dest(w[PosIn(h, L[l].wb.index)]) \subseteq X
    BY <2>1 DEF Values
  <2> QED  BY <1>1, <2>1, <2>2
<1>5. ASSUME NEW k \in 1..Len(v), v[k].dest_valid, v[k].phys_reg \in U \ X
      PROVE  \E l \in Lane : Finishing(v, h, M, l, k)
  <2>1. k \in 1..Len(w) /\ w[k].dest_valid /\ w[k].phys_reg \in R \ W
    BY <1>1, <1>5
  <2>2. PICK l \in Lane : Finishing(w, h, L, l, k)
    BY <2>1 DEF Values
  <2>3. AtLast(M, l, AtIn(h, k))
    BY <2>2 DEF SameLast, Finishing, AtLast
  <2>4. v[k].kind # "load"
    BY <1>1, <2>2 DEF Finishing
  <2> QED  BY <2>3, <2>4 DEF Finishing, AtLast
<1> QED  BY <1>2, <1>3, <1>4, <1>5 DEF Values

(* So does Operands.                                                       *)
LEMMA OperandsKept ==
  ASSUME NEW w, NEW v, Prefix(v, w), NEW h, NEW s, NEW n, NEW t, NEW m,
         Remaining(s, n) \subseteq Remaining(t, m),
         NEW L, NEW W, Operands(s, n, w, h, L, W), NEW X, W \subseteq X,
         NEW M, SameRr(L, M, h, Len(v)), SameLast(L, M, h, Len(v))
  PROVE  Operands(t, m, v, h, M, X)
<1>1. \A j \in 1..Len(v) :
        /\ j \in 1..Len(w) /\ v[j].kind = w[j].kind /\ v[j].tags = w[j].tags
        /\ v[j].dest_valid = w[j].dest_valid /\ v[j].phys_reg = w[j].phys_reg
  BY PrefixFields
<1>2. ASSUME NEW l \in Lane, M[l].rr.valid, NEW a \in v[PosIn(h, M[l].rr.index)].tags
      PROVE  \/ a \in X
             \/ \E j \in 1..Len(v), q \in Remaining(t, m) :
                  /\ j < PosIn(h, M[l].rr.index) /\ v[j].dest_valid /\ v[j].phys_reg = a
                  /\ Finishing(v, h, M, q, j)
  <2>1. /\ L[l].rr.valid /\ M[l].rr.index = L[l].rr.index
        /\ PosIn(h, L[l].rr.index) \in 1..Len(v)
    BY <1>2 DEF SameRr
  <2>2. PICK k : k = PosIn(h, L[l].rr.index)
    OBVIOUS
  <2>3. a \in w[k].tags /\ k \in 1..Len(v) /\ PosIn(h, M[l].rr.index) = k
    BY <1>1, <1>2, <2>1, <2>2
  <2>4. CASE a \in W
    BY <2>4
  <2>5. CASE a \notin W
    <3>1. PICK j \in 1..Len(w), q \in Remaining(s, n) :
            j < k /\ w[j].dest_valid /\ w[j].phys_reg = a /\ Finishing(w, h, L, q, j)
      BY <2>1, <2>2, <2>3, <2>5 DEF Operands
    <3>2. j \in 1..Len(v)
      <4>1. Len(v) \in Nat /\ Len(w) \in Nat
        BY WindowSeq DEF Prefix
      <4> QED  BY <2>3, <3>1, <4>1
    <3>3. q \in Lane /\ q \in Remaining(t, m)
      BY <3>1 DEF Remaining
    <3>4. AtLast(M, q, AtIn(h, j))
      BY <3>1, <3>2, <3>3 DEF SameLast, Finishing, AtLast
    <3>5. Finishing(v, h, M, q, j)
      BY <1>1, <3>1, <3>2, <3>4 DEF Finishing, AtLast
    <3> QED  BY <1>1, <2>3, <3>1, <3>2, <3>3, <3>5
  <2> QED  BY <2>4, <2>5
<1> QED  BY <1>2 DEF Operands

(* Only Execute uses up the lanes before Register Read.                    *)
LEMMA RemainingAfter ==
  ASSUME NEW s, NEW n, NEW t, NEW m, s = t \/ (t = After(s) /\ m = 0), s \in StageName,
         s # "execute"
  PROVE  Remaining(s, n) \subseteq Remaining(t, m)
<1>1. t # "register_read" \/ s = "register_read"
  BY DEF After, StageName
<1>2. \A l \in Lane : l >= 0
  BY LaneDepth
<1>3. t = "execute" => m = 0
  OBVIOUS
<1> QED  BY <1>1, <1>2, <1>3 DEF Remaining

-----------------------------------------------------------------------------
(* Registers that are cleared, written back or killed.                     *)
FewerCells(L, M, h, m) ==
  \A l \in Lane : \A d \in Reg(l) : Cell(M, l, d).valid =>
    /\ Cell(L, l, d).valid /\ Cell(M, l, d).index = Cell(L, l, d).index
    /\ PosIn(h, Cell(L, l, d).index) \in 1..m
LastCells(L, M, h, m) ==
  \A l \in Lane : \A d \in Reg(l) :
    d # ex_depth[l] /\ Cell(L, l, d).valid /\ PosIn(h, Cell(L, l, d).index) \in 1..m =>
      Cell(M, l, d).valid /\ Cell(M, l, d).index = Cell(L, l, d).index

(* Fewer valid cells keep those before Register Read and Writeback.        *)
LEMMA SameFewer ==
  ASSUME NEW L, NEW M, NEW h, NEW m, FewerCells(L, M, h, m)
  PROVE  SameWb(L, M, h, m) /\ SameRr(L, M, h, m)
<1>1. SameWb(L, M, h, m)
  <2> SUFFICES ASSUME NEW l \in Lane, M[l].wb.valid
               PROVE  /\ L[l].wb.valid /\ M[l].wb.index = L[l].wb.index
                      /\ PosIn(h, L[l].wb.index) \in 1..m
    BY DEF SameWb
  <2>1. PICK d : d = ex_depth[l]
    OBVIOUS
  <2>2. d \in Reg(l) /\ Cell(M, l, d) = M[l].wb /\ Cell(L, l, d) = L[l].wb
    BY <2>1, WbCell, LaneDepth
  <2> QED  BY <2>2 DEF FewerCells
<1>2. SameRr(L, M, h, m)
  <2> SUFFICES ASSUME NEW l \in Lane, M[l].rr.valid
               PROVE  /\ L[l].rr.valid /\ M[l].rr.index = L[l].rr.index
                      /\ PosIn(h, L[l].rr.index) \in 1..m
    BY DEF SameRr
  <2>1. PICK d : d = -1
    OBVIOUS
  <2>2. d \in Reg(l) /\ Cell(M, l, d) = M[l].rr /\ Cell(L, l, d) = L[l].rr
    BY <2>1, RrCell
  <2> QED  BY <2>2 DEF FewerCells
<1> QED  BY <1>1, <1>2

(* Surviving cells keep what is in the last execute stages.                *)
LEMMA SameLastCells ==
  ASSUME NEW L, NEW M, NEW h \in ALIndex, NEW m \in Nat, m <= n_active, LastCells(L, M, h, m)
  PROVE  SameLast(L, M, h, m)
<1> SUFFICES ASSUME NEW l \in Lane, NEW j \in 1..m, AtLast(L, l, AtIn(h, j))
             PROVE  AtLast(M, l, AtIn(h, j))
  BY DEF SameLast
<1>1. PICK d, i : d = ex_depth[l] - 1 /\ i = AtIn(h, j)
  OBVIOUS
<1>2. d \in Reg(l) /\ d # ex_depth[l]
  BY <1>1, LaneDepth
<1>3. Cell(L, l, d).valid /\ Cell(L, l, d).index = i
  BY <1>1 DEF AtLast, InCell
<1>4. PosIn(h, i) = j
  <2>1. j \in 1..n_active
    BY Constants
  <2> QED  BY <1>1, <2>1, AtRange
<1>5. PosIn(h, Cell(L, l, d).index) \in 1..m
  BY <1>3, <1>4
<1>6. Cell(M, l, d).valid /\ Cell(M, l, d).index = i
  BY <1>2, <1>3, <1>5 DEF LastCells
<1>7. d \in (-1)..ex_depth[l]
  BY <1>2 DEF Reg
<1> QED  BY <1>1, <1>6, <1>7 DEF AtLast, InCell

(* The instructions in the registers are in the window.                    *)
LEMMA CellsInWindow ==
  ASSUME NEW w, NEW h, NEW L, NEW iq, NEW S, Fits(w, h, L, iq, S)
  PROVE  \A l \in Lane : \A d \in Reg(l) : Cell(L, l, d).valid =>
           PosIn(h, Cell(L, l, d).index) \in 1..Len(w)
<1> SUFFICES ASSUME NEW l \in Lane, NEW d \in Reg(l), Cell(L, l, d).valid
             PROVE  PosIn(h, Cell(L, l, d).index) \in 1..Len(w)
  OBVIOUS
<1>1. PICK c : c = Cell(L, l, d)
  OBVIOUS
<1> QED  BY <1>1, CellFlight

(* An emptied Writeback register is the only cell that changes.            *)
LEMMA CellsWritten ==
  ASSUME NEW w, NEW h, NEW L, NEW iq, NEW S, Fits(w, h, L, iq, S),
         NEW n \in Lane, NEW M, M = Written(L, n)
  PROVE  FewerCells(L, M, h, Len(w)) /\ LastCells(L, M, h, Len(w))
<1>1. LanesOK(L)
  BY FitsFields
<1>2. \A l \in Lane : \A d \in Reg(l) :
        Cell(M, l, d) = IF l = n /\ d = ex_depth[n] THEN NoPlace ELSE Cell(L, l, d)
  BY <1>1, WrittenCells
<1>3. FewerCells(L, M, h, Len(w))
  BY <1>2, RegFields, CellsInWindow DEF FewerCells
<1>4. LastCells(L, M, h, Len(w))
  BY <1>2 DEF LastCells
<1> QED  BY <1>3, <1>4

(* A resolved branch changes no index of a cell.                           *)
LEMMA CellsCleared ==
  ASSUME NEW w, NEW h, NEW L, NEW iq, NEW S, Fits(w, h, L, iq, S),
         NEW n \in Lane, NEW b, NEW M0, M0 = Cleared(L, b), NEW M, M = Written(M0, n)
  PROVE  FewerCells(L, M, h, Len(w)) /\ LastCells(L, M, h, Len(w))
<1>1. LanesOK(L)
  BY FitsFields
<1>2. /\ LanesOK(M0)
      /\ \A l \in Lane : \A d \in Reg(l) : Cell(M0, l, d) = ClearedPlace(b, Cell(L, l, d))
  BY <1>1, ClearedCells
<1>3. \A l \in Lane : \A d \in Reg(l) :
        /\ Cell(M0, l, d).valid <=> Cell(L, l, d).valid
        /\ Cell(M0, l, d).valid => Cell(M0, l, d).index = Cell(L, l, d).index
  <2> SUFFICES ASSUME NEW l \in Lane, NEW d \in Reg(l)
               PROVE  /\ Cell(M0, l, d).valid <=> Cell(L, l, d).valid
                      /\ Cell(M0, l, d).valid => Cell(M0, l, d).index = Cell(L, l, d).index
    OBVIOUS
  <2>1. Cell(L, l, d) \in LaneReg
    BY <1>1, CellType
  <2> QED  BY <1>2, <2>1, ResolvedPlace
<1>4. \A l \in Lane : \A d \in Reg(l) :
        Cell(M, l, d) = IF l = n /\ d = ex_depth[n] THEN NoPlace ELSE Cell(M0, l, d)
  BY <1>2, WrittenCells
<1>5. FewerCells(L, M, h, Len(w))
  BY <1>3, <1>4, RegFields, CellsInWindow DEF FewerCells
<1>6. LastCells(L, M, h, Len(w))
  BY <1>3, <1>4 DEF LastCells
<1> QED  BY <1>5, <1>6

(* A recovery empties the cells of instructions behind the branch.         *)
LEMMA CellsCut ==
  ASSUME NEW w, NEW h, NEW L, NEW iq, NEW S, Fits(w, h, L, iq, S),
         NEW n \in Lane, NEW i, NEW b, BranchDone(w, h, L, n, i, b),
         NEW M0, M0 = Killed(L, b), NEW M, M = Written(M0, n)
  PROVE  FewerCells(L, M, h, PosIn(h, i)) /\ LastCells(L, M, h, PosIn(h, i))
<1>1. /\ Setting(w, h, L, iq.q, S) /\ QueueOK(iq, Ages(h, iq.q))
      /\ Housed(w, h, L, iq.q, S) /\ WindowOK(w) /\ Placed(w, h, L, iq.q, S)
      /\ IsWindow(w) /\ h \in ALIndex /\ LanesOK(L)
  BY FitsFields
<1>2. PICK r, v, T, k : /\ r = Squashed(iq, b) /\ v = CutAt(w, PosIn(h, i))
                        /\ T = StalledBefore(S, h, PosIn(h, i)) /\ k = PosIn(h, i)
  OBVIOUS
<1>3. /\ QueueOK(r, Ages(h, iq.q)) /\ SameInsts(iq, r)
      /\ Occupied(r.q) = {s \in Occupied(iq.q) : b \notin iq.q[s].branch_mask}
  <2>1. PICK K : K = Ages(h, iq.q)
    OBVIOUS
  <2>2. QueueOK(iq, K)
    BY <1>1, <2>1
  <2>3. /\ QueueOK(Squashed(iq, b), K) /\ SameInsts(iq, Squashed(iq, b))
        /\ Occupied(Squashed(iq, b).q) = {s \in Occupied(iq.q) : b \notin iq.q[s].branch_mask}
    BY ONLY <2>2, SquashedQueue
  <2> QED  BY ONLY <1>2, <2>1, <2>3
<1>4. L[n].wb.valid /\ i = L[n].wb.index
  BY WbCell DEF BranchDone
<1>5. PICK P : P = r.q
  OBVIOUS
<1>6. /\ P \in [Slot -> Entry]
      /\ \A s \in Slot : /\ P[s].valid <=> iq.q[s].valid /\ b \notin iq.q[s].branch_mask
                         /\ P[s].index = iq.q[s].index /\ P[s].tags = iq.q[s].tags
                         /\ P[s].branch_mask = iq.q[s].branch_mask
  <2>1. r.q \in [Slot -> Entry]
    BY <1>1, <1>3, FewerQueueOK
  <2> QED  BY <1>3, <1>5, <2>1 DEF SameInsts, SameInst, Occupied
<1>7. /\ Setting(w, h, L, iq.q, S) /\ Housed(w, h, L, iq.q, S) /\ WindowOK(w)
  BY <1>1
<1>8. \A l \in Lane : \A d \in Reg(l) :
        /\ Cell(M, l, d).valid => /\ Cell(M, l, d) = Cell(L, l, d)
                                  /\ PosIn(h, Cell(L, l, d).index) < PosIn(h, i)
        /\ Cell(L, l, d).valid /\ PosIn(h, Cell(L, l, d).index) < PosIn(h, i)
             => Cell(M, l, d) = Cell(L, l, d)
  BY ONLY <1>2, <1>6, <1>7, n \in Lane, BranchDone(w, h, L, n, i, b),
     M0 = Killed(L, b), M = Written(M0, n), CutPlaces
<1>9. k \in Nat /\ i \in ALIndex
  BY <1>1, <1>2, <1>4, WbFlight, WindowSeq
<1>10. FewerCells(L, M, h, k)
  <2> SUFFICES ASSUME NEW l \in Lane, NEW d \in Reg(l), Cell(M, l, d).valid
               PROVE  /\ Cell(L, l, d).valid /\ Cell(M, l, d).index = Cell(L, l, d).index
                      /\ PosIn(h, Cell(L, l, d).index) \in 1..k
    BY DEF FewerCells
  <2>1. Cell(M, l, d) = Cell(L, l, d) /\ PosIn(h, Cell(L, l, d).index) < k
    BY <1>2, <1>8
  <2>2. Cell(L, l, d).valid
    BY <2>1
  <2>3. PosIn(h, Cell(L, l, d).index) \in 1..Len(w) /\ Len(w) \in Nat
    BY <1>1, <2>2, CellsInWindow, WindowSeq
  <2> QED  BY <1>9, <2>1, <2>2, <2>3
<1>11. LastCells(L, M, h, k)
  <2> SUFFICES ASSUME NEW l \in Lane, NEW d \in Reg(l), d # ex_depth[l], Cell(L, l, d).valid,
                      PosIn(h, Cell(L, l, d).index) \in 1..k
               PROVE  Cell(M, l, d).valid /\ Cell(M, l, d).index = Cell(L, l, d).index
    BY DEF LastCells
  <2>1. PosIn(h, Cell(L, l, d).index) # k
    <3>1. SUFFICES ASSUME PosIn(h, Cell(L, l, d).index) = k PROVE FALSE
      OBVIOUS
    <3>2. /\ l \in Int /\ d \in Int /\ Cell(L, l, d).index \in ALIndex
          /\ Holds(L, iq.q, S, l, d, Cell(L, l, d).index)
      BY <1>1, CellToken
    <3>3. /\ n \in Int /\ ex_depth[n] \in Int /\ Holds(L, iq.q, S, n, ex_depth[n], i)
      <4>1. ex_depth[n] \in Reg(n) /\ ex_depth[n] \in Int /\ n \in Int
        BY LaneDepth
      <4> QED  BY <1>1, <4>1, CellToken DEF BranchDone
    <3>4. Cell(L, l, d).index = i
      BY <1>1, <1>2, <1>9, <3>1, <3>2, PosRange
    <3>5. l = n /\ d = ex_depth[n]
      BY <1>1, <1>9, <3>2, <3>3, <3>4 DEF Placed
    <3> QED  BY <3>5
  <2>2. PosIn(h, Cell(L, l, d).index) < k
    BY <1>9, <2>1
  <2> QED  BY <1>2, <1>8, <2>2
<1> QED  BY <1>2, <1>10, <1>11

-----------------------------------------------------------------------------
(* Retire and Writeback.                                                   *)
LEMMA ValuesEmpty ==
  ASSUME NEW c \in [LogReg -> PhysReg], NEW h, NEW L, L = [l \in Lane |-> EmptyLane(l)],
         NEW R \in SUBSET PhysReg, NEW s, NEW n
  PROVE  Values(<<>>, c, h, L, R, PhysReg) /\ Operands(s, n, <<>>, h, L, PhysReg)
<1>1. \A l \in Lane : ~L[l].wb.valid /\ ~L[l].rr.valid
  <2> SUFFICES ASSUME NEW l \in Lane PROVE ~L[l].wb.valid /\ ~L[l].rr.valid
    OBVIOUS
  <2>1. PICK d : d = -1
    OBVIOUS
  <2>2. L[l].rr = NoPlace /\ L[l].wb = NoPlace
    BY <2>1, EmptyCells, WbCell, RrCell, LaneDepth
  <2> QED  BY <2>2, RegFields
<1>2. \A k : k \notin 1..Len(<<>>)
  BY NoWindow
<1>3. \A r \in LogReg : c[r] \in PhysReg
  OBVIOUS
<1> QED  BY <1>1, <1>2, <1>3 DEF Values, Operands

(* The instructions in the registers do not move when the head leaves.     *)
LEMMA CellCommit ==
  ASSUME NEW w, NEW h, NEW L, NEW iq, NEW S, Fits(w, h, L, iq, S),
         w # <<>>, w[1].completed, NEW v, v = Left(w), NEW g, g = Next1(h, n_active),
         NEW l \in Lane, NEW d \in Reg(l), NEW c, c = Cell(L, l, d), c.valid
  PROVE  /\ PosIn(g, c.index) \in 1..Len(v) /\ PosIn(g, c.index) + 1 = PosIn(h, c.index)
         /\ v[PosIn(g, c.index)] = w[PosIn(h, c.index)]
         /\ AtIn(g, PosIn(g, c.index)) = c.index
<1>1. IsWindow(w) /\ h \in ALIndex
  BY FitsFields
<1>2. c.index \in ALIndex /\ InFlight(w, h, c.index)
  BY CellFlight
<1>3. /\ g \in ALIndex /\ PosIn(g, c.index) + 1 = PosIn(h, c.index)
      /\ PosIn(g, c.index) \in 1..Len(v) /\ v[PosIn(g, c.index)] = w[PosIn(h, c.index)]
  BY <1>1, <1>2, FlightCommit
<1> QED  BY <1>2, <1>3, PosRange

(* A commit moves the positions of what is about to finish by one.         *)
LEMMA FinishingCommit ==
  ASSUME NEW w, NEW h, NEW L, NEW iq, NEW S, Fits(w, h, L, iq, S),
         w # <<>>, w[1].completed, NEW v, v = Left(w), NEW g, g = Next1(h, n_active),
         NEW k \in 1..Len(w), NEW l \in Lane, Finishing(w, h, L, l, k)
  PROVE  /\ k - 1 \in 1..Len(v) /\ v[k - 1] = w[k] /\ Finishing(v, g, L, l, k - 1)
<1>1. IsWindow(w) /\ h \in ALIndex /\ Len(w) \in Nat /\ Len(w) <= n_active
  BY FitsFields, WindowSeq
<1>2. PICK d, c : d = ex_depth[l] - 1 /\ c = Cell(L, l, d)
  OBVIOUS
<1>3. d \in Reg(l) /\ c.valid /\ c.index = AtIn(h, k) /\ w[k].kind # "load"
  BY <1>2, LaneDepth DEF Finishing, InCell
<1>4. PosIn(h, c.index) = k
  <2>1. k \in 1..n_active
    BY <1>1, Constants
  <2> QED  BY <1>1, <1>3, <2>1, AtRange
<1>5. /\ PosIn(g, c.index) \in 1..Len(v) /\ PosIn(g, c.index) + 1 = PosIn(h, c.index)
      /\ v[PosIn(g, c.index)] = w[PosIn(h, c.index)]
      /\ AtIn(g, PosIn(g, c.index)) = c.index
  BY <1>2, <1>3, CellCommit
<1>6. PICK j : j = PosIn(g, c.index)
  OBVIOUS
<1>7. j \in Int
  <2>1. IsWindow(v)
    BY <1>1, TailWindow
  <2> QED  BY <1>5, <1>6, <2>1, WindowSeq
<1>8. k - 1 = j
  BY <1>4, <1>5, <1>6, <1>7
<1>9. j \in 1..Len(v) /\ v[j] = w[k] /\ AtIn(g, j) = c.index
  BY <1>4, <1>5, <1>6
<1>10. InCell(L, l, d, AtIn(g, j))
  BY <1>2, <1>3, <1>9 DEF InCell, Reg
<1>11. Finishing(v, g, L, l, j)
  BY <1>2, <1>3, <1>9, <1>10 DEF Finishing
<1> QED  BY <1>8, <1>9, <1>11

(* A commit keeps Values: the head's register is written.                  *)
LEMMA ValuesCommit ==
  ASSUME NEW w, NEW h, NEW L, NEW iq, NEW S, Fits(w, h, L, iq, S),
         w # <<>>, w[1].completed, NEW v, v = Left(w), NEW g, g = Next1(h, n_active),
         NEW c \in [LogReg -> PhysReg], NEW R, NEW W, Values(w, c, h, L, R, W),
         NEW m, m = AfterHead(c, w[1])
  PROVE  Values(v, m, g, L, R, W)
<1>1. IsWindow(w) /\ h \in ALIndex /\ Len(w) \in Nat
  BY FitsFields, WindowSeq
<1>2. /\ IsWindow(v) /\ Len(v) = Len(w) - 1 /\ Len(w) >= 1
      /\ \A j \in 1..Len(v) : v[j] = w[j + 1]
  BY <1>1, TailWindow
<1>3. \A r \in LogReg : m[r] \in W
  <2>1. w[1] \in Inst /\ 1 \in 1..Len(w)
    BY <1>1, HeadFields
  <2>2. \A r \in LogReg : m[r] = IF Writes(w[1], r) THEN w[1].phys_reg ELSE c[r]
    BY <2>1, AfterHeadType
  <2>3. w[1].dest_valid => w[1].phys_reg \in W
    BY <2>1 DEF Values
  <2>4. \A r \in LogReg : c[r] \in W
    BY DEF Values
  <2> QED  BY <2>2, <2>3, <2>4 DEF Writes
<1>4. \A k \in 1..Len(v) : v[k] = w[k + 1] /\ k + 1 \in 1..Len(w) /\ (k + 1) - 1 = k
  BY <1>1, <1>2
<1>5. \A k \in 1..Len(v) : v[k].dest_valid /\ v[k].completed => v[k].phys_reg \in W
  BY <1>4 DEF Values
<1>6. \A l \in Lane : L[l].wb.valid => Dest(v[PosIn(g, L[l].wb.index)]) \subseteq W
  <2> SUFFICES ASSUME NEW l \in Lane, L[l].wb.valid
               PROVE  Dest(v[PosIn(g, L[l].wb.index)]) \subseteq W
    OBVIOUS
  <2>1. PICK d, p : d = ex_depth[l] /\ p = L[l].wb
    OBVIOUS
  <2>2. d \in Reg(l) /\ p = Cell(L, l, d) /\ p.valid
    BY <2>1, WbCell, LaneDepth
  <2>3. v[PosIn(g, p.index)] = w[PosIn(h, p.index)]
    BY <2>2, CellCommit
  <2>4. Dest(w[PosIn(h, p.index)]) \subseteq W
    BY <2>1, <2>2 DEF Values
  <2> QED  BY <2>1, <2>3, <2>4
<1>7. ASSUME NEW k \in 1..Len(v), v[k].dest_valid, v[k].phys_reg \in R \ W
      PROVE  \E l \in Lane : Finishing(v, g, L, l, k)
  <2>1. PICK q : q = k + 1
    OBVIOUS
  <2>2. q \in 1..Len(w) /\ w[q].dest_valid /\ w[q].phys_reg \in R \ W /\ q - 1 = k
    BY <1>4, <1>7, <2>1
  <2>3. PICK l \in Lane : Finishing(w, h, L, l, q)
    BY <2>2 DEF Values
  <2>4. Finishing(v, g, L, l, q - 1)
    BY <2>2, <2>3, FinishingCommit
  <2> QED  BY <2>2, <2>4
<1> QED  BY <1>3, <1>5, <1>6, <1>7 DEF Values

(* A commit keeps Operands: the head is about to finish nowhere.           *)
LEMMA OperandsCommit ==
  ASSUME NEW w, NEW h, NEW L, NEW iq, NEW S, Fits(w, h, L, iq, S),
         w # <<>>, w[1].completed, NEW v, v = Left(w), NEW g, g = Next1(h, n_active),
         NEW s, NEW n, NEW W, Operands(s, n, w, h, L, W),
         NEW t, NEW m, Remaining(s, n) \subseteq Remaining(t, m)
  PROVE  Operands(t, m, v, g, L, W)
<1> SUFFICES ASSUME NEW l \in Lane, L[l].rr.valid, NEW a \in v[PosIn(g, L[l].rr.index)].tags,
                    a \notin W
             PROVE  \E j \in 1..Len(v), q \in Remaining(t, m) :
                      /\ j < PosIn(g, L[l].rr.index) /\ v[j].dest_valid /\ v[j].phys_reg = a
                      /\ Finishing(v, g, L, q, j)
  BY DEF Operands
<1>1. PICK d, p : d = -1 /\ p = L[l].rr
  OBVIOUS
<1>2. d \in Reg(l) /\ p = Cell(L, l, d) /\ p.valid
  BY <1>1, RrCell
<1>3. /\ PosIn(g, p.index) \in 1..Len(v) /\ PosIn(g, p.index) + 1 = PosIn(h, p.index)
      /\ v[PosIn(g, p.index)] = w[PosIn(h, p.index)]
  BY <1>2, CellCommit
<1>4. a \in w[PosIn(h, p.index)].tags
  BY <1>1, <1>3
<1>5. PICK j \in 1..Len(w), q \in Remaining(s, n) :
        /\ j < PosIn(h, p.index) /\ w[j].dest_valid /\ w[j].phys_reg = a
        /\ Finishing(w, h, L, q, j)
  BY <1>1, <1>4 DEF Operands
<1>6. q \in Lane /\ q \in Remaining(t, m)
  BY <1>5 DEF Remaining
<1>7. /\ j - 1 \in 1..Len(v) /\ v[j - 1] = w[j] /\ Finishing(v, g, L, q, j - 1)
  BY <1>5, <1>6, FinishingCommit
<1>8. j - 1 < PosIn(g, p.index)
  <2>1. Len(w) \in Nat /\ Len(v) \in Nat
    BY FitsFields, WindowSeq, TailWindow
  <2> QED  BY <1>3, <1>5, <2>1
<1>9. v[j - 1].dest_valid /\ v[j - 1].phys_reg = a
  BY <1>5, <1>7
<1> QED  BY <1>1, <1>6, <1>7, <1>8, <1>9

(* An instruction whose register is written completes, the window may be   *)
(* cut, and the registers of the lanes keep what is left of it.            *)
Shrinks(w, v, k, h, L, M) ==
  /\ Prefix(v, w) /\ h \in ALIndex
  /\ \A j \in 1..Len(v) : v[j].completed => w[j].completed \/ j = k
  /\ FewerCells(L, M, h, Len(v)) /\ LastCells(L, M, h, Len(v))

(* What a shrinking window means for each of the three.                    *)
LEMMA ShrinksSame ==
  ASSUME NEW w, NEW v, NEW k, NEW h, NEW L, NEW M, Shrinks(w, v, k, h, L, M)
  PROVE  /\ Prefix(v, w) /\ SameWb(L, M, h, Len(v)) /\ SameRr(L, M, h, Len(v))
         /\ SameLast(L, M, h, Len(v))
<1>1. Len(v) \in Nat /\ Len(v) <= n_active
  BY WindowSeq DEF Prefix, Shrinks
<1> QED  BY <1>1, SameFewer, SameLastCells DEF Shrinks

(* Values of a window that shrinks.                                        *)
LEMMA ValuesPrefix ==
  ASSUME NEW w, NEW v, NEW k, NEW h, NEW L, NEW M, Shrinks(w, v, k, h, L, M),
         NEW c, NEW R, NEW W, Values(w, c, h, L, R, W), NEW X, W \subseteq X,
         NEW U, U \subseteq R \cup X, Dest(w[k]) \subseteq X
  PROVE  Values(v, c, h, M, U, X)
<1>1. /\ Prefix(v, w) /\ SameWb(L, M, h, Len(v)) /\ SameLast(L, M, h, Len(v))
  BY ShrinksSame
<1>2. \A j \in 1..Len(v) : v[j].completed => w[j].completed \/ Dest(w[j]) \subseteq X
  BY DEF Shrinks
<1> QED  BY ONLY <1>1, <1>2, Values(w, c, h, L, R, W), W \subseteq X,
     U \subseteq R \cup X, ValuesKept

(* Operands of a window that shrinks.                                      *)
LEMMA OperandsPrefix ==
  ASSUME NEW w, NEW v, NEW k, NEW h, NEW L, NEW M, Shrinks(w, v, k, h, L, M),
         NEW s, NEW n, NEW W, Operands(s, n, w, h, L, W), NEW X, W \subseteq X,
         NEW t, NEW m, Remaining(s, n) \subseteq Remaining(t, m)
  PROVE  Operands(t, m, v, h, M, X)
<1>1. /\ Prefix(v, w) /\ SameRr(L, M, h, Len(v)) /\ SameLast(L, M, h, Len(v))
  BY ShrinksSame
<1> QED  BY ONLY <1>1, Operands(s, n, w, h, L, W), W \subseteq X,
     Remaining(s, n) \subseteq Remaining(t, m), OperandsKept

(* A completed instruction changes no other.                               *)
LEMMA PrefixCompleted ==
  ASSUME NEW w, IsWindow(w), NEW k \in 1..Len(w), NEW v, v = CompletedAt(w, k)
  PROVE  /\ Prefix(v, w) /\ Len(v) = Len(w)
         /\ \A j \in 1..Len(v) : v[j].completed => w[j].completed \/ j = k
<1>1. Len(w) \in Nat
  BY WindowSeq
<1> QED  BY <1>1, CompletedWindow DEF Prefix

(* A cut is a prefix up to completion of the branch.                       *)
LEMMA PrefixCut ==
  ASSUME NEW w, IsWindow(w), NEW k \in 1..Len(w), NEW v, v = CutAt(w, k)
  PROVE  /\ Prefix(v, w) /\ Len(v) = k
         /\ \A j \in 1..Len(v) : v[j].completed => w[j].completed \/ j = k
<1>1. Len(w) \in Nat /\ k <= Len(w)
  BY WindowSeq
<1> QED  BY <1>1, CutWindow DEF Prefix

(* The present cells are no more than themselves.                          *)
LEMMA SameCells ==
  ASSUME NEW w, NEW h, NEW L, NEW iq, NEW S, Fits(w, h, L, iq, S)
  PROVE  FewerCells(L, L, h, Len(w)) /\ LastCells(L, L, h, Len(w))
<1>1. FewerCells(L, L, h, Len(w))
  BY CellsInWindow DEF FewerCells
<1>2. LastCells(L, L, h, Len(w))
  BY DEF LastCells
<1> QED  BY <1>1, <1>2

-----------------------------------------------------------------------------
(* Dispatch: the register is read by nobody yet.                           *)
LEMMA EnteredCells ==
  ASSUME NEW w, IsWindow(w), NEW h, NEW l \in Lane, NEW L, NEW k \in 1..Len(w),
         Finishing(w, h, L, l, k), NEW v, v[k] = w[k]
  PROVE  Finishing(v, h, L, l, k)
BY DEF Finishing

Renews(x, R, W, U, X) ==
  /\ X \subseteq W \cup {x.phys_reg}
  /\ \A p \in W : (x.dest_valid => p # x.phys_reg) => p \in X
  /\ x.dest_valid => (x.phys_reg \in U => x.phys_reg \in X)
  /\ \A p \in U : (x.dest_valid => p # x.phys_reg) => p \in R

(* Dispatch keeps Values: the new register is not ready.                   *)
LEMMA ValuesEntered ==
  ASSUME NEW w, NEW h, NEW L, NEW iq, NEW S, Fits(w, h, L, iq, S), Len(w) < n_active,
         NEW x \in Inst, x.completed => ~x.dest_valid, NEW v, v = Entered(w, x),
         NEW c, x.dest_valid => x.phys_reg \in Names!Unused(c, w),
         NEW R, NEW W, Values(w, c, h, L, R, W), NEW U, NEW X, Renews(x, R, W, U, X)
  PROVE  Values(v, c, h, L, U, X)
<1>0. /\ X \subseteq W \cup {x.phys_reg}
      /\ \A p \in W : (x.dest_valid => p # x.phys_reg) => p \in X
      /\ x.dest_valid => (x.phys_reg \in U => x.phys_reg \in X)
      /\ \A p \in U : (x.dest_valid => p # x.phys_reg) => p \in R
  BY DEF Renews
<1>1. IsWindow(w) /\ h \in ALIndex /\ Len(w) \in Nat
  BY FitsFields, WindowSeq
<1>2. /\ IsWindow(v) /\ Len(v) = Len(w) + 1 /\ v[Len(w) + 1] = x
      /\ \A j \in 1..Len(w) : v[j] = w[j]
  BY <1>1, AppendWindow
<1>3. x.dest_valid => /\ \A r \in LogReg : c[r] # x.phys_reg
                      /\ \A k \in 1..Len(w) : w[k].dest_valid => w[k].phys_reg # x.phys_reg
  BY <1>1, UnusedFields
<1>4. \A r \in LogReg : c[r] \in X
  BY <1>0, <1>3 DEF Values
<1>5. ASSUME NEW k \in 1..Len(v), v[k].dest_valid, v[k].completed PROVE v[k].phys_reg \in X
  <2>1. k # Len(w) + 1
    BY <1>2, <1>5
  <2>2. k \in 1..Len(w) /\ v[k] = w[k]
    BY <1>1, <1>2, <2>1
  <2>3. w[k].phys_reg \in W
    BY <1>5, <2>2 DEF Values
  <2> QED  BY <1>0, <1>3, <1>5, <2>2, <2>3
<1>6. ASSUME NEW l \in Lane, L[l].wb.valid
      PROVE  Dest(v[PosIn(h, L[l].wb.index)]) \subseteq X
  <2>1. PICK k : k = PosIn(h, L[l].wb.index)
    OBVIOUS
  <2>2. k \in 1..Len(w)
    BY <1>6, <2>1, WbFlight
  <2>3. Dest(w[k]) \subseteq W /\ v[k] = w[k]
    BY <1>2, <1>6, <2>1, <2>2 DEF Values
  <2>4. Dest(w[k]) \subseteq X
    BY <1>0, <1>3, <2>2, <2>3 DEF Dest
  <2> QED  BY <2>1, <2>3, <2>4
<1>7. ASSUME NEW k \in 1..Len(v), v[k].dest_valid, v[k].phys_reg \in U \ X
      PROVE  \E l \in Lane : Finishing(v, h, L, l, k)
  <2>1. k # Len(w) + 1
    BY <1>0, <1>2, <1>7
  <2>2. k \in 1..Len(w) /\ v[k] = w[k]
    BY <1>1, <1>2, <2>1
  <2>3. x.dest_valid => w[k].phys_reg # x.phys_reg
    BY <1>3, <1>7, <2>2
  <2>4. w[k].phys_reg \in R \ W
    BY <1>0, <1>7, <2>2, <2>3
  <2>5. PICK l \in Lane : Finishing(w, h, L, l, k)
    BY <1>7, <2>2, <2>4 DEF Values
  <2> QED  BY <1>1, <2>2, <2>5, EnteredCells
<1> QED  BY <1>4, <1>5, <1>6, <1>7 DEF Values

(* Dispatch keeps Operands.                                                *)
LEMMA OperandsEntered ==
  ASSUME NEW w, NEW h, NEW L, NEW iq, NEW S, Fits(w, h, L, iq, S), Len(w) < n_active,
         NEW x \in Inst, NEW v, v = Entered(w, x),
         NEW c, x.dest_valid => x.phys_reg \in Names!Unused(c, w), Sources(w, c),
         NEW s, NEW n, NEW W, Operands(s, n, w, h, L, W),
         NEW R, NEW U, NEW X, Renews(x, R, W, U, X)
  PROVE  Operands(s, n, v, h, L, X)
<1>1. IsWindow(w) /\ h \in ALIndex /\ Len(w) \in Nat
  BY FitsFields, WindowSeq
<1>2. /\ IsWindow(v) /\ Len(v) = Len(w) + 1
      /\ \A j \in 1..Len(w) : v[j] = w[j] /\ j \in 1..Len(v) /\ j \in 1..(Len(w) + 1)
  BY <1>1, AppendWindow
<1> SUFFICES ASSUME NEW l \in Lane, L[l].rr.valid, NEW a \in v[PosIn(h, L[l].rr.index)].tags,
                    a \notin X
             PROVE  \E j \in 1..Len(v), q \in Remaining(s, n) :
                      /\ j < PosIn(h, L[l].rr.index) /\ v[j].dest_valid /\ v[j].phys_reg = a
                      /\ Finishing(v, h, L, q, j)
  BY DEF Operands
<1>3. PICK d, p, k : d = -1 /\ p = L[l].rr /\ k = PosIn(h, p.index)
  OBVIOUS
<1>4. k \in 1..Len(w)
  <2>1. d \in Reg(l) /\ p = Cell(L, l, d) /\ p.valid
    BY <1>3, RrCell
  <2> QED  BY <1>3, <2>1, CellFlight
<1>5. a \in w[k].tags
  BY <1>2, <1>3, <1>4
<1>6. x.dest_valid => a # x.phys_reg
  <2>1. Mapped(w, c, a, k)
    BY <1>4, <1>5 DEF Sources
  <2> QED  BY <1>1, <1>2, <1>4, <2>1, UnusedUnmapped
<1>7. a \notin W
  BY <1>6 DEF Renews
<1>8. PICK j \in 1..Len(w), q \in Remaining(s, n) :
        j < k /\ w[j].dest_valid /\ w[j].phys_reg = a /\ Finishing(w, h, L, q, j)
  BY <1>3, <1>5, <1>7 DEF Operands
<1>9. q \in Lane /\ v[j] = w[j] /\ j \in 1..Len(v)
  BY <1>2, <1>8 DEF Remaining
<1>10. Finishing(v, h, L, q, j)
  BY <1>1, <1>8, <1>9, EnteredCells
<1> QED  BY <1>3, <1>8, <1>9, <1>10

-----------------------------------------------------------------------------
(* More registers are ready: those of instructions about to be executed.   *)
LEMMA ValuesMore ==
  ASSUME NEW w, IsWindow(w), WindowOK(w), NEW c, NEW h, NEW L, NEW R, NEW W,
         Values(w, c, h, L, R, W), NEW B,
         \A a \in B : \E k \in 1..Len(w), l \in Lane :
           w[k].dest_valid /\ w[k].phys_reg = a /\ Finishing(w, h, L, l, k),
         NEW U, U \subseteq R \cup W \cup B
  PROVE  Values(w, c, h, L, U, W)
<1>1. ASSUME NEW k \in 1..Len(w), w[k].dest_valid, w[k].phys_reg \in U \ W
      PROVE  \E l \in Lane : Finishing(w, h, L, l, k)
  <2>1. CASE w[k].phys_reg \in R
    BY <1>1, <2>1 DEF Values
  <2>2. CASE w[k].phys_reg \in B
    <3>1. PICK j \in 1..Len(w), l \in Lane :
            /\ w[j].dest_valid /\ w[j].phys_reg = w[k].phys_reg
            /\ Finishing(w, h, L, l, j)
      BY <2>2
    <3>2. j = k
      BY <1>1, <3>1 DEF WindowOK
    <3> QED  BY <3>1, <3>2
  <2> QED  BY <1>1, <2>1, <2>2
<1> QED  BY <1>1 DEF Values

(* Schedule: an entry that issues has every operand ready.                 *)
LEMMA IssuedSame ==
  ASSUME NEW w, NEW h, NEW L, NEW iq, NEW S, Fits(w, h, L, iq, S),
         NEW n \in Lane, NEW p \in LaneReg, NEW M, M = IssuedTo(L, n, p)
  PROVE  /\ SameWb(L, M, h, Len(w)) /\ SameLast(L, M, h, Len(w))
         /\ \A l \in Lane : M[l].rr = IF l = n THEN p ELSE L[l].rr
<1>1. LanesOK(L)
  BY FitsFields
<1>2. \A l \in Lane : \A d \in Reg(l) :
        Cell(M, l, d) = IF l = n /\ d = -1 THEN p ELSE Cell(L, l, d)
  BY <1>1, IssuedCells
<1>3. SameWb(L, M, h, Len(w))
  <2> SUFFICES ASSUME NEW l \in Lane, M[l].wb.valid
               PROVE  /\ L[l].wb.valid /\ M[l].wb.index = L[l].wb.index
                      /\ PosIn(h, L[l].wb.index) \in 1..Len(w)
    BY DEF SameWb
  <2>1. PICK d : d = ex_depth[l]
    OBVIOUS
  <2>2. d \in Reg(l) /\ d # -1 /\ Cell(M, l, d) = M[l].wb /\ Cell(L, l, d) = L[l].wb
    BY <2>1, WbCell, LaneDepth
  <2>3. M[l].wb = L[l].wb
    BY <1>2, <2>2
  <2> QED  BY <2>2, <2>3, CellsInWindow
<1>4. SameLast(L, M, h, Len(w))
  <2> SUFFICES ASSUME NEW l \in Lane, NEW i, AtLast(L, l, i)
               PROVE  AtLast(M, l, i)
    BY DEF SameLast
  <2>1. PICK d : d = ex_depth[l] - 1
    OBVIOUS
  <2>2. d \in Reg(l) /\ d # -1
    BY <2>1, LaneDepth
  <2>3. Cell(M, l, d) = Cell(L, l, d)
    BY <1>2, <2>2
  <2> QED  BY <2>1, <2>3 DEF AtLast, InCell
<1>5. \A l \in Lane : M[l].rr = IF l = n THEN p ELSE L[l].rr
  <2> SUFFICES ASSUME NEW l \in Lane PROVE M[l].rr = IF l = n THEN p ELSE L[l].rr
    OBVIOUS
  <2>1. PICK d : d = -1
    OBVIOUS
  <2>2. d \in Reg(l) /\ Cell(M, l, d) = M[l].rr /\ Cell(L, l, d) = L[l].rr
    BY <2>1, RrCell
  <2> QED  BY <1>2, <2>1, <2>2
<1> QED  BY <1>3, <1>4, <1>5

(* A window is a prefix of itself.                                         *)
LEMMA PrefixSame ==
  ASSUME NEW w, IsWindow(w)
  PROVE  Prefix(w, w)
BY WindowSeq DEF Prefix, SameCode

(* Issue keeps Values.                                                     *)
LEMMA ValuesIssued ==
  ASSUME NEW w, NEW h, NEW L, NEW iq, NEW S, Fits(w, h, L, iq, S),
         NEW c, NEW R, NEW W, Values(w, c, h, L, R, W),
         NEW M, SameWb(L, M, h, Len(w)), SameLast(L, M, h, Len(w))
  PROVE  Values(w, c, h, M, R, W)
<1>1. IsWindow(w) /\ Prefix(w, w)
  BY FitsFields, PrefixSame
<1>2. \A j \in 1..Len(w) : w[j].completed => w[j].completed \/ Dest(w[j]) \subseteq W
  OBVIOUS
<1>3. W \subseteq W /\ R \subseteq R \cup W
  OBVIOUS
<1> QED  BY ONLY <1>1, <1>2, <1>3, Values(w, c, h, L, R, W), SameWb(L, M, h, Len(w)),
     SameLast(L, M, h, Len(w)), ValuesKept

(* Issue keeps Operands: what it issues has operands that are ready.       *)
LEMMA OperandsIssued ==
  ASSUME NEW w, NEW h, NEW L, NEW iq, NEW S, Fits(w, h, L, iq, S),
         NEW c, Sources(w, c), NEW R, Woke(iq.q, R), NEW W, Values(w, c, h, L, R, W),
         NEW m, Operands("schedule", m, w, h, L, W),
         NEW s \in Occupied(iq.q), iq.q[s].ready = iq.q[s].tags,
         NEW n \in Lane, NEW p \in LaneReg, p.index = iq.q[s].index,
         NEW M, M = IssuedTo(L, n, p)
  PROVE  Operands("schedule", m, w, h, M, W)
<1>1. /\ SameLast(L, M, h, Len(w))
      /\ \A l \in Lane : M[l].rr = IF l = n THEN p ELSE L[l].rr
  BY IssuedSame
<1>2. /\ IsWindow(w) /\ h \in ALIndex /\ Setting(w, h, L, iq.q, S)
      /\ Placed(w, h, L, iq.q, S) /\ Kept(w, h, L, iq.q, S) /\ Len(w) \in Nat
  BY FitsFields, WindowSeq
<1>3. Remaining("schedule", m) = Lane
  BY DEF Remaining
<1>4. PICK k : k = PosIn(h, p.index)
  OBVIOUS
<1>5. k \in 1..Len(w) /\ w[k].tags = iq.q[s].tags /\ w[k].tags \subseteq R
  <2>1. s \in Slot /\ iq.q[s].valid
    BY DEF Occupied
  <2>2. InFlight(w, h, iq.q[s].index) /\ iq.q[s].index \in ALIndex
    BY <1>2, <2>1, PlacedFlight
  <2>3. k \in 1..Len(w)
    BY <1>2, <1>4, <2>2, FlightPos
  <2>4. w[k].tags = iq.q[s].tags
    BY <1>2, <1>4, <2>1 DEF Kept
  <2>5. iq.q[s].ready = iq.q[s].tags \cap R
    BY <2>1 DEF Woke
  <2> QED  BY <2>3, <2>4, <2>5
<1>6. ASSUME NEW j \in 1..Len(w), NEW l \in Lane, Finishing(w, h, L, l, j)
      PROVE  Finishing(w, h, M, l, j)
  BY <1>1, <1>6 DEF Finishing, SameLast, AtLast
<1>7. ASSUME NEW a \in w[k].tags, a \notin W
      PROVE  \E j \in 1..Len(w), l \in Lane :
               /\ j < k /\ w[j].dest_valid /\ w[j].phys_reg = a
               /\ Finishing(w, h, L, l, j)
  <2>1. Mapped(w, c, a, k)
    BY <1>5, <1>7 DEF Sources
  <2>2. \A r \in LogReg : c[r] # a
    BY <1>7 DEF Values
  <2>3. PICK j \in 1..(k - 1) : w[j].dest_valid /\ w[j].phys_reg = a
    BY <2>1, <2>2 DEF Mapped, Writes
  <2>4. j \in 1..Len(w) /\ j < k
    BY <1>2, <1>5
  <2>5. PICK l \in Lane : Finishing(w, h, L, l, j)
    BY <1>5, <1>7, <2>3, <2>4 DEF Values
  <2> QED  BY <2>3, <2>4, <2>5
<1> SUFFICES ASSUME NEW l \in Lane, M[l].rr.valid, NEW a \in w[PosIn(h, M[l].rr.index)].tags,
                    a \notin W
             PROVE  \E j \in 1..Len(w), q \in Lane :
                      /\ j < PosIn(h, M[l].rr.index) /\ w[j].dest_valid /\ w[j].phys_reg = a
                      /\ Finishing(w, h, M, q, j)
  BY <1>3 DEF Operands
<1>8. CASE l = n
  <2>1. PosIn(h, M[l].rr.index) = k
    BY <1>1, <1>4, <1>8
  <2> QED  BY <1>6, <1>7, <2>1
<1>9. CASE l # n
  <2>1. M[l].rr = L[l].rr
    BY <1>1, <1>9
  <2>2. \E j \in 1..Len(w), q \in Lane :
          /\ j < PosIn(h, L[l].rr.index) /\ w[j].dest_valid /\ w[j].phys_reg = a
          /\ Finishing(w, h, L, q, j)
    BY <1>3, <2>1 DEF Operands
  <2> QED  BY <1>6, <2>1, <2>2
<1> QED  BY <1>8, <1>9

-----------------------------------------------------------------------------
(* Register Read: nothing executes before it that could still write.       *)
LEMMA ReadSame ==
  ASSUME NEW w, NEW h, NEW L, NEW iq, NEW S, Fits(w, h, L, iq, S),
         NEW n \in Lane, L[n].rr.valid, ~L[n].ex[0].valid,
         NEW M, M = ReadFrom(L, n, L[n].rr)
  PROVE  /\ SameWb(L, M, h, Len(w)) /\ SameLast(L, M, h, Len(w)) /\ SameRr(L, M, h, Len(w))
         /\ Cell(M, n, 0) = L[n].rr
<1>1. LanesOK(L)
  BY FitsFields
<1>2. PICK p : p = L[n].rr
  OBVIOUS
<1>3. p \in LaneReg
  BY <1>1, <1>2, CellType
<1>4. \A l \in Lane : \A d \in Reg(l) :
        Cell(M, l, d) = IF l = n /\ d = -1 THEN NoPlace
                        ELSE IF l = n /\ d = 0 THEN p ELSE Cell(L, l, d)
  BY <1>1, <1>2, <1>3, ReadCells
<1>5. SameWb(L, M, h, Len(w))
  <2> SUFFICES ASSUME NEW l \in Lane, M[l].wb.valid
               PROVE  /\ L[l].wb.valid /\ M[l].wb.index = L[l].wb.index
                      /\ PosIn(h, L[l].wb.index) \in 1..Len(w)
    BY DEF SameWb
  <2>1. PICK d : d = ex_depth[l]
    OBVIOUS
  <2>2. d \in Reg(l) /\ d # -1 /\ d # 0 /\ Cell(M, l, d) = M[l].wb /\ Cell(L, l, d) = L[l].wb
    BY <2>1, WbCell, LaneDepth
  <2>3. M[l].wb = L[l].wb
    BY <1>4, <2>2
  <2> QED  BY <2>2, <2>3, CellsInWindow
<1>6. SameLast(L, M, h, Len(w))
  <2> SUFFICES ASSUME NEW l \in Lane, NEW i, AtLast(L, l, i)
               PROVE  AtLast(M, l, i)
    BY DEF SameLast
  <2>1. PICK d : d = ex_depth[l] - 1
    OBVIOUS
  <2>2. d \in Reg(l) /\ d # -1
    BY <2>1, LaneDepth
  <2>3. ~(l = n /\ d = 0)
    <3>1. 0 \in 0..(ex_depth[n] - 1)
      BY LaneDepth
    <3>2. ~Cell(L, n, 0).valid
      BY <3>1, ExCell
    <3> QED  BY <2>1, <3>2 DEF AtLast, InCell
  <2>4. Cell(M, l, d) = Cell(L, l, d)
    BY <1>4, <2>2, <2>3
  <2> QED  BY <2>1, <2>4 DEF AtLast, InCell
<1>7. SameRr(L, M, h, Len(w))
  <2> SUFFICES ASSUME NEW l \in Lane, M[l].rr.valid
               PROVE  /\ L[l].rr.valid /\ M[l].rr.index = L[l].rr.index
                      /\ PosIn(h, L[l].rr.index) \in 1..Len(w)
    BY DEF SameRr
  <2>1. PICK d : d = -1
    OBVIOUS
  <2>2. d \in Reg(l) /\ Cell(M, l, d) = M[l].rr /\ Cell(L, l, d) = L[l].rr /\ d # 0
    BY <2>1, RrCell
  <2>3. l # n
    BY <1>4, <2>1, <2>2, RegFields
  <2>4. M[l].rr = L[l].rr
    BY <1>4, <2>2, <2>3
  <2> QED  BY <2>2, <2>4, CellsInWindow
<1>8. Cell(M, n, 0) = p
  <2>1. 0 \in Reg(n) /\ 0 # -1
    BY LaneDepth
  <2> QED  BY <1>4, <2>1
<1> QED  BY <1>2, <1>5, <1>6, <1>7, <1>8

(* Register Read keeps Values: it marks only what is about to finish.      *)
LEMMA ValuesRead ==
  ASSUME NEW w, NEW h, NEW L, NEW iq, NEW S, Fits(w, h, L, iq, S),
         NEW n \in Lane, L[n].rr.valid, ~L[n].ex[0].valid,
         NEW M, M = ReadFrom(L, n, L[n].rr),
         NEW c, NEW R, NEW W, Values(w, c, h, L, R, W),
         NEW U, U = R \cup Reads(w, h, L, n)
  PROVE  Values(w, c, h, M, U, W)
<1>1. IsWindow(w) /\ WindowOK(w) /\ h \in ALIndex
  BY FitsFields
<1>2. /\ SameWb(L, M, h, Len(w)) /\ SameLast(L, M, h, Len(w)) /\ Cell(M, n, 0) = L[n].rr
  BY ReadSame
<1>3. Values(w, c, h, M, R, W)
  BY <1>2, ValuesIssued
<1>4. PICK B, p : B = Reads(w, h, L, n) /\ p = L[n].rr
  OBVIOUS
<1>5. ASSUME NEW a \in B
      PROVE  \E k \in 1..Len(w), l \in Lane :
               w[k].dest_valid /\ w[k].phys_reg = a /\ Finishing(w, h, M, l, k)
  <2>1. PICK k : k = PosIn(h, p.index)
    OBVIOUS
  <2>2. p.valid /\ Early(n) /\ w[k].kind # "load" /\ a \in Broadcast(w[k])
    BY <1>4, <1>5, <2>1 DEF Reads, InstIn
  <2>3. w[k].dest_valid /\ w[k].phys_reg = a
    BY <2>2 DEF Broadcast
  <2>4. PICK d : d = -1
    OBVIOUS
  <2>5. d \in Reg(n) /\ Cell(L, n, d) = p
    BY <1>4, <2>4, RrCell
  <2>6. k \in 1..Len(w) /\ p.index \in ALIndex
    BY <2>1, <2>2, <2>5, CellFlight
  <2>7. AtIn(h, k) = p.index
    BY <1>1, <2>1, <2>6, PosRange
  <2>8. ex_depth[n] - 1 = 0 /\ 0 \in (-1)..ex_depth[n]
    BY <2>2, LaneDepth DEF Early
  <2>9. InCell(M, n, 0, AtIn(h, k))
    BY <1>2, <1>4, <2>2, <2>7, <2>8 DEF InCell
  <2>10. Finishing(w, h, M, n, k)
    BY <2>2, <2>8, <2>9 DEF Finishing
  <2> QED  BY <2>3, <2>6, <2>10
<1>6. U \subseteq R \cup W \cup B
  BY <1>4
<1> QED  BY ONLY <1>1, <1>3, <1>5, <1>6, ValuesMore

(* Register Read keeps Operands.                                           *)
LEMMA OperandsRead ==
  ASSUME NEW w, NEW h, NEW L, NEW iq, NEW S, Fits(w, h, L, iq, S),
         NEW n, NEW W, Operands("register_read", n, w, h, L, W),
         NEW M, SameRr(L, M, h, Len(w)), SameLast(L, M, h, Len(w)),
         NEW t, NEW m
  PROVE  Operands(t, m, w, h, M, W)
<1>1. Prefix(w, w) /\ W \subseteq W
  BY FitsFields, PrefixSame
<1>2. Remaining("register_read", n) \subseteq Remaining(t, m)
  BY DEF Remaining
<1> QED  BY ONLY <1>1, <1>2, Operands("register_read", n, w, h, L, W),
     SameRr(L, M, h, Len(w)), SameLast(L, M, h, Len(w)), OperandsKept

-----------------------------------------------------------------------------
(* Execute: what leaves the last stage is written, and what broadcasts     *)
(* enters it.                                                              *)
Wrote(w, h, L, n, hit) ==
  IF LastOf(L, n).valid THEN Executed(InstIn(w, h, LastOf(L, n)), hit) ELSE {}
ToWb(w, h, L, n, hit) ==
  IF Goes(w, h, L, n, hit) THEN LastOf(L, n) ELSE L[n].wb

(* Execute touches the registers of one lane only.                         *)
LEMMA ExecuteSame ==
  ASSUME NEW w, NEW h, NEW L, NEW iq, NEW S, Fits(w, h, L, iq, S),
         NEW n \in Lane, NEW p \in LaneReg, NEW M, M = Advanced(L, n, p)
  PROVE  /\ \A l \in Lane : M[l].rr = L[l].rr
         /\ \A l \in Lane : M[l].wb = IF l = n THEN p ELSE L[l].wb
         /\ \A l \in Lane : \A j : l # n => (Finishing(w, h, M, l, j) <=> Finishing(w, h, L, l, j))
         /\ \A d \in 1..(ex_depth[n] - 1) : Cell(M, n, d) = Cell(L, n, d - 1)
<1>1. LanesOK(L)
  BY FitsFields
<1>2. PICK d0 : d0 = ex_depth[n] - 1
  OBVIOUS
<1>3. \A l \in Lane : \A d \in Reg(l) :
        Cell(M, l, d) = IF l # n \/ d = -1 THEN Cell(L, l, d)
                        ELSE IF d = ex_depth[n] THEN p
                        ELSE IF d = 0 THEN NoPlace ELSE Cell(L, l, d - 1)
  BY <1>1, <1>2, ExecutedCells
<1>4. \A l \in Lane : M[l].rr = L[l].rr
  <2> SUFFICES ASSUME NEW l \in Lane PROVE M[l].rr = L[l].rr
    OBVIOUS
  <2>1. PICK d : d = -1
    OBVIOUS
  <2>2. d \in Reg(l) /\ Cell(M, l, d) = M[l].rr /\ Cell(L, l, d) = L[l].rr
    BY <2>1, RrCell
  <2> QED  BY <1>3, <2>1, <2>2
<1>5. \A l \in Lane : M[l].wb = IF l = n THEN p ELSE L[l].wb
  <2> SUFFICES ASSUME NEW l \in Lane PROVE M[l].wb = IF l = n THEN p ELSE L[l].wb
    OBVIOUS
  <2>1. PICK d : d = ex_depth[l]
    OBVIOUS
  <2>2. d \in Reg(l) /\ d # -1 /\ Cell(M, l, d) = M[l].wb /\ Cell(L, l, d) = L[l].wb
    BY <2>1, WbCell, LaneDepth
  <2> QED  BY <1>3, <2>1, <2>2
<1>6. ASSUME NEW l \in Lane, NEW j, l # n
      PROVE  Finishing(w, h, M, l, j) <=> Finishing(w, h, L, l, j)
  <2>1. PICK d : d = ex_depth[l] - 1
    OBVIOUS
  <2>2. d \in Reg(l)
    BY <2>1, LaneDepth
  <2>3. Cell(M, l, d) = Cell(L, l, d)
    BY <1>3, <1>6, <2>2
  <2> QED  BY <2>1, <2>3 DEF Finishing, InCell
<1>7. ASSUME NEW d \in 1..(ex_depth[n] - 1)
      PROVE  Cell(M, n, d) = Cell(L, n, d - 1)
  <2>1. d \in Reg(n) /\ d # -1 /\ d # 0 /\ d # ex_depth[n]
    BY LaneDepth DEF Reg
  <2> QED  BY <1>3, <2>1
<1> QED  BY <1>4, <1>5, <1>6, <1>7

(* The instruction that leaves the last stage of lane n.                   *)
LEMMA FinishingWritten ==
  ASSUME NEW w, NEW h, NEW L, NEW iq, NEW S, Fits(w, h, L, iq, S),
         NEW n \in Lane, NEW hit, NEW j \in 1..Len(w), Finishing(w, h, L, n, j),
         w[j].dest_valid
  PROVE  w[j].phys_reg \in Wrote(w, h, L, n, hit)
<1>1. IsWindow(w) /\ h \in ALIndex /\ Len(w) \in Nat /\ Len(w) <= n_active
  BY FitsFields, WindowSeq
<1>2. PICK c : c = LastOf(L, n)
  OBVIOUS
<1>3. c.valid /\ c.index = AtIn(h, j) /\ w[j].kind # "load"
  BY <1>2, AtLastCell DEF Finishing, AtLast
<1>4. PosIn(h, c.index) = j
  <2>1. j \in 1..n_active
    BY <1>1, Constants
  <2> QED  BY <1>1, <1>3, <2>1, AtRange
<1>5. Wrote(w, h, L, n, hit) = Executed(w[j], hit)
  BY <1>2, <1>3, <1>4 DEF Wrote, InstIn
<1> QED  BY <1>3, <1>5 DEF Executed, Dest

(* What a hit broadcasts has been written.                                 *)
LEMMA HitsWritten ==
  ASSUME NEW w, NEW h, NEW L, NEW n, NEW hit \in BOOLEAN
  PROVE  Hits(w, h, L, n, hit) \subseteq Wrote(w, h, L, n, hit)
BY DEF Hits, Wrote, Executed, Broadcast, Dest

(* What broadcasts from the stage before it is about to finish.            *)
LEMMA NearsFinishing ==
  ASSUME NEW w, NEW h, NEW L, NEW iq, NEW S, Fits(w, h, L, iq, S),
         NEW n \in Lane, NEW p \in LaneReg, NEW M, M = Advanced(L, n, p),
         NEW a \in Nears(w, h, L, n)
  PROVE  \E k \in 1..Len(w), l \in Lane :
           w[k].dest_valid /\ w[k].phys_reg = a /\ Finishing(w, h, M, l, k)
<1>1. IsWindow(w) /\ h \in ALIndex
  BY FitsFields
<1>2. PICK d, e, c : d = ex_depth[n] - 1 /\ e = d - 1 /\ c = L[n].ex[e]
  OBVIOUS
<1>3. d > 0 /\ c.valid /\ InstIn(w, h, c).kind # "load" /\ a \in Broadcast(InstIn(w, h, c))
  BY <1>2 DEF Nears
<1>4. PICK k : k = PosIn(h, c.index)
  OBVIOUS
<1>5. w[k].kind # "load" /\ w[k].dest_valid /\ w[k].phys_reg = a
  BY <1>3, <1>4 DEF InstIn, Broadcast
<1>6. e \in 0..(ex_depth[n] - 1) /\ d \in 1..(ex_depth[n] - 1) /\ d \in (-1)..ex_depth[n]
  BY <1>2, <1>3, LaneDepth
<1>7. e \in Reg(n) /\ Cell(L, n, e) = c
  BY <1>2, <1>6, ExCell
<1>8. Cell(M, n, d) = c
  BY <1>2, <1>6, <1>7, ExecuteSame
<1>9. k \in 1..Len(w) /\ c.index \in ALIndex
  BY <1>3, <1>4, <1>7, CellFlight
<1>10. AtIn(h, k) = c.index
  BY <1>1, <1>4, <1>9, PosRange
<1>11. Finishing(w, h, M, n, k)
  BY <1>2, <1>3, <1>5, <1>6, <1>8, <1>10 DEF Finishing, InCell
<1> QED  BY <1>5, <1>9, <1>11

(* Execute keeps Values: it writes what leaves the lane.                   *)
LEMMA ValuesExecuted ==
  ASSUME NEW w, NEW h, NEW L, NEW iq, NEW S, Fits(w, h, L, iq, S),
         NEW n \in Lane, ~L[n].wb.valid, NEW hit \in BOOLEAN,
         NEW p \in LaneReg, p = ToWb(w, h, L, n, hit), NEW M, M = Advanced(L, n, p),
         NEW c, NEW R, NEW W, Values(w, c, h, L, R, W),
         NEW X, X = W \cup Wrote(w, h, L, n, hit),
         NEW U, U = R \cup (Hits(w, h, L, n, hit) \cup Nears(w, h, L, n))
  PROVE  Values(w, c, h, M, U, X)
<1>1. IsWindow(w) /\ WindowOK(w) /\ h \in ALIndex
  BY FitsFields
<1>2. /\ \A l \in Lane : M[l].wb = IF l = n THEN p ELSE L[l].wb
      /\ \A l \in Lane : \A j : l # n => (Finishing(w, h, M, l, j) <=> Finishing(w, h, L, l, j))
  BY ExecuteSame
<1>3. \A r \in LogReg : c[r] \in X
  BY DEF Values
<1>4. \A k \in 1..Len(w) : w[k].dest_valid /\ w[k].completed => w[k].phys_reg \in X
  BY DEF Values
<1>5. ASSUME NEW l \in Lane, M[l].wb.valid
      PROVE  Dest(w[PosIn(h, M[l].wb.index)]) \subseteq X
  <2>1. CASE l # n
    BY <1>2, <1>5, <2>1 DEF Values
  <2>2. CASE l = n
    <3>1. p.valid /\ M[l].wb = p
      BY <1>2, <1>5, <2>2
    <3>2. Goes(w, h, L, n, hit) /\ p = LastOf(L, n)
      BY <3>1 DEF ToWb
    <3>3. /\ LastOf(L, n).valid
          /\ InstIn(w, h, p).kind = "load" => hit
      BY <3>2 DEF Goes
    <3>4. Wrote(w, h, L, n, hit) = Dest(InstIn(w, h, p))
      BY <3>2, <3>3 DEF Wrote, Executed
    <3> QED  BY <3>1, <3>4 DEF InstIn
  <2> QED  BY <2>1, <2>2
<1>6. ASSUME NEW k \in 1..Len(w), w[k].dest_valid, w[k].phys_reg \in R \ X
      PROVE  \E l \in Lane : Finishing(w, h, M, l, k)
  <2>1. PICK l \in Lane : Finishing(w, h, L, l, k)
    BY <1>6 DEF Values
  <2>2. l # n
    BY <1>6, <2>1, FinishingWritten
  <2> QED  BY <1>2, <2>1, <2>2
<1>7. Values(w, c, h, M, R, X)
  BY <1>3, <1>4, <1>5, <1>6 DEF Values
<1>8. PICK B : B = Nears(w, h, L, n)
  OBVIOUS
<1>9. \A a \in B : \E k \in 1..Len(w), l \in Lane :
        w[k].dest_valid /\ w[k].phys_reg = a /\ Finishing(w, h, M, l, k)
  BY <1>8, NearsFinishing
<1>10. U \subseteq R \cup X \cup B
  BY <1>8, HitsWritten
<1> QED  BY ONLY <1>1, <1>7, <1>9, <1>10, ValuesMore

(* Execute keeps Operands: it writes what others wait for.                 *)
LEMMA OperandsExecuted ==
  ASSUME NEW w, NEW h, NEW L, NEW iq, NEW S, Fits(w, h, L, iq, S),
         NEW n, StageOK("execute", n), n \in Lane, NEW hit \in BOOLEAN,
         NEW p \in LaneReg, NEW M, M = Advanced(L, n, p),
         NEW W, Operands("execute", n, w, h, L, W),
         NEW X, X = W \cup Wrote(w, h, L, n, hit),
         NEW t, NEW m, NextOf("execute", n, t, m)
  PROVE  Operands(t, m, w, h, M, X)
<1>1. /\ \A l \in Lane : M[l].rr = L[l].rr
      /\ \A l \in Lane : \A j : l # n => (Finishing(w, h, M, l, j) <=> Finishing(w, h, L, l, j))
  BY ExecuteSame
<1>2. \A q \in Remaining("execute", n) : q = n \/ q \in Remaining(t, m)
  <2> SUFFICES ASSUME NEW q \in Lane, q >= n, q # n
               PROVE  q \in Remaining(t, m)
    BY DEF Remaining
  <2>1. n # issue_width - 1
    BY Constants DEF Lane
  <2>2. t = "execute" /\ m = n + 1
    BY <2>1 DEF NextOf
  <2>3. q >= n + 1
    BY Constants DEF Lane
  <2> QED  BY <2>2, <2>3 DEF Remaining
<1> SUFFICES ASSUME NEW l \in Lane, M[l].rr.valid, NEW a \in w[PosIn(h, M[l].rr.index)].tags,
                    a \notin X
             PROVE  \E j \in 1..Len(w), q \in Remaining(t, m) :
                      /\ j < PosIn(h, M[l].rr.index) /\ w[j].dest_valid /\ w[j].phys_reg = a
                      /\ Finishing(w, h, M, q, j)
  BY DEF Operands
<1>3. M[l].rr = L[l].rr /\ a \notin W /\ a \notin Wrote(w, h, L, n, hit)
  BY <1>1
<1>4. PICK j \in 1..Len(w), q \in Remaining("execute", n) :
        /\ j < PosIn(h, L[l].rr.index) /\ w[j].dest_valid /\ w[j].phys_reg = a
        /\ Finishing(w, h, L, q, j)
  BY <1>3 DEF Operands
<1>5. q # n
  BY <1>3, <1>4, FinishingWritten
<1>6. q \in Lane /\ q \in Remaining(t, m)
  BY <1>2, <1>4, <1>5 DEF Remaining
<1>7. Finishing(w, h, M, q, j)
  BY <1>1, <1>4, <1>5, <1>6
<1> QED  BY <1>3, <1>4, <1>6, <1>7

-----------------------------------------------------------------------------
(* No step spoils the values.                                              *)
ValueInv ==
  /\ Values(window, committed, AL_head, Execution_Lanes, PRF_ready, PRF_written)
  /\ Operands(stage, lane, window, AL_head, Execution_Lanes, PRF_written)

(* Operands depends on the stage only through the lanes still to execute.  *)
LEMMA OperandsStage ==
  ASSUME NEW w, NEW h, NEW L, NEW iq, NEW S, Fits(w, h, L, iq, S),
         NEW s, NEW n, NEW W, Operands(s, n, w, h, L, W),
         NEW t, NEW m, Remaining(s, n) \subseteq Remaining(t, m)
  PROVE  Operands(t, m, w, h, L, W)
<1>1. /\ h \in ALIndex /\ Prefix(w, w)
      /\ FewerCells(L, L, h, Len(w)) /\ LastCells(L, L, h, Len(w))
  BY FitsFields, PrefixSame, SameCells
<1>2. PICK k : k = 1
  OBVIOUS
<1>3. Shrinks(w, w, k, h, L, L)
  BY <1>1 DEF Shrinks
<1>4. W \subseteq W
  OBVIOUS
<1> QED  BY ONLY <1>3, <1>4, Operands(s, n, w, h, L, W),
     Remaining(s, n) \subseteq Remaining(t, m), OperandsPrefix

(* ValueInv holds initially.                                               *)
LEMMA ValueInit == Init => ValueInv
<1> SUFFICES ASSUME Init PROVE ValueInv
  OBVIOUS
<1>1. /\ committed \in [LogReg -> PhysReg] /\ window = <<>>
      /\ Execution_Lanes = [l \in Lane |-> EmptyLane(l)]
      /\ PRF_ready = PhysReg /\ PRF_written = PhysReg
  BY Constants DEF Init
<1> QED  BY <1>1, ValuesEmpty DEF ValueInv

(* A flush keeps ValueInv: it makes ready what is committed.               *)
LEMMA ValueFlush ==
  ASSUME NEW c, c \in [LogReg -> PhysReg], squash_complete(c)
  PROVE  ValueInv'
<1>1. PICK L : L = [l \in Lane |-> EmptyLane(l)]
  OBVIOUS
<1>2. /\ committed' = c /\ window' = <<>> /\ AL_head' = 0 /\ PRF_ready' = PhysReg
      /\ PRF_written' = PhysReg /\ Execution_Lanes' = L
  BY <1>1 DEF squash_complete
<1>3. Values(<<>>, c, 0, L, PhysReg, PhysReg) /\ Operands(stage', lane', <<>>, 0, L, PhysReg)
  BY <1>1, ValuesEmpty
<1> QED  BY <1>2, <1>3 DEF ValueInv

(* Retire keeps ValueInv.                                                  *)
LEMMA ValueRetire == StructInv /\ ValueInv /\ Retire => ValueInv'
<1> SUFFICES ASSUME StructInv, ValueInv, Retire PROVE ValueInv'
  OBVIOUS
<1>1. /\ Fits(window, AL_head, Execution_Lanes, IQ, stalled) /\ IsWindow(window)
      /\ committed \in [LogReg -> PhysReg] /\ StageOK(stage, lane)
  BY StructFields DEF Regs
<1>2. /\ Values(window, committed, AL_head, Execution_Lanes, PRF_ready, PRF_written)
      /\ Operands(stage, lane, window, AL_head, Execution_Lanes, PRF_written)
  BY DEF ValueInv
<1>3. Remaining(stage, lane) \subseteq Remaining(stage', lane')
  <2>1. /\ stage = "retire" /\ stage \in StageName /\ stage # "execute"
        /\ stage = stage' \/ (stage' = After(stage) /\ lane' = 0)
    BY <1>1 DEF Retire, NextRetire, NextStage, StageOK
  <2> QED  BY <2>1, RemainingAfter
<1>4. CASE window # <<>> /\ Head(window).completed
  <2>1. PICK x, m, v, g : /\ x = Head(window) /\ m = AfterHead(committed, x)
                          /\ v = Left(window) /\ g = Next1(AL_head, n_active)
    OBVIOUS
  <2>2. x = window[1] /\ x \in Inst
    BY <1>1, <1>4, <2>1, HeadFields
  <2>3. \/ /\ committed' = m /\ window' = v /\ AL_head' = g
           /\ PRF_ready' = PRF_ready /\ PRF_written' = PRF_written
           /\ Execution_Lanes' = Execution_Lanes
        \/ squash_complete(committed)
        \/ squash_complete(m)
    BY <1>4, <2>1 DEF Retire, AfterHead, Left, prfVars
  <2>4. m \in [LogReg -> PhysReg]
    BY <1>1, <2>1, <2>2, AfterHeadType
  <2>5. window # <<>> /\ window[1].completed /\ m = AfterHead(committed, window[1])
    BY <1>4, <2>1, <2>2
  <2>6. Values(v, m, g, Execution_Lanes, PRF_ready, PRF_written)
    BY <1>1, <1>2, <2>1, <2>5, ValuesCommit
  <2>7. Operands(stage', lane', v, g, Execution_Lanes, PRF_written)
    BY <1>1, <1>2, <1>3, <2>1, <2>5, OperandsCommit
  <2>8. CASE squash_complete(committed)
    BY <1>1, <2>8, ValueFlush
  <2>9. CASE squash_complete(m)
    BY <2>4, <2>9, ValueFlush
  <2> QED  BY <2>3, <2>6, <2>7, <2>8, <2>9 DEF ValueInv
<1>5. CASE ~(window # <<>> /\ Head(window).completed)
  <2>1. /\ committed' = committed /\ window' = window /\ AL_head' = AL_head
        /\ PRF_ready' = PRF_ready /\ PRF_written' = PRF_written
        /\ Execution_Lanes' = Execution_Lanes
    BY <1>5 DEF Retire, prfVars
  <2>2. Operands(stage', lane', window, AL_head, Execution_Lanes, PRF_written)
    BY ONLY <1>1, <1>2, <1>3, OperandsStage
  <2> QED  BY <1>2, <2>1, <2>2 DEF ValueInv
<1> QED  BY <1>4, <1>5

(* Only Execute uses up lanes.                                             *)
LEMMA StageKept ==
  ASSUME NEW s \in StageName, s # "execute", NEW n, NEW t, NEW m, NextOf(s, n, t, m)
  PROVE  Remaining(s, n) \subseteq Remaining(t, m)
<1>1. s = t \/ (t = After(s) /\ m = 0)
  BY DEF NextOf
<1> QED  BY <1>1, RemainingAfter

(* Writeback keeps ValueInv.                                               *)
LEMMA ValueWriteback == StructInv /\ ValueInv /\ Writeback => ValueInv'
<1> SUFFICES ASSUME StructInv, ValueInv, Writeback PROVE ValueInv'
  OBVIOUS
<1>1. /\ Fits(window, AL_head, Execution_Lanes, IQ, stalled) /\ IsWindow(window)
      /\ StageOK(stage, lane) /\ AL_head \in ALIndex
  BY StructFields
<1>2. /\ Values(window, committed, AL_head, Execution_Lanes, PRF_ready, PRF_written)
      /\ Operands(stage, lane, window, AL_head, Execution_Lanes, PRF_written)
  BY DEF ValueInv
<1>3. /\ stage = "writeback" /\ NextOf(stage, lane, stage', lane')
      /\ committed' = committed /\ AL_head' = AL_head
      /\ PRF_ready' = PRF_ready /\ PRF_written' = PRF_written
  BY DEF Writeback, NextLane, NextStage, NextOf, prfVars
<1>4. lane \in Lane
  BY <1>1, <1>3 DEF StageOK, Lane
<1>5. Remaining(stage, lane) \subseteq Remaining(stage', lane')
  <2>1. stage \in StageName /\ stage # "execute"
    BY <1>1, <1>3 DEF StageOK
  <2> QED  BY <1>3, <2>1, StageKept
<1>6. PICK i, k, b : /\ i = Execution_Lanes[lane].wb.index /\ k = PosIn(AL_head, i)
                     /\ b = window[k].branch_ID
  OBVIOUS
<1>7. Pos(i) = k /\ InstOf(Execution_Lanes[lane].wb) = window[k]
  BY <1>6 DEF Pos, PosIn, InstOf
<1>8. ASSUME NEW v, NEW M, Shrinks(window, v, k, AL_head, Execution_Lanes, M),
             Dest(window[k]) \subseteq PRF_written, window' = v, Execution_Lanes' = M
      PROVE  ValueInv'
  <2>1. PRF_written \subseteq PRF_written /\ PRF_ready \subseteq PRF_ready \cup PRF_written
    OBVIOUS
  <2>2. Values(v, committed, AL_head, M, PRF_ready, PRF_written)
    BY ONLY <1>2, <1>8, <2>1, ValuesPrefix
  <2>3. Operands(stage', lane', v, AL_head, M, PRF_written)
    BY ONLY <1>2, <1>5, <1>8, <2>1, OperandsPrefix
  <2> QED  BY <1>3, <1>8, <2>2, <2>3 DEF ValueInv
<1>9. ASSUME Execution_Lanes[lane].wb.valid
      PROVE  k \in 1..Len(window) /\ Dest(window[k]) \subseteq PRF_written
  <2>1. k \in 1..Len(window)
    BY <1>1, <1>4, <1>6, <1>9, WbFlight
  <2> QED  BY <1>2, <1>4, <1>6, <1>9, <2>1 DEF Values
<1>10. CASE /\ ~Execution_Lanes[lane].wb.valid
            /\ UNCHANGED <<window, IQ, Execution_Lanes, stalled>>
  <2>1. Operands(stage', lane', window, AL_head, Execution_Lanes, PRF_written)
    BY ONLY <1>1, <1>2, <1>5, OperandsStage
  <2> QED  BY <1>2, <1>3, <1>10, <2>1 DEF ValueInv
<1>11. CASE WritebackDone
  <2>1. PICK v, M : v = CompletedAt(window, k) /\ M = Written(Execution_Lanes, lane)
    OBVIOUS
  <2>2. Execution_Lanes[lane].wb.valid /\ window' = v /\ Execution_Lanes' = M
    BY <1>6, <1>7, <1>11, <2>1 DEF WritebackDone, CompletedAt, Completed
  <2>3. /\ Prefix(v, window) /\ Len(v) = Len(window)
        /\ \A j \in 1..Len(v) : v[j].completed => window[j].completed \/ j = k
    BY <1>1, <1>9, <2>1, <2>2, PrefixCompleted
  <2>4. /\ FewerCells(Execution_Lanes, M, AL_head, Len(v))
        /\ LastCells(Execution_Lanes, M, AL_head, Len(v))
    BY <1>1, <1>4, <2>1, <2>3, CellsWritten
  <2>5. Shrinks(window, v, k, AL_head, Execution_Lanes, M)
    BY <1>1, <2>3, <2>4 DEF Shrinks
  <2> QED  BY <1>8, <1>9, <2>2, <2>5
<1>12. CASE WritebackCorrect
  <2>1. PICK v, M0, M : /\ v = CompletedAt(window, k) /\ M0 = Cleared(Execution_Lanes, b)
                        /\ M = Written(M0, lane)
    OBVIOUS
  <2>2. Execution_Lanes[lane].wb.valid /\ window' = v /\ Execution_Lanes' = M
    BY ZenonT(30), <1>6, <1>7, <1>12, <2>1 DEF WritebackCorrect, CompletedAt, Completed, EachPlace, Cleared
  <2>3. /\ Prefix(v, window) /\ Len(v) = Len(window)
        /\ \A j \in 1..Len(v) : v[j].completed => window[j].completed \/ j = k
    BY <1>1, <1>9, <2>1, <2>2, PrefixCompleted
  <2>4. /\ FewerCells(Execution_Lanes, M, AL_head, Len(v))
        /\ LastCells(Execution_Lanes, M, AL_head, Len(v))
    BY <1>1, <1>4, <2>1, <2>3, CellsCleared
  <2>5. Shrinks(window, v, k, AL_head, Execution_Lanes, M)
    BY <1>1, <2>3, <2>4 DEF Shrinks
  <2> QED  BY <1>8, <1>9, <2>2, <2>5
<1>13. CASE WritebackMispredict
  <2>1. PICK v, M0, M : /\ v = CutAt(window, k) /\ M0 = Killed(Execution_Lanes, b)
                        /\ M = Written(M0, lane)
    OBVIOUS
  <2>2. /\ Execution_Lanes[lane].wb.valid /\ Open(window[k])
        /\ window' = v /\ Execution_Lanes' = M
    BY ZenonT(30), <1>6, <1>7, <1>13, <2>1 DEF WritebackMispredict, CutAt, CompletedAt, Completed,
       EachPlace, Killed
  <2>3. /\ Prefix(v, window) /\ Len(v) = k
        /\ \A j \in 1..Len(v) : v[j].completed => window[j].completed \/ j = k
    BY <1>1, <1>9, <2>1, <2>2, PrefixCut
  <2>4. /\ FewerCells(Execution_Lanes, M, AL_head, Len(v))
        /\ LastCells(Execution_Lanes, M, AL_head, Len(v))
    <3>1. BranchDone(window, AL_head, Execution_Lanes, lane, i, b)
      BY <1>4, <1>6, <2>2, WbCell DEF BranchDone
    <3> QED  BY <1>1, <1>4, <1>6, <2>1, <2>3, <3>1, CellsCut
  <2>5. Shrinks(window, v, k, AL_head, Execution_Lanes, M)
    BY <1>1, <2>3, <2>4 DEF Shrinks
  <2> QED  BY <1>8, <1>9, <2>2, <2>5
<1> QED  BY <1>10, <1>11, <1>12, <1>13 DEF Writeback

(* The load replay keeps ValueInv: a served load writes its register.      *)
LEMMA ValueReplay == StructInv /\ ValueInv /\ load_replay => ValueInv'
<1> SUFFICES ASSUME StructInv, ValueInv, load_replay PROVE ValueInv'
  OBVIOUS
<1>1. /\ Fits(window, AL_head, Execution_Lanes, IQ, stalled) /\ IsWindow(window)
      /\ AL_head \in ALIndex
  BY StructFields
<1>2. /\ Values(window, committed, AL_head, Execution_Lanes, PRF_ready, PRF_written)
      /\ Operands(stage, lane, window, AL_head, Execution_Lanes, PRF_written)
  BY DEF ValueInv
<1>3. /\ stage = "load_replay" /\ stage' = After(stage) /\ lane' = 0
      /\ committed' = committed /\ AL_head' = AL_head /\ Execution_Lanes' = Execution_Lanes
  BY DEF load_replay, NextStage
<1>4. Remaining(stage, lane) \subseteq Remaining(stage', lane')
  <2>1. stage \in StageName /\ stage # "execute"
    BY <1>3 DEF StageName
  <2>2. stage = stage' \/ (stage' = After(stage) /\ lane' = 0)
    BY <1>3
  <2> QED  BY ONLY <2>1, <2>2, RemainingAfter
<1>5. /\ FewerCells(Execution_Lanes, Execution_Lanes, AL_head, Len(window))
      /\ LastCells(Execution_Lanes, Execution_Lanes, AL_head, Len(window))
  BY <1>1, SameCells
<1>6. CASE \E i \in stalled : ServeLoad(i)
  <2>1. PICK i \in stalled : ServeLoad(i)
    BY <1>6
  <2>2. PICK k, v, X, U : /\ k = PosIn(AL_head, i) /\ v = CompletedAt(window, k)
                          /\ X = PRF_written \cup Dest(window[k])
                          /\ U = PRF_ready \cup Broadcast(window[k])
    OBVIOUS
  <2>3. window' = v /\ PRF_ready' = U /\ PRF_written' = X
    BY <2>1, <2>2 DEF ServeLoad, Pos, PosIn, CompletedAt, Completed
  <2>4. k \in 1..Len(window) /\ window[k] \in Inst
    BY <1>1, <2>2, StalledFlight
  <2>5. /\ Prefix(v, window) /\ Len(v) = Len(window)
        /\ \A j \in 1..Len(v) : v[j].completed => window[j].completed \/ j = k
    BY <1>1, <2>2, <2>4, PrefixCompleted
  <2>6. /\ PRF_written \subseteq X /\ U \subseteq PRF_ready \cup X
        /\ Dest(window[k]) \subseteq X
    BY <2>2, <2>4, InstFields
  <2>7. /\ FewerCells(Execution_Lanes, Execution_Lanes, AL_head, Len(v))
        /\ LastCells(Execution_Lanes, Execution_Lanes, AL_head, Len(v))
    BY <1>5, <2>5
  <2>8. Shrinks(window, v, k, AL_head, Execution_Lanes, Execution_Lanes)
    BY <1>1, <2>5, <2>7 DEF Shrinks
  <2>9. Values(v, committed, AL_head, Execution_Lanes, U, X)
    BY ONLY <1>2, <2>6, <2>8, ValuesPrefix
  <2>10. Operands(stage', lane', v, AL_head, Execution_Lanes, X)
    BY ONLY <1>2, <1>4, <2>6, <2>8, OperandsPrefix
  <2> QED  BY <1>3, <2>3, <2>9, <2>10 DEF ValueInv
<1>7. CASE UNCHANGED <<window, stalled, IQ, prfVars>>
  <2>1. Operands(stage', lane', window, AL_head, Execution_Lanes, PRF_written)
    BY ONLY <1>1, <1>2, <1>4, OperandsStage
  <2>2. window' = window /\ PRF_ready' = PRF_ready /\ PRF_written' = PRF_written
    BY <1>7 DEF prfVars
  <2> QED  BY <1>2, <1>3, <2>1, <2>2 DEF ValueInv
<1> QED  BY <1>6, <1>7 DEF load_replay

(* Execute keeps ValueInv.                                                 *)
LEMMA ValueExecute ==
  ASSUME StructInv, ValueInv, NEW hit \in BOOLEAN, Execute(hit)
  PROVE  ValueInv'
<1>1. /\ Fits(window, AL_head, Execution_Lanes, IQ, stalled) /\ StageOK(stage, lane)
      /\ Drained(stage, lane, Execution_Lanes) /\ LanesOK(Execution_Lanes)
  BY StructFields
<1>2. /\ Values(window, committed, AL_head, Execution_Lanes, PRF_ready, PRF_written)
      /\ Operands(stage, lane, window, AL_head, Execution_Lanes, PRF_written)
  BY DEF ValueInv
<1>3. PICK c, x, p, W :
        /\ c = LastOf(Execution_Lanes, lane) /\ x = InstIn(window, AL_head, c)
        /\ p = (IF Goes(window, AL_head, Execution_Lanes, lane, hit) THEN c
                ELSE Execution_Lanes[lane].wb)
        /\ W = Hits(window, AL_head, Execution_Lanes, lane, hit)
                 \cup Nears(window, AL_head, Execution_Lanes, lane)
  OBVIOUS
<1>4. /\ stage = "execute" /\ NextOf(stage, lane, stage', lane')
      /\ PRF_ready' = PRF_ready \cup W
      /\ PRF_written' = (IF c.valid THEN PRF_written \cup Executed(x, hit) ELSE PRF_written)
      /\ Execution_Lanes' = Advanced(Execution_Lanes, lane, p)
      /\ committed' = committed /\ window' = window /\ AL_head' = AL_head
  BY ONLY ZenonT(60), <1>3, Execute(hit), hit \in BOOLEAN, ExecuteFields
<1>5. lane \in Lane
  BY <1>1, <1>4 DEF StageOK, Lane
<1>6. ~Execution_Lanes[lane].wb.valid
  <2>1. lane >= lane
    BY <1>5, LaneDepth
  <2> QED  BY <1>1, <1>4, <1>5, <2>1 DEF Drained
<1>7. p = ToWb(window, AL_head, Execution_Lanes, lane, hit) /\ p \in LaneReg
  <2>1. c \in LaneReg
    BY <1>1, <1>3, <1>5, WokenRegs
  <2> QED  BY <1>1, <1>3, <1>5, <2>1, CellType DEF ToWb
<1>8. PICK M, X, U : /\ M = Advanced(Execution_Lanes, lane, p)
                     /\ X = PRF_written \cup Wrote(window, AL_head, Execution_Lanes, lane, hit)
                     /\ U = PRF_ready \cup W
  OBVIOUS
<1>9. Execution_Lanes' = M /\ PRF_ready' = U /\ PRF_written' = X
  BY <1>3, <1>4, <1>8 DEF Wrote
<1>10. Values(window, committed, AL_head, M, U, X)
  BY <1>1, <1>2, <1>3, <1>5, <1>6, <1>7, <1>8, ValuesExecuted
<1>11. Operands(stage', lane', window, AL_head, M, X)
  <2>1. /\ StageOK("execute", lane) /\ NextOf("execute", lane, stage', lane')
        /\ Operands("execute", lane, window, AL_head, Execution_Lanes, PRF_written)
    BY <1>1, <1>2, <1>4
  <2> QED  BY <1>1, <1>5, <1>7, <1>8, <2>1, OperandsExecuted
<1> QED  BY <1>4, <1>9, <1>10, <1>11 DEF ValueInv

(* Register Read keeps ValueInv.                                           *)
LEMMA ValueRead == StructInv /\ ValueInv /\ register_read => ValueInv'
<1> SUFFICES ASSUME StructInv, ValueInv, register_read PROVE ValueInv'
  OBVIOUS
<1>1. /\ Fits(window, AL_head, Execution_Lanes, IQ, stalled) /\ StageOK(stage, lane)
      /\ Drained(stage, lane, Execution_Lanes)
  BY StructFields
<1>2. /\ Values(window, committed, AL_head, Execution_Lanes, PRF_ready, PRF_written)
      /\ Operands(stage, lane, window, AL_head, Execution_Lanes, PRF_written)
  BY DEF ValueInv
<1>3. PICK p, W : p = Execution_Lanes[lane].rr
                  /\ W = Reads(window, AL_head, Execution_Lanes, lane)
  OBVIOUS
<1>4. /\ stage = "register_read" /\ NextOf(stage, lane, stage', lane')
      /\ PRF_ready' = PRF_ready \cup W
      /\ p.valid => Execution_Lanes' = ReadFrom(Execution_Lanes, lane, p)
      /\ ~p.valid => Execution_Lanes' = Execution_Lanes
      /\ committed' = committed /\ window' = window /\ AL_head' = AL_head
      /\ PRF_written' = PRF_written
  BY <1>3, ReadFields
<1>5. lane \in Lane
  BY <1>1, <1>4 DEF StageOK, Lane
<1>6. CASE ~p.valid
  <2>1. W = {}
    BY <1>3, <1>6 DEF Reads
  <2>2. PRF_ready' = PRF_ready /\ Execution_Lanes' = Execution_Lanes
    BY <1>4, <1>6, <2>1
  <2>3. Remaining(stage, lane) \subseteq Remaining(stage', lane')
    <3>1. stage \in StageName /\ stage # "execute"
      BY <1>4 DEF StageName
    <3> QED  BY <1>4, <3>1, StageKept
  <2>4. Operands(stage', lane', window, AL_head, Execution_Lanes, PRF_written)
    BY ONLY <1>1, <1>2, <2>3, OperandsStage
  <2> QED  BY <1>2, <1>4, <2>2, <2>4 DEF ValueInv
<1>7. CASE p.valid
  <2>1. ~Execution_Lanes[lane].ex[0].valid
    <3>1. lane >= lane
      BY <1>5, LaneDepth
    <3> QED  BY <1>1, <1>4, <1>5, <3>1 DEF Drained
  <2>2. PICK M, U : M = ReadFrom(Execution_Lanes, lane, p) /\ U = PRF_ready \cup W
    OBVIOUS
  <2>3. Execution_Lanes' = M /\ PRF_ready' = U
    BY <1>4, <1>7, <2>2
  <2>4. Execution_Lanes[lane].rr.valid /\ M = ReadFrom(Execution_Lanes, lane, Execution_Lanes[lane].rr)
    BY <1>3, <1>7, <2>2
  <2>5. Values(window, committed, AL_head, M, U, PRF_written)
    BY <1>1, <1>2, <1>3, <1>5, <2>1, <2>2, <2>4, ValuesRead
  <2>6. SameRr(Execution_Lanes, M, AL_head, Len(window))
        /\ SameLast(Execution_Lanes, M, AL_head, Len(window))
    BY <1>1, <1>5, <2>1, <2>4, ReadSame
  <2>7. Operands("register_read", lane, window, AL_head, Execution_Lanes, PRF_written)
    BY <1>2, <1>4
  <2>8. Operands(stage', lane', window, AL_head, M, PRF_written)
    BY ONLY <1>1, <2>6, <2>7, OperandsRead
  <2> QED  BY <1>4, <2>3, <2>5, <2>8 DEF ValueInv
<1> QED  BY <1>6, <1>7

(* Issue keeps ValueInv.                                                   *)
LEMMA ValueIssue == StructInv /\ WakeInv /\ ValueInv /\ Issue => ValueInv'
<1> SUFFICES ASSUME StructInv, WakeInv, ValueInv, Issue PROVE ValueInv'
  OBVIOUS
<1>1. /\ Fits(window, AL_head, Execution_Lanes, IQ, stalled)
      /\ Sources(window, committed) /\ Woke(IQ.q, PRF_ready)
  BY StructFields DEF WakeInv
<1>2. /\ Values(window, committed, AL_head, Execution_Lanes, PRF_ready, PRF_written)
      /\ Operands(stage, lane, window, AL_head, Execution_Lanes, PRF_written)
  BY DEF ValueInv
<1>3. PICK s \in Occupied(IQ.q), n \in Lane, p \in LaneReg :
        /\ stage = "schedule" /\ IQ.q[s].ready = IQ.q[s].tags
        /\ p.index = IQ.q[s].index
        /\ Execution_Lanes' = IssuedTo(Execution_Lanes, n, p)
        /\ UNCHANGED <<cycleVars, committed, window, AL_head, prfVars, stalled>>
  BY IssueFields
<1>4. PICK M : M = IssuedTo(Execution_Lanes, n, p)
  OBVIOUS
<1>5. SameWb(Execution_Lanes, M, AL_head, Len(window))
      /\ SameLast(Execution_Lanes, M, AL_head, Len(window))
  BY <1>1, <1>4, IssuedSame
<1>6. Values(window, committed, AL_head, M, PRF_ready, PRF_written)
  BY ONLY <1>1, <1>2, <1>5, ValuesIssued
<1>7. Operands("schedule", lane, window, AL_head, Execution_Lanes, PRF_written)
  BY <1>2, <1>3
<1>8. Operands("schedule", lane, window, AL_head, M, PRF_written)
  BY <1>1, <1>2, <1>3, <1>4, <1>7, OperandsIssued
<1> QED  BY <1>3, <1>4, <1>6, <1>8 DEF ValueInv, cycleVars, prfVars

(* The ends of Schedule and Dispatch keep ValueInv.                        *)
LEMMA ValueEnd == StructInv /\ ValueInv /\ (EndSchedule \/ EndDispatch) => ValueInv'
<1> SUFFICES ASSUME StructInv, ValueInv, EndSchedule \/ EndDispatch PROVE ValueInv'
  OBVIOUS
<1>1. Fits(window, AL_head, Execution_Lanes, IQ, stalled)
  BY StructFields
<1>2. /\ Values(window, committed, AL_head, Execution_Lanes, PRF_ready, PRF_written)
      /\ Operands(stage, lane, window, AL_head, Execution_Lanes, PRF_written)
  BY DEF ValueInv
<1>3. /\ stage \in {"schedule", "dispatch"} /\ stage' = After(stage) /\ lane' = 0
      /\ UNCHANGED <<committed, window, AL_head, PRF_ready, PRF_written, Execution_Lanes>>
  BY DEF EndSchedule, EndDispatch, NextStage, prfVars
<1>4. Remaining(stage, lane) \subseteq Remaining(stage', lane')
  <2>1. stage \in StageName /\ stage # "execute"
    BY <1>3 DEF StageName
  <2>2. stage = stage' \/ (stage' = After(stage) /\ lane' = 0)
    BY <1>3
  <2> QED  BY ONLY <2>1, <2>2, RemainingAfter
<1>5. Operands(stage', lane', window, AL_head, Execution_Lanes, PRF_written)
  BY ONLY <1>1, <1>2, <1>4, OperandsStage
<1> QED  BY <1>2, <1>3, <1>5 DEF ValueInv

(* Dispatch keeps ValueInv.                                                *)
LEMMA ValueEnters ==
  ASSUME StructInv, WakeInv, ValueInv, NEW x, NEW e, Enters(x, e)
  PROVE  ValueInv'
<1>1. /\ Fits(window, AL_head, Execution_Lanes, IQ, stalled) /\ Sources(window, committed)
  BY StructFields DEF WakeInv
<1>2. /\ Values(window, committed, AL_head, Execution_Lanes, PRF_ready, PRF_written)
      /\ Operands(stage, lane, window, AL_head, Execution_Lanes, PRF_written)
  BY DEF ValueInv
<1>3. /\ x \in Inst /\ Len(window) < n_active
      /\ x.completed => ~x.dest_valid
      /\ window' = Entered(window, x) /\ committed' = committed /\ AL_head' = AL_head
      /\ Execution_Lanes' = Execution_Lanes /\ stage' = stage /\ lane' = lane
      /\ x.dest_valid => x.phys_reg \in Free
      /\ PRF_ready' = IF ~x.dest_valid THEN PRF_ready
                      ELSE IF x.predicted THEN PRF_ready \cup {x.phys_reg}
                                          ELSE PRF_ready \ {x.phys_reg}
      /\ PRF_written' = IF ~x.dest_valid THEN PRF_written
                        ELSE IF x.predicted THEN PRF_written \cup {x.phys_reg}
                                            ELSE PRF_written \ {x.phys_reg}
  BY DEF Enters, cycleVars
<1>4. x.dest_valid => x.phys_reg \in Names!Unused(committed, window)
  BY <1>3 DEF Free
<1>5. PICK v, X, U : v = Entered(window, x) /\ X = PRF_written' /\ U = PRF_ready'
  OBVIOUS
<1>6. Renews(x, PRF_ready, PRF_written, U, X)
  <2>1. CASE ~x.dest_valid
    BY <1>3, <1>5, <2>1 DEF Renews
  <2>2. CASE x.dest_valid /\ x.predicted
    BY <1>3, <1>5, <2>2 DEF Renews
  <2>3. CASE x.dest_valid /\ ~x.predicted
    BY <1>3, <1>5, <2>3 DEF Renews
  <2> QED  BY <2>1, <2>2, <2>3
<1>7. Values(v, committed, AL_head, Execution_Lanes, U, X)
  BY ONLY <1>1, <1>2, <1>3, <1>4, <1>5, <1>6, ValuesEntered
<1>8. Operands(stage, lane, v, AL_head, Execution_Lanes, X)
  BY ONLY <1>1, <1>2, <1>3, <1>4, <1>5, <1>6, OperandsEntered
<1> QED  BY <1>3, <1>5, <1>7, <1>8 DEF ValueInv

(* Every step keeps ValueInv.                                              *)
LEMMA ValueStep == StructInv /\ WakeInv /\ ValueInv /\ [Next]_vars => ValueInv'
<1> SUFFICES ASSUME StructInv, WakeInv, ValueInv, [Next]_vars PROVE ValueInv'
  OBVIOUS
<1>1. CASE Retire
  BY <1>1, ValueRetire
<1>2. CASE Writeback
  BY <1>2, ValueWriteback
<1>3. CASE load_replay
  BY <1>3, ValueReplay
<1>4. CASE \E hit \in BOOLEAN : Execute(hit)
  BY <1>4, ValueExecute
<1>5. CASE register_read
  BY <1>5, ValueRead
<1>6. CASE Issue
  BY <1>6, ValueIssue
<1>7. CASE EndSchedule \/ EndDispatch
  BY <1>7, ValueEnd
<1>8. ASSUME NEW kind \in Kind, NEW srcs \in SUBSET LogReg, NEW dest \in BOOLEAN,
             NEW predicted \in BOOLEAN, NEW r \in LogReg, NEW p \in PhysReg,
             NEW inum \in ALIndex \cup {NoInum}, NEW lanes \in SUBSET Lane,
             Dispatch(kind, srcs, dest, r, p, predicted, inum, lanes)
      PROVE  ValueInv'
  BY <1>8, DispatchFields, ValueEnters
<1>9. CASE UNCHANGED vars
  BY <1>9 DEF ValueInv, vars
<1> QED  BY <1>1, <1>2, <1>3, <1>4, <1>5, <1>6, <1>7, <1>8, <1>9 DEF Next, Cycle

(* An instruction at Register Read, where nothing executes before it any   *)
(* more, finds its operands written: no broadcast runs too far ahead of    *)
(* the write it announces (execute.cc, FIX_ME 14).                         *)
THEOREM OperandsAreWritten == Spec => []OperandsWritten
<1>1. Init => ValueInv
  BY ValueInit
<1>2. StructInv /\ WakeInv /\ ValueInv /\ [Next]_vars => ValueInv'
  BY ValueStep
<1>3. StructInv /\ ValueInv => OperandsWritten
  <2> SUFFICES ASSUME StructInv, ValueInv, stage = "register_read",
                      Execution_Lanes[lane].rr.valid
               PROVE  InstOf(Execution_Lanes[lane].rr).tags \subseteq PRF_written
    BY DEF OperandsWritten
  <2>1. StageOK(stage, lane)
    BY StructFields
  <2>2. lane \in Lane
    BY <2>1 DEF StageOK, Lane
  <2>3. Remaining(stage, lane) = {}
    BY DEF Remaining
  <2>4. \A t \in window[PosIn(AL_head, Execution_Lanes[lane].rr.index)].tags : t \in PRF_written
    BY <2>2, <2>3 DEF ValueInv, Operands
  <2> QED  BY <2>4 DEF InstOf, Pos, PosIn
<1> QED  BY <1>1, <1>2, <1>3, StructAlways, WakeInvariant, PTL DEF Spec

=============================================================================
