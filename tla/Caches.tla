------------------------------- MODULE Caches -------------------------------
(***************************************************************************)
(* The instruction and the data cache above a shared L2 cache, and those   *)
(* who wait for them: Fetch1, which reads two consecutive lines            *)
(* (uarchsim/ic.cc, fetchunit.cc), and the load queue, which tries again   *)
(* when no miss handling status register was free (uarchsim/lsu.cc).       *)
(* Addresses are line addresses; the line sizes are equal.                 *)
(***************************************************************************)
EXTENDS Cache, Sequences

CONSTANTS
  IC_CFG, DC_CFG, L2_CFG,
  Lines,       \* line addresses of loads and stores
  TextLines,   \* 0..n, the first lines a bundle may start in
  Loads        \* load queue entries

ASSUME CachesAssumption ==
  /\ {IC_CFG, DC_CFG, L2_CFG} \subseteq Cfgs
  /\ \A p \in TextLines : p \in Nat
  /\ \A l \in Lines : l \in Nat

VARIABLES
  cycle,
  IC, DC, L2,
  pc, ic_miss, ic_miss_resolve_cycle,
  turn,        \* in a cycle: "data", then "fetch", then its "end"
  LQ,          \* Loads -> [line, miss_resolve_cycle], or NoLoad
  \* History variables:
  arrives      \* "IC", "DC" -> line -> when its last miss brings it

vars == <<cycle, IC, DC, L2, pc, ic_miss, ic_miss_resolve_cycle, turn, LQ, arrives>>

AllLines == Lines \cup TextLines \cup {p + 1 : p \in TextLines}
NoLoad == [line |-> NoLine, miss_resolve_cycle |-> 0]

(* What a miss does at the next level: memory below the L2, and the L2     *)
(* below the others.                                                       *)
L2Access(l2, at, line, isStore) ==
  LET start   == MissStart(L2_CFG, l2, at, line)
      written == IF Replacing(l2, line).dirty THEN Memory(L2_CFG, l2, start)
                 ELSE [cache |-> l2, done |-> start]
      loaded  == Memory(L2_CFG, l2, written.done)
  IN  Access(L2_CFG, l2, l2, at, line, isStore, written, loaded)

L1Access(cfg, l1, l2, line, isStore) ==
  LET start   == MissStart(cfg, l1, cycle, line)
      old     == Replacing(l1, line)
      written == IF old.dirty THEN L2Access(l2, start, old.tag, TRUE)
                 ELSE [cache |-> l2, done |-> start]
      loaded  == L2Access(written.cache, written.done, line, FALSE)
  IN  Access(cfg, l1, l2, cycle, line, isStore, written, loaded)

(* A miss that gets an MHSR loads the line anew.                           *)
Arrival(arr, which, before, cfg, line, done) ==
  IF HitWays(before, line) # {} \/ done = NoCycle THEN arr
  ELSE [arr EXCEPT ![which][line] = done - cfg.hit]

Init ==
  /\ cycle = 0
  /\ IC = EmptyCache(IC_CFG) /\ DC = EmptyCache(DC_CFG) /\ L2 = EmptyCache(L2_CFG)
  /\ pc \in TextLines /\ ic_miss = FALSE /\ ic_miss_resolve_cycle = 0 /\ turn = "data"
  /\ LQ = [k \in Loads |-> NoLoad]
  /\ arrives = [c \in {"IC", "DC"} |->
                  [l \in AllLines |-> 0]]

Tick ==
  /\ cycle' = cycle + 1 /\ turn' = "data"
  /\ UNCHANGED <<IC, DC, L2, pc, ic_miss, ic_miss_resolve_cycle, LQ, arrives>>

-----------------------------------------------------------------------------
(* Fetch1 of a cycle.  A bundle that hits goes on to any other line.       *)

WaitFor(miss1, miss2, done1, done2) ==
  Later(IF miss1 THEN done1 ELSE 0, IF miss2 THEN done2 ELSE 0)

Fetch1 ==
  /\ turn # "end" /\ ~(ic_miss /\ cycle < ic_miss_resolve_cycle)
  /\ turn' = "end"
  /\ \E first \in {L1Access(IC_CFG, IC, L2, pc, FALSE)} :
     \E second \in {L1Access(IC_CFG, first.cache, first.below, pc + 1, FALSE)} :
       LET miss1  == ~IsHit(IC_CFG, cycle, first.done)
           miss2  == ~IsHit(IC_CFG, cycle, second.done)
       IN  /\ IC' = second.cache /\ L2' = second.below
           /\ ic_miss' = (miss1 \/ miss2)
           /\ IF miss1 \/ miss2
              THEN /\ ic_miss_resolve_cycle' = WaitFor(miss1, miss2, first.done, second.done)
                   /\ UNCHANGED pc
              ELSE pc' \in TextLines /\ UNCHANGED ic_miss_resolve_cycle
           /\ arrives' = Arrival(Arrival(arrives, "IC", IC, IC_CFG, pc, first.done),
                                 "IC", first.cache, IC_CFG, pc + 1, second.done)
  /\ UNCHANGED <<cycle, DC, LQ>>

(* mispredict() leaves a pending miss alone, flush() discards it.          *)
Mispredict ==
  /\ turn = "data" /\ pc' \in TextLines
  /\ UNCHANGED <<cycle, IC, DC, L2, ic_miss, ic_miss_resolve_cycle, turn, LQ, arrives>>

Flush ==
  /\ turn = "data" /\ pc' \in TextLines /\ ic_miss' = FALSE
  /\ UNCHANGED <<cycle, IC, DC, L2, ic_miss_resolve_cycle, turn, LQ, arrives>>

-----------------------------------------------------------------------------
(* The load-store unit's accesses.                                         *)

DCAccesses(line, isStore) == {L1Access(DC_CFG, DC, L2, line, isStore)}
DCAccess(a, line) ==
  /\ turn = "data" /\ turn' = "fetch"
  /\ DC' = a.cache /\ L2' = a.below
  /\ arrives' = Arrival(arrives, "DC", DC, DC_CFG, line, a.done)

LoadAddr(k, line) ==
  /\ LQ[k] = NoLoad
  /\ \E a \in DCAccesses(line, FALSE) :
       /\ DCAccess(a, line)
       /\ LQ' = [LQ EXCEPT ![k] = [line |-> line, miss_resolve_cycle |-> a.done]]
  /\ UNCHANGED <<cycle, IC, pc, ic_miss, ic_miss_resolve_cycle>>

(* load_unstall tries again for a load without an MHSR.                    *)
RetryLoad(k) ==
  /\ LQ[k] # NoLoad /\ LQ[k].miss_resolve_cycle = NoCycle
  /\ \E a \in DCAccesses(LQ[k].line, FALSE) :
       /\ DCAccess(a, LQ[k].line)
       /\ LQ' = [LQ EXCEPT ![k].miss_resolve_cycle = a.done]
  /\ UNCHANGED <<cycle, IC, pc, ic_miss, ic_miss_resolve_cycle>>

(* A load gets its value, or is squashed.                                  *)
EndLoad(k) ==
  /\ turn = "data" /\ LQ[k] # NoLoad /\ LQ' = [LQ EXCEPT ![k] = NoLoad]
  /\ UNCHANGED <<cycle, IC, DC, L2, pc, ic_miss, ic_miss_resolve_cycle, turn, arrives>>

(* Nobody waits for a store's access.                                      *)
StoreAddr(line) ==
  /\ \E a \in DCAccesses(line, TRUE) : DCAccess(a, line)
  /\ UNCHANGED <<cycle, IC, pc, ic_miss, ic_miss_resolve_cycle, LQ>>

Next ==
  \/ Tick \/ Fetch1 \/ Mispredict \/ Flush
  \/ \E k \in Loads : \/ \E line \in Lines : LoadAddr(k, line)
                       \/ RetryLoad(k) \/ EndLoad(k)
  \/ \E line \in Lines : StoreAddr(line)

Spec == Init /\ [][Next]_vars

-----------------------------------------------------------------------------
(* What the caches should keep true.                                       *)

Levels == {IC, DC, L2}
Busy(c) == {i \in DOMAIN c.mhsr : c.mhsr[i].busy}

(* A line that is being loaded names the register that loads it: no line   *)
(* keeps the name of a register that was given to another line.            *)
LineNamesItsMHSR ==
  \A c \in Levels : \A s \in DOMAIN c.array : \A w \in DOMAIN c.array[s] :
    LET e == c.array[s][w]
    IN  e.mhsr # NoMHSR /\ c.mhsr[e.mhsr].busy /\ c.mhsr[e.mhsr].resolved >= cycle =>
          c.mhsr[e.mhsr].lineAddress = e.tag

(* A load never completes before the miss that loads its line: not when it *)
(* hits on a line that is still on its way, nor after an eviction.         *)
NeverEarly ==
  [][\A k \in Loads :
       LQ'[k] # LQ[k] /\ LQ'[k] # NoLoad /\ LQ'[k].miss_resolve_cycle # NoCycle =>
         LQ'[k].miss_resolve_cycle >= arrives'["DC"][LQ'[k].line]]_vars

(* Both lines of a bundle have arrived when it leaves Fetch1.              *)
BundleArrived ==
  [][ic_miss' = FALSE /\ turn # "end" /\ turn' = "end" =>
       arrives'["IC"][pc] <= cycle /\ arrives'["IC"][pc + 1] <= cycle]_vars

(* The next level always has a register for a miss: every miss that is     *)
(* outstanding ends within a bounded time, so that its register is freed.  *)
MissesEnd ==
  \A c \in Levels : \A i \in Busy(c) : c.mhsr[i].resolved # NoCycle

=============================================================================
