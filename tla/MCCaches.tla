------------------------------ MODULE MCCaches ------------------------------
(***************************************************************************)
(* Model-checking instances of Caches.  The view counts cycles from the    *)
(* present one and forgets how long ago something ended.  It compares vars *)
(* with itself to have TLC evaluate values that it would leave for later.  *)
(***************************************************************************)
EXTENDS Caches

Cfg(sets, ways, mhsrs, miss) ==
  [sets |-> sets, assoc |-> ways, hit |-> 1, miss |-> miss, mhsrs |-> mhsrs,
   ports |-> 1, srv |-> 1]

TwoSets  == Cfg(2, 1, 2, 0)   \* one for each line of a bundle
OneLine  == Cfg(1, 1, 1, 0)
TightL2  == Cfg(1, 2, 2, 1)   \* as many as the largest of the others: MissesEnd fails
SharedL2 == Cfg(1, 2, 3, 1)   \* one for each of the others'

FromNow(t) == IF t = NoCycle THEN NoCycle ELSE Later(t - cycle, -1)
(* A register whose miss has ended is as good as free.                     *)
Pending(c, i) == i # NoMHSR /\ c.mhsr[i].busy /\ c.mhsr[i].resolved >= cycle
ViewCache(c) ==
  <<[s \in DOMAIN c.array |-> [w \in DOMAIN c.array[s] |->
       [c.array[s][w] EXCEPT !.mhsr = IF Pending(c, @) THEN @ ELSE NoMHSR]]],
    [i \in DOMAIN c.mhsr |-> IF Pending(c, i)
                             THEN <<FromNow(c.mhsr[i].resolved), c.mhsr[i].lineAddress>>
                             ELSE <<>>],
    [p \in DOMAIN c.missPortAvail |-> Later(FromNow(c.missPortAvail[p]), 0)]>>

(* What an absent line is loaded by is in the past.                        *)
ViewArrivals(c, arr) ==
  {<<l, FromNow(arr[l])>> : l \in {m \in DOMAIN arr : HitWays(c, m) # {} /\ arr[m] > cycle}}

FromThisCycle ==
  <<vars = vars, ViewCache(IC), ViewCache(DC), ViewCache(L2), pc, ic_miss, turn,
    IF ic_miss THEN FromNow(ic_miss_resolve_cycle) ELSE 0,
    [k \in Loads |-> IF LQ[k] = NoLoad THEN <<>>
                     ELSE <<LQ[k].line, FromNow(LQ[k].miss_resolve_cycle)>>],
    ViewArrivals(IC, arrives["IC"]), ViewArrivals(DC, arrives["DC"])>>

=============================================================================
