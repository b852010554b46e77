------------------------------- MODULE Cache -------------------------------
(***************************************************************************)
(* One cache (uarchsim/CacheClass.cc over uarchsim/cache.h): an LRU array  *)
(* of line addresses with its miss handling status registers and miss      *)
(* ports.  It holds no data: an access returns the cycle in which it will  *)
(* complete.  A cache is a record, an access an operator from a cache, and *)
(* the cache below it, to both.                                            *)
(*                                                                         *)
(* cfg is the constructor's parameters: [sets, assoc, hit, miss, mhsrs,    *)
(* ports, srv].                                                            *)
(***************************************************************************)
EXTENDS Integers, FiniteSets, FiniteSetsExt

CONSTANT Cycles   \* 2^64, the number of values of a cycle_t

ASSUME CacheAssumption == Cycles \in Nat \ {0}

NoCycle == Cycles - 1   \* -1 as a cycle_t: no MHSR was free
NoLine  == -1           \* INVALID
NoMHSR  == -1

Later(a, b) == IF a < b THEN b ELSE a
Cfgs == [sets : Nat \ {0}, assoc : Nat \ {0}, hit : Nat, miss : Nat,
         mhsrs : Nat, ports : Nat \ {0}, srv : Nat]

EmptyCache(cfg) ==
  [array |-> [s \in 0..(cfg.sets - 1) |->
                [w \in 0..(cfg.assoc - 1) |->
                   [tag |-> NoLine, lru |-> w, mhsr |-> NoMHSR, dirty |-> FALSE]]],
   mhsr |-> [i \in 0..(cfg.mhsrs - 1) |->
               [busy |-> FALSE, resolved |-> 0, lineAddress |-> NoLine]],
   missPortAvail |-> [p \in 0..(cfg.ports - 1) |-> 0]]

-----------------------------------------------------------------------------
(* The array.                                                              *)

SetFor(c, line) == c.array[line % Cardinality(DOMAIN c.array)]
WithSetFor(c, line, s) == [c EXCEPT !.array[line % Cardinality(DOMAIN c.array)] = s]

HitWays(c, line) == {w \in DOMAIN SetFor(c, line) : SetFor(c, line)[w].tag = line}
HitWay(c, line)  == CHOOSE w \in HitWays(c, line) : TRUE
Line(c, line)    == SetFor(c, line)[HitWay(c, line)]

MostRecent(s, way) ==
  [w \in DOMAIN s |-> [s[w] EXCEPT !.lru = IF w = way THEN 0
                                           ELSE IF @ < s[way].lru THEN @ + 1 ELSE @]]

Victim(c, line) ==
  CHOOSE w \in DOMAIN SetFor(c, line) : \A v \in DOMAIN SetFor(c, line) :
    SetFor(c, line)[v].lru <= SetFor(c, line)[w].lru

(* lookup with replace, after a miss.                                      *)
Replaced(c, line, mhsr, dirty) ==
  LET way == Victim(c, line)
  IN  WithSetFor(c, line,
        [MostRecent(SetFor(c, line), way) EXCEPT ![way].tag = line, ![way].mhsr = mhsr,
                                                 ![way].dirty = dirty])

-----------------------------------------------------------------------------
(* Miss handling status registers and ports.                               *)

FreedKeepingLine(c, i) ==   \* a mutant: the line still names the register
  [c EXCEPT !.mhsr[i].busy = FALSE, !.mhsr[i].resolved = 0]
Freed(c, i) ==
  LET line  == c.mhsr[i].lineAddress
      freed == [c EXCEPT !.mhsr[i].busy = FALSE, !.mhsr[i].resolved = 0]
  IN  IF c.mhsr[i].busy /\ HitWays(c, line) # {} /\ Line(c, line).mhsr = i
      THEN WithSetFor(freed, line, [SetFor(c, line) EXCEPT ![HitWay(c, line)].mhsr = NoMHSR])
      ELSE freed

FreeOnHit(c, cycle) == {i \in DOMAIN c.mhsr : ~c.mhsr[i].busy}   \* a mutant
FreeMHSRs(c, cycle) ==
  {i \in DOMAIN c.mhsr : ~c.mhsr[i].busy \/ c.mhsr[i].resolved < cycle}

FindNextPort(c) ==
  CHOOSE p \in DOMAIN c.missPortAvail : \A q \in DOMAIN c.missPortAvail :
    c.missPortAvail[p] < c.missPortAvail[q]
      \/ (c.missPortAvail[p] = c.missPortAvail[q] /\ p <= q)

-----------------------------------------------------------------------------
(* Access.  An access is [cache, below, done]: the cache, the next level,  *)
(* and the cycle in which it ends.                                         *)

Memory(cfg, b, cycle) == [cache |-> b, below |-> b, done |-> (cycle + cfg.miss) % Cycles]

AccessDone(cfg, c, b, lineInArray) ==
  [cache |-> c, below |-> b, done |-> (lineInArray + cfg.hit) % Cycles]

AtLeast(lineInArray, cycle, hit) ==
  IF (lineInArray - cycle) % Cycles < hit THEN (cycle + hit) % Cycles
                                          ELSE lineInArray

AccessAvailable(cfg, c, b, cycle, line, isStore) ==   \* a mutant: loading is loaded
  AccessDone(cfg, WithSetFor(c, line, MostRecent(SetFor(c, line), HitWay(c, line))), b, cycle)
AccessHit(cfg, c, b, cycle, line, isStore) ==
  LET way  == HitWay(c, line)
      s    == MostRecent(SetFor(c, line), way)
      used == WithSetFor(c, line, [s EXCEPT ![way].dirty = @ \/ isStore])
      i    == s[way].mhsr
      here == [used EXCEPT !.mhsr[i].busy = FALSE, !.mhsr[i].resolved = 0]
  IN  IF i = NoMHSR THEN AccessDone(cfg, used, b, cycle)
      ELSE IF c.mhsr[i].resolved <= cycle
      THEN AccessDone(cfg, WithSetFor(here, line, [SetFor(here, line) EXCEPT
                                                     ![way].mhsr = NoMHSR]), b, cycle)
      ELSE AccessDone(cfg, used, b, AtLeast(c.mhsr[i].resolved, cycle, cfg.hit))

(* A miss, whose register is newMHSR, starts when a port is free and the   *)
(* line that it replaces has itself been loaded.                           *)
newMHSR(c, cycle) == Min(FreeMHSRs(c, cycle))
Replacing(c, line) == SetFor(c, line)[Victim(c, line)]

MissStart(cfg, c, cycle, line) ==
  LET free == Freed(c, newMHSR(c, cycle))
      old  == Replacing(free, line)
      port == AtLeast(Later(free.missPortAvail[FindNextPort(free)], cycle), cycle, cfg.hit)
  IN  IF old.mhsr = NoMHSR THEN port ELSE Later(free.mhsr[old.mhsr].resolved, port)

(* Of the next level: written is the access that wrote the replaced line   *)
(* back, if it was dirty, and loaded the one that read the new line.       *)
AccessMiss(cfg, c, cycle, line, isStore, written, loaded) ==
  LET new  == newMHSR(c, cycle)
      free == Freed(c, new)
  IN  AccessDone(cfg,
        [Replaced(free, line, new, isStore) EXCEPT
           !.mhsr[new] = [busy |-> TRUE, resolved |-> loaded.done, lineAddress |-> line],
           !.missPortAvail[FindNextPort(free)] = (written.done + cfg.srv) % Cycles],
        loaded.cache, loaded.done)

Access(cfg, c, b, cycle, line, isStore, written, loaded) ==
  IF HitWays(c, line) # {} THEN AccessHit(cfg, c, b, cycle, line, isStore)
  ELSE IF FreeMHSRs(c, cycle) = {} THEN [cache |-> c, below |-> b, done |-> NoCycle]
  ELSE AccessMiss(cfg, c, cycle, line, isStore, written, loaded)

(* *isHit, of an access that found an MHSR.                                *)
IsHit(cfg, cycle, done) == done # NoCycle /\ done = (cycle + cfg.hit) % Cycles

=============================================================================
