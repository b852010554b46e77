-------------------------------- MODULE BTB --------------------------------
(***************************************************************************)
(* The branch target buffer (uarchsim/btb.cc) between Fetch1, which looks  *)
(* a bundle up in it, and the predecode of Fetch2, which trains it with    *)
(* what the bundle's instructions are and refetches a bundle that it got   *)
(* wrong (uarchsim/fetchunit.cc).  Predictions are free, and memory may    *)
(* change under the buffer.  A pc counts instructions.                     *)
(***************************************************************************)
EXTENDS Integers, SequencesExt, FiniteSets

CONSTANTS
  banks,   \* the longest bundle: one bank for each of its positions
  sets, assoc,
  cond_branch_per_cycle,
  Text     \* pc -> the instructions memory may hold there: [kind, target]

PC      == DOMAIN Text
Inc(p)  == p + 1
Calls   == {"BTB_CALL_DIRECT", "BTB_CALL_INDIRECT"}
Direct  == {"BTB_BRANCH", "BTB_JUMP_DIRECT", "BTB_CALL_DIRECT"}
BranchKinds == {"BTB_JUMP_INDIRECT", "BTB_RETURN"} \cup Calls \cup Direct

ASSUME BTBAssumption ==
  /\ {banks, sets, assoc, cond_branch_per_cycle} \subseteq Nat \ {0}
  /\ banks \in {2 ^ k : k \in 0..8} /\ sets \in {2 ^ k : k \in 0..16}
  /\ IsFiniteSet(PC) /\ PC = 0..(Cardinality(PC) - 1) /\ 0 \in PC
  /\ \A p \in PC : Text[p] # {} /\ \A i \in Text[p] :
       /\ i.kind \in BranchKinds \cup {"plain", "serialize", "fault"}
       /\ i.target \in PC
  /\ Text[Cardinality(PC) - 1] = {[kind |-> "fault", target |-> 0]}

Ways == 0..(assoc - 1)

VARIABLES
  text,          \* what memory holds
  btb,           \* bank -> set -> way -> entry
  pc, fetch_active,
  fetch2,        \* [valid, pc, bundle], with what PAY holds of the bundle
  \* History variables, in terms of which the properties are stated:
  trained,       \* what an instruction was last trained as
  recency,       \* bank -> set -> tags, the latest used first
  misfetches     \* of the present pc in a row, in the present text

vars == <<text, btb, pc, fetch_active, fetch2, trained, recency, misfetches>>

-----------------------------------------------------------------------------
(* An instruction's coordinates.                                           *)
ConvertShifted(p) ==   \* a mutant: one bit too far
  [bank |-> (p \div 2) % banks, btb_pc |-> p \div banks]
convert(p) == [bank |-> p % banks, btb_pc |-> p \div banks]
index(p)   == convert(p).btb_pc % sets
TagHalf(p) == (convert(p).btb_pc \div sets) % 2   \* a mutant: one bit of the tag
tag(p)     == convert(p).btb_pc \div sets
SetOf(b, p) == b[convert(p).bank][index(p)]
WithSet(b, p, s) == [b EXCEPT ![convert(p).bank][index(p)] = s]

(* The way of a set that has the tag, or else the least recently used.     *)
Hits(s, t) == {w \in Ways : s[w].valid /\ s[w].tag = t}
Way(s, t)  == IF Hits(s, t) # {} THEN Min(Hits(s, t))
              ELSE CHOOSE w \in Ways : s[w].lru = assoc - 1
search(b, p) == [hit |-> Hits(SetOf(b, p), tag(p)) # {}, way |-> Way(SetOf(b, p), tag(p))]

update_lru(s, way) ==
  [w \in Ways |-> [s[w] EXCEPT !.lru = IF w = way THEN 0
                                       ELSE IF @ < s[way].lru THEN @ + 1 ELSE @]]

(* decode: indirect branches have no target yet.                           *)
decode(i) == [type |-> i.kind, target |-> IF i.kind \in Direct THEN i.target ELSE 0]

UpdateTarget(b, p, i) ==   \* a mutant: an entry keeps its branch type
  LET way == search(b, p).way
      s   == update_lru(SetOf(b, p), way)
  IN  WithSet(b, p, [s EXCEPT ![way] = [@ EXCEPT !.valid = TRUE, !.tag = tag(p),
                                                 !.target = decode(i).target]])
Updated(s, way, t, d) ==
  [update_lru(s, way) EXCEPT ![way] = [valid |-> TRUE, tag |-> t, lru |-> 0,
                                       type |-> d.type, target |-> d.target]]
update(b, p, i) ==
  WithSet(b, p, Updated(SetOf(b, p), search(b, p).way, tag(p), decode(i)))

InvalidateInPlace(s, way) ==   \* a mutant: an invalid way keeps its rank
  [s EXCEPT ![way].valid = FALSE]
Invalidated(s, way) ==
  [w \in Ways |->
     IF w = way THEN [s[w] EXCEPT !.valid = FALSE, !.lru = assoc - 1]
     ELSE [s[w] EXCEPT !.lru = IF @ > s[way].lru THEN @ - 1 ELSE @]]
invalidate(b, p) == WithSet(b, p, Invalidated(SetOf(b, p), search(b, p).way))

(* The history of a set: the tags in it, the latest used first.            *)
Without(r, t) ==
  IF \E k \in DOMAIN r : r[k] = t
  THEN RemoveAt(r, CHOOSE k \in DOMAIN r : r[k] = t) ELSE r
Touch(r, p)     == WithSet(r, p, <<tag(p)>> \o Without(SetOf(r, p), tag(p)))
Forget(r, p, t) == WithSet(r, p, Without(SetOf(r, p), t))

-----------------------------------------------------------------------------
(* lookup, one instruction of the bundle at a time.  cb are the predicted  *)
(* directions, target the predicted target of an indirect branch.          *)

TerminatesBundle(slot, taken, num_cb) ==
  \/ slot.insn.kind = "fault"
  \/ slot.branch /\ slot.type # "BTB_BRANCH"
  \/ slot.branch /\ slot.type = "BTB_BRANCH" /\ (taken \/ num_cb = cond_branch_per_cycle)

Looked(l, p, cb, target) ==
  LET found   == search(l.btb, p)
      entry   == SetOf(l.btb, p)[found.way]
      cond    == found.hit /\ entry.type = "BTB_BRANCH"
      num_cb  == IF cond THEN l.num_cb + 1 ELSE l.num_cb
      taken   == cond /\ cb[num_cb]
      next_pc == IF ~found.hit \/ (cond /\ ~taken) THEN Inc(p)
                 ELSE IF entry.type \in Direct THEN entry.target ELSE target
      slot    == [pc |-> p, insn |-> text[p], branch |-> found.hit,
                  type |-> IF found.hit THEN entry.type ELSE "none",
                  target |-> IF found.hit THEN entry.target ELSE 0, next_pc |-> next_pc]
  IN  [bundle |-> Append(l.bundle, slot), num_cb |-> num_cb,
       btb |-> IF found.hit THEN WithSet(l.btb, p, update_lru(SetOf(l.btb, p), found.way))
               ELSE l.btb,
       recency |-> IF found.hit THEN Touch(l.recency, p) ELSE l.recency,
       terminated |-> TerminatesBundle(slot, taken, num_cb)]

Look(l, q) == IF l.terminated THEN l ELSE Looked(l, q.pc, q.cb, q.target)

lookup(start, cb, target) ==
  FoldLeft(Look, [bundle |-> <<>>, num_cb |-> 0, btb |-> btb, recency |-> recency,
                  terminated |-> FALSE],
           [k \in 1..banks |-> [pc |-> start + (k - 1), cb |-> cb, target |-> target]])

-----------------------------------------------------------------------------
Empty(w) == [valid |-> FALSE, tag |-> 0, lru |-> w, type |-> "BTB_BRANCH", target |-> 0]
Untrained == [type |-> "none", target |-> 0]

Init ==
  /\ text = [p \in PC |-> CHOOSE i \in Text[p] : TRUE]
  /\ btb = [b \in 0..(banks - 1) |-> [s \in 0..(sets - 1) |-> [w \in Ways |-> Empty(w)]]]
  /\ pc = 0 /\ fetch_active = TRUE
  /\ fetch2 = [valid |-> FALSE, pc |-> 0, bundle |-> <<>>]
  /\ trained = [p \in PC |-> Untrained]
  /\ recency = [b \in 0..(banks - 1) |-> [s \in 0..(sets - 1) |-> <<>>]]
  /\ misfetches = 0

Fetch1 ==
  /\ ~fetch2.valid /\ fetch_active
  /\ \E cb \in [1..cond_branch_per_cycle -> BOOLEAN], target \in PC :
       LET l == lookup(pc, cb, target)
       IN  /\ btb' = l.btb /\ recency' = l.recency
           /\ fetch2' = [valid |-> TRUE, pc |-> pc, bundle |-> l.bundle]
           /\ pc' = Last(l.bundle).next_pc
  /\ UNCHANGED <<text, fetch_active, trained, misfetches>>

(* The predecode, up to a serializing instruction.                         *)
Serializers == {k \in DOMAIN fetch2.bundle : fetch2.bundle[k].insn.kind = "serialize"}
Predecoded  ==
  SubSeq(fetch2.bundle, 1,
         IF Serializers = {} THEN Len(fetch2.bundle) ELSE Min(Serializers))

Missed(s) ==
  /\ s.insn.kind \in BranchKinds
  /\ \/ ~s.branch \/ s.type # s.insn.kind
     \/ s.insn.kind \in Direct /\ s.target # s.insn.target
NonBranch(s) == s.insn.kind \notin BranchKinds /\ s.branch

Wrong == {k \in DOMAIN Predecoded : Missed(Predecoded[k]) \/ NonBranch(Predecoded[k])}

Idles == \E k \in DOMAIN Predecoded : Predecoded[k].insn.kind \in {"serialize", "fault"}

Invalidate(t, p) ==
  [btb |-> invalidate(t.btb, p), trained |-> [t.trained EXCEPT ![p] = Untrained],
   recency |-> Forget(t.recency, p, tag(p))]
Update(t, p, i) ==
  LET victim == SetOf(t.btb, p)[search(t.btb, p).way]
  IN  [btb |-> update(t.btb, p, i), trained |-> [t.trained EXCEPT ![p] = decode(i)],
       recency |-> Touch(IF victim.valid THEN Forget(t.recency, p, victim.tag)
                         ELSE t.recency, p)]
Train(t, s) ==
  IF NonBranch(s) THEN Invalidate(t, s.pc)
  ELSE IF Missed(s) THEN Update(t, s.pc, s.insn) ELSE t

Trained(n) == FoldLeft(Train, [btb |-> btb, trained |-> trained, recency |-> recency],
                       SubSeq(Predecoded, 1, n))

Nothing == [valid |-> FALSE, pc |-> 0, bundle |-> <<>>]

Fetch2Misfetch ==
  /\ fetch2.valid /\ Wrong # {}
  /\ LET t == Trained(Len(Predecoded))
     IN  btb' = t.btb /\ trained' = t.trained /\ recency' = t.recency
  /\ fetch_active' = TRUE
  /\ pc' = fetch2.pc /\ fetch2' = Nothing
  /\ misfetches' = misfetches + 1
  /\ UNCHANGED text

Fetch2Advance ==
  /\ fetch2.valid /\ Wrong = {}
  /\ fetch_active' = (fetch_active /\ ~Idles)
  /\ fetch2' = Nothing /\ misfetches' = 0
  /\ UNCHANGED <<text, btb, pc, trained, recency>>

(* A misprediction or a flush, at any time.                                *)
Redirect ==
  /\ \E p \in PC : pc' = p
  /\ fetch_active' = TRUE /\ fetch2' = Nothing /\ misfetches' = 0
  /\ UNCHANGED <<text, btb, trained, recency>>

(* A committed store changes what memory holds.  The bundle in Fetch2 was  *)
(* read before: its misfetch does not count.                               *)
Store(p) ==
  /\ \E i \in Text[p] \ {text[p]} : text' = [text EXCEPT ![p] = i]
  /\ misfetches' = IF fetch2.valid THEN -1 ELSE 0
  /\ UNCHANGED <<btb, pc, fetch_active, fetch2, trained, recency>>

Next == Fetch1 \/ Fetch2Misfetch \/ Fetch2Advance \/ Redirect \/ \E p \in PC : Store(p)

Spec == Init /\ [][Next]_vars

-----------------------------------------------------------------------------
(* What the branch target buffer should keep true.                         *)

(* A hit returns what that very instruction was last trained as, through   *)
(* evictions, invalidations and retraining of its neighbours in the set.   *)
HitIsLastTrained ==
  \A p \in PC : search(btb, p).hit =>
    LET e == SetOf(btb, p)[search(btb, p).way]
    IN  trained[p] = [type |-> e.type, target |-> e.target]

(* The ranks of a set are the order in which its entries were last used,   *)
(* and a way that was invalidated is replaced before any of them.          *)
ReplacesOldest ==
  \A b \in 0..(banks - 1), s \in 0..(sets - 1), w \in Ways :
    LET e == btb[b][s][w]
        r == recency[b][s]
    IN  IF e.valid THEN e.lru < Len(r) /\ r[e.lru + 1] = e.tag ELSE e.lru >= Len(r)

(* The assertions of update() and invalidate(), when it is their turn: an   *)
(* entry is invalidated only if it is there, and an entry that is there is *)
(* rewritten only to change it, although the other positions of the bundle *)
(* have been trained since the buffer was read.                            *)
TrainingAsserts ==
  fetch2.valid => \A k \in Wrong :
    LET s == Predecoded[k]
        b == Trained(k - 1).btb
        e == SetOf(b, s.pc)[search(b, s.pc).way]
    IN  IF NonBranch(s) THEN search(b, s.pc).hit
        ELSE search(b, s.pc).hit =>
               \/ e.type # decode(s.insn).type
               \/ s.insn.kind \in Direct /\ e.target # decode(s.insn).target

(* A bundle is misfetched no more often than it has positions, whatever it *)
(* is predicted and whatever else was in the buffer: each time all that    *)
(* was wrong is trained, and what was trained stays right until it passes. *)
MisfetchesConverge == misfetches <= banks

=============================================================================
