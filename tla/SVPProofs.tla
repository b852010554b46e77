------------------------------ MODULE SVPProofs ------------------------------
(***************************************************************************)
(* The queue and the counters of the value predictor, for every table,     *)
(* queue size and value width: the VPQ mirrors the window, and an entry's  *)
(* instance counter is exactly the number of its instances in flight.  On  *)
(* these rest the two promises of the predictor: a confident prediction    *)
(* for a PC that produces an arithmetic sequence is right, and the         *)
(* predictor implements StrideSpec.                                        *)
(***************************************************************************)
EXTENDS SVP, RingProofs, SequenceTheorems, FiniteSetTheorems

(* Two PCs never share both index and tag.  That is so when the tag has    *)
(* all the bits of the PC above the index; with the default of 10 and 20   *)
(* bits (parameters.cc), when the program is smaller than 4 GB.            *)
NoAliases ==
  \A p, q \in PC : index[p] = index[q] /\ tag[p] = tag[q] => p = q

(* The state of the predictor has its type.                                *)
TypeOK ==
  /\ SVP_table \in [Index -> Entry]
  /\ VPQ \in [Slot -> [pc : PC \cup {NoPC}, val : Value]]
  /\ VPQ_head \in Slot /\ VPQ_tail \in Slot
  /\ VPQ_head_phase \in BOOLEAN /\ VPQ_tail_phase \in BOOLEAN
  /\ window \in Seq(Inst)
  /\ upcoming \in [Regular -> Value]

(* The eligible instructions among the first n of a window, and how many   *)
(* are older than the k-th.                                                *)
Elig(w, n) == {k \in 1..n : w[k].pc # NoPC}
Age(w, k)  == Cardinality(Elig(w, k - 1))

(* An instruction with d eligible ones before it has the d-th slot from    *)
(* the head, or, if it is a branch, a tail that leaves d entries.          *)
Placed(x, d, head, hph, q) ==
  /\ RingOK(head, hph, x.at[1], x.at[2])
  /\ x.at[1] = Ahead(d, head, qsize)
  /\ Occupancy(head, hph, x.at[1], x.at[2], qsize) = d
  /\ x.pc # NoPC => /\ q[x.at[1]].pc = x.pc
                    /\ x.done => q[x.at[1]].val = x.value

Owner(s, w) == \E k \in DOMAIN w : w[k].pc # NoPC /\ w[k].at[1] = s

(* The queue q mirrors the window w: beyond VPQMirrorsWindow, the phases   *)
(* tell empty from full, and every slot in use has an owner.               *)
Mirrors(w, q, head, hph, tail, tph) ==
  /\ RingOK(head, hph, tail, tph)
  /\ Occupancy(head, hph, tail, tph, qsize) = Age(w, Len(w) + 1)
  /\ \A k \in DOMAIN w : Placed(w[k], Age(w, k), head, hph, q)
  /\ \A s \in Slot :
       Distance(s, head, qsize) < Occupancy(head, hph, tail, tph, qsize) => Owner(s, w)

QueueInv ==
  /\ TypeOK
  /\ Mirrors(window, VPQ, VPQ_head, VPQ_head_phase, VPQ_tail, VPQ_tail_phase)

-----------------------------------------------------------------------------
(* Counting.                                                               *)

(* The eligible instructions among the first n are at most n.              *)
LEMMA EligFinite ==
  ASSUME NEW w, NEW n \in Nat
  PROVE  /\ IsFiniteSet(Elig(w, n))
         /\ Cardinality(Elig(w, n)) \in Nat
<1>1. IsFiniteSet(1..n) /\ Elig(w, n) \in SUBSET (1..n)
  BY FS_Interval DEF Elig
<1> QED  BY <1>1, FS_Subset, FS_CardinalityType

(* One more instruction counts if it is eligible.                          *)
LEMMA EligStep ==
  ASSUME NEW w, NEW n \in Nat
  PROVE  Cardinality(Elig(w, n + 1)) =
           IF w[n + 1].pc # NoPC THEN Cardinality(Elig(w, n)) + 1
                                 ELSE Cardinality(Elig(w, n))
<1>1. IsFiniteSet(Elig(w, n))
  BY EligFinite
<1>2. CASE w[n + 1].pc # NoPC
  <2>1. Elig(w, n + 1) = Elig(w, n) \cup {n + 1} /\ n + 1 \notin Elig(w, n)
    BY <1>2 DEF Elig
  <2> QED  BY <2>1, <1>1, <1>2, FS_AddElement
<1>3. CASE w[n + 1].pc = NoPC
  <2>1. Elig(w, n + 1) = Elig(w, n)
    BY <1>3 DEF Elig
  <2> QED  BY <2>1, <1>3
<1> QED  BY <1>2, <1>3

(* More instructions never hold fewer eligible ones.                       *)
LEMMA EligMonotone ==
  ASSUME NEW w, NEW n \in Nat, NEW m \in 0..n
  PROVE  Cardinality(Elig(w, m)) <= Cardinality(Elig(w, n))
<1>1. IsFiniteSet(Elig(w, n)) /\ Elig(w, m) \in SUBSET Elig(w, n)
  BY EligFinite DEF Elig
<1> QED  BY <1>1, FS_Subset

(* Eligibility depends on the PCs alone.                                   *)
LEMMA EligSame ==
  ASSUME NEW v, NEW w, NEW n \in Nat, \A k \in 1..n : v[k].pc = w[k].pc
  PROVE  Elig(v, n) = Elig(w, n)
BY DEF Elig

(* So does the age of an instruction.                                      *)
LEMMA AgeSame ==
  ASSUME NEW v, NEW w, NEW n \in Nat, \A k \in 1..n : v[k].pc = w[k].pc
  PROVE  \A k \in 1..n : Age(v, k) = Age(w, k)
<1> SUFFICES ASSUME NEW k \in 1..n
             PROVE  Age(v, k) = Age(w, k)
  OBVIOUS
<1>1. Elig(v, k - 1) = Elig(w, k - 1)
  BY DEF Elig
<1> QED  BY <1>1 DEF Age

(* Without its first instruction, a window has one eligible one less if    *)
(* that was eligible.                                                      *)
LEMMA EligTail ==
  ASSUME NEW v, NEW w, NEW n \in Nat, \A k \in 1..n : v[k] = w[k + 1]
  PROVE  Cardinality(Elig(v, n)) =
           IF w[1].pc # NoPC THEN Cardinality(Elig(w, n + 1)) - 1
                             ELSE Cardinality(Elig(w, n + 1))
<1>1. Elig(v, n) = {k \in 1..n : k + 1 \in Elig(w, n + 1)}
  BY DEF Elig
<1>2. Elig(w, n + 1) \in SUBSET (1..(n + 1)) /\ IsFiniteSet(Elig(w, n + 1))
  BY EligFinite DEF Elig
<1>3. Cardinality(Elig(v, n)) = Cardinality(Elig(w, n + 1) \ {1})
  BY <1>1, <1>2, ShiftCount
<1>4. 1 \in Elig(w, n + 1) <=> w[1].pc # NoPC
  BY DEF Elig
<1> QED  BY <1>2, <1>3, <1>4, FS_RemoveElement

(* Every other instruction's age drops by one when the head retires, if    *)
(* that was eligible.                                                      *)
LEMMA AgeTail ==
  ASSUME NEW v, NEW w, NEW n \in Nat, \A k \in 1..n : v[k] = w[k + 1]
  PROVE  \A k \in 1..(n + 1) :
           /\ Age(v, k) = IF w[1].pc # NoPC THEN Age(w, k + 1) - 1 ELSE Age(w, k + 1)
           /\ Age(v, k) \in Nat /\ Age(w, k + 1) \in Nat
<1> SUFFICES ASSUME NEW k \in 1..(n + 1)
             PROVE  /\ Age(v, k) = IF w[1].pc # NoPC THEN Age(w, k + 1) - 1
                                                      ELSE Age(w, k + 1)
                    /\ Age(v, k) \in Nat /\ Age(w, k + 1) \in Nat
  OBVIOUS
<1>1. PICK m \in Nat : m = k - 1
  OBVIOUS
<1>2. k = m + 1 /\ (k + 1) - 1 = m + 1 /\ \A j \in 1..m : v[j] = w[j + 1]
  BY <1>1
<1>3. Cardinality(Elig(v, m)) =
        IF w[1].pc # NoPC THEN Cardinality(Elig(w, m + 1)) - 1
                          ELSE Cardinality(Elig(w, m + 1))
  BY <1>2, EligTail
<1>4. Cardinality(Elig(v, m)) \in Nat /\ Cardinality(Elig(w, m + 1)) \in Nat
  BY EligFinite
<1> QED  BY <1>1, <1>2, <1>3, <1>4 DEF Age

(* Between two eligible instructions the younger one has the greater age. *)
LEMMA EligStrict ==
  ASSUME NEW w, NEW n \in Nat, NEW k \in 1..n, w[k].pc # NoPC
  PROVE  Age(w, k) + 1 <= Cardinality(Elig(w, n))
<1>1. PICK m \in Nat : m + 1 = k
  <2>1. k - 1 \in Nat /\ (k - 1) + 1 = k
    OBVIOUS
  <2> QED  BY <2>1
<1>2. m = k - 1 /\ k \in 0..n
  BY <1>1
<1>3. Cardinality(Elig(w, k)) = Cardinality(Elig(w, m)) + 1
  BY <1>1, EligStep
<1> QED  BY <1>2, <1>3, EligMonotone DEF Age

-----------------------------------------------------------------------------
(* The queue and the window, step by step.                                 *)

(* The fields of an instruction in flight.                                 *)
LEMMA InstFields ==
  ASSUME NEW w \in Seq(Inst), NEW k \in DOMAIN w
  PROVE  /\ k \in 1..Len(w) /\ Len(w) \in Nat /\ DOMAIN w = 1..Len(w)
         /\ w[k] \in Inst
         /\ w[k].at \in Slot \X BOOLEAN
         /\ w[k].at[1] \in Slot /\ w[k].at[2] \in BOOLEAN
         /\ w[k].pc \in PC \cup {NoPC}
         /\ w[k].done \in BOOLEAN /\ w[k].value \in Value
         /\ w[k].predicted \in BOOLEAN /\ w[k].pred_value \in Value
<1>1. k \in 1..Len(w) /\ Len(w) \in Nat /\ DOMAIN w = 1..Len(w)
  BY LenProperties
<1>2. w[k] \in Inst
  BY <1>1, ElementOfSeq
<1>3. w[k].at \in Slot \X BOOLEAN
  BY <1>2 DEF Inst
<1> QED  BY <1>1, <1>2, <1>3 DEF Inst

(* An age is at most the number of entries in use, and the slot of an      *)
(* eligible instruction is in use, at the distance that is its age.        *)
AgeFits(w, k, head, used) ==
  /\ Age(w, k) \in 0..qsize /\ Age(w, k) <= used
  /\ w[k].pc # NoPC =>
       /\ Age(w, k) \in 0..(qsize - 1) /\ Age(w, k) < used
       /\ Distance(w[k].at[1], head, qsize) = Age(w, k)

(* Every instruction of a mirrored window has its place.                   *)
LEMMA Slots ==
  ASSUME NEW w \in Seq(Inst), NEW q,
         NEW head \in Slot, NEW hph \in BOOLEAN,
         NEW tail \in Slot, NEW tph \in BOOLEAN,
         Mirrors(w, q, head, hph, tail, tph)
  PROVE  \A k \in DOMAIN w :
           AgeFits(w, k, head, Occupancy(head, hph, tail, tph, qsize))
<1> SUFFICES ASSUME NEW k \in DOMAIN w
             PROVE  AgeFits(w, k, head, Occupancy(head, hph, tail, tph, qsize))
  OBVIOUS
<1>1. k \in 1..Len(w) /\ Len(w) \in Nat /\ w[k].at[1] \in Slot
  BY InstFields
<1>2. qsize \in Nat \ {0} /\ Slot = 0..(qsize - 1)
  BY SVPAssumption DEF Slot
<1>3. Occupancy(head, hph, tail, tph, qsize) \in 0..qsize
  BY <1>2, OccupancyRange DEF Mirrors
<1>4. Occupancy(head, hph, tail, tph, qsize) = Cardinality(Elig(w, Len(w)))
  <2>1. (Len(w) + 1) - 1 = Len(w)
    BY <1>1
  <2> QED  BY <2>1 DEF Mirrors, Age
<1>5. k - 1 \in Nat /\ k - 1 \in 0..Len(w)
  BY <1>1
<1>6. Age(w, k) \in Nat /\ Age(w, k) <= Cardinality(Elig(w, Len(w)))
  BY <1>1, <1>5, EligFinite, EligMonotone DEF Age
<1>7. Cardinality(Elig(w, Len(w))) \in Nat
  BY <1>1, EligFinite
<1>8. ASSUME w[k].pc # NoPC
      PROVE  /\ Age(w, k) \in 0..(qsize - 1)
             /\ Age(w, k) < Occupancy(head, hph, tail, tph, qsize)
             /\ Distance(w[k].at[1], head, qsize) = Age(w, k)
  <2>1. Age(w, k) + 1 <= Cardinality(Elig(w, Len(w)))
    BY <1>1, <1>8, EligStrict
  <2>2. Age(w, k) \in 0..(qsize - 1)
    BY <2>1, <1>2, <1>3, <1>4, <1>6, <1>7
  <2>3. w[k].at[1] = Ahead(Age(w, k), head, qsize)
    BY DEF Mirrors, Placed
  <2>4. Distance(w[k].at[1], head, qsize) = Age(w, k)
    BY <2>2, <2>3, <1>2, DistanceAhead
  <2> QED  BY <2>1, <2>2, <2>4, <1>4, <1>6, <1>7
<1> QED  BY <1>2, <1>3, <1>4, <1>6, <1>7, <1>8 DEF AgeFits

(* Two eligible instructions have different slots.                         *)
Distinct(w) ==
  \A j, k \in DOMAIN w :
    j # k /\ w[j].pc # NoPC /\ w[k].pc # NoPC => w[j].at[1] # w[k].at[1]

(* No slot of a mirrored window is used twice.                             *)
LEMMA SlotsDiffer ==
  ASSUME NEW w \in Seq(Inst), NEW q,
         NEW head \in Slot, NEW hph \in BOOLEAN,
         NEW tail \in Slot, NEW tph \in BOOLEAN,
         Mirrors(w, q, head, hph, tail, tph)
  PROVE  Distinct(w)
<1>0. \A i \in DOMAIN w :
        AgeFits(w, i, head, Occupancy(head, hph, tail, tph, qsize))
  BY Slots
<1>1. ASSUME NEW j \in DOMAIN w, NEW k \in DOMAIN w, j < k,
             w[j].pc # NoPC, w[k].pc # NoPC
      PROVE  w[j].at[1] # w[k].at[1]
  <2>1. j \in 1..Len(w) /\ k \in 1..Len(w) /\ Len(w) \in Nat
    BY InstFields
  <2>2. PICK m \in Nat : m = k - 1
    BY <2>1
  <2>3. j \in 1..m
    BY <2>1, <2>2, <1>1
  <2>4. Age(w, j) + 1 <= Age(w, k)
    BY <2>2, <2>3, <1>1, EligStrict DEF Age
  <2>5. /\ Age(w, j) \in 0..(qsize - 1) /\ Age(w, k) \in 0..(qsize - 1)
        /\ Distance(w[j].at[1], head, qsize) = Age(w, j)
        /\ Distance(w[k].at[1], head, qsize) = Age(w, k)
    BY <1>0, <1>1 DEF AgeFits
  <2> QED  BY <2>4, <2>5, SVPAssumption
<1>2. \A j \in DOMAIN w : j \in Int
  BY LenProperties
<1> QED  BY <1>1, <1>2 DEF Distinct

(* An instruction x enters the window with the entry e at the tail.        *)
Enters(w, q, v, p, x, e, tail, tph) ==
  /\ v = Append(w, x) /\ p = [q EXCEPT ![tail] = e]
  /\ x.at[1] = tail /\ x.at[2] = tph /\ x.pc # NoPC /\ ~x.done /\ e.pc = x.pc

(* Rename2 of an eligible instruction.                                     *)
LEMMA MirrorsAppend ==
  ASSUME NEW w \in Seq(Inst), NEW q \in [Slot -> [pc : PC \cup {NoPC}, val : Value]],
         NEW head \in Slot, NEW hph \in BOOLEAN,
         NEW tail \in Slot, NEW tph \in BOOLEAN,
         Mirrors(w, q, head, hph, tail, tph),
         Occupancy(head, hph, tail, tph, qsize) < qsize,
         NEW x \in Inst, NEW e, NEW v, NEW p, Enters(w, q, v, p, x, e, tail, tph)
  PROVE  Mirrors(v, p, head, hph, Next1(tail, qsize), NextPhase(tail, tph, qsize))
<1> DEFINE n == Len(w)
           O == Occupancy(head, hph, tail, tph, qsize)
<1> USE DEF Enters
<1>1. n \in Nat /\ DOMAIN w = 1..n
  BY LenProperties
<1>2. /\ v \in Seq(Inst) /\ Len(v) = n + 1 /\ DOMAIN v = 1..(n + 1)
      /\ v[n + 1] = x /\ \A k \in 1..n : v[k] = w[k]
  BY AppendProperties, LenProperties
<1> HIDE DEF n
<1>3. qsize \in Nat \ {0} /\ Slot = 0..(qsize - 1)
  BY SVPAssumption DEF Slot
<1>4. RingOK(head, hph, tail, tph) /\ O \in 0..qsize
  BY <1>3, OccupancyRange DEF Mirrors
<1>5. /\ RingOK(head, hph, Next1(tail, qsize), NextPhase(tail, tph, qsize))
      /\ Occupancy(head, hph, Next1(tail, qsize), NextPhase(tail, tph, qsize), qsize)
           = O + 1
  BY <1>3, <1>4, AdvanceTail
<1>6. O = Cardinality(Elig(w, n)) /\ Elig(v, n) = Elig(w, n)
  <2>1. (n + 1) - 1 = n
    BY <1>1
  <2>2. \A k \in 1..n : v[k].pc = w[k].pc
    BY <1>2
  <2>3. Elig(v, n) = Elig(w, n)
    BY <1>1, <2>2, EligSame
  <2> QED  BY <2>1, <2>3 DEF Mirrors, Age, n
<1>7. Cardinality(Elig(v, n + 1)) = O + 1
  <2>1. v[n + 1].pc # NoPC
    BY <1>2
  <2> QED  BY <2>1, <1>1, <1>6, EligStep
<1>8. \A k \in 1..n : Age(v, k) = Age(w, k)
  <2>1. \A k \in 1..n : v[k].pc = w[k].pc
    BY <1>2
  <2> QED  BY <2>1, <1>1, AgeSame
<1>9. Age(v, n + 1) = O
  <2>1. (n + 1) - 1 = n
    BY <1>1
  <2> QED  BY <2>1, <1>6 DEF Age
<1>10. Ahead(O, head, qsize) = tail /\ Distance(tail, head, qsize) = O
  <2>1. Ahead(O, head, qsize) = tail
    BY <1>3, <1>4, EndsFromTail
  <2>2. O \in 0..(qsize - 1)
    BY <1>3, <1>4
  <2> QED  BY <2>1, <2>2, <1>3, DistanceAhead
<1>0. \A k \in DOMAIN w : AgeFits(w, k, head, O)
  BY Slots
<1> HIDE DEF O
<1>11. ASSUME NEW k \in 1..n
       PROVE  Placed(v[k], Age(v, k), head, hph, p)
  <2>1. Placed(w[k], Age(w, k), head, hph, q) /\ v[k] = w[k] /\ Age(v, k) = Age(w, k)
    BY <1>1, <1>2, <1>8 DEF Mirrors
  <2>2. w[k].pc # NoPC => w[k].at[1] \in Slot /\ w[k].at[1] # tail
    <3>1. k \in DOMAIN w
      BY <1>1
    <3>2. w[k].pc # NoPC => Distance(w[k].at[1], head, qsize) < O
      BY <3>1, <1>0 DEF AgeFits
    <3>3. w[k].at[1] \in Slot
      BY <3>1, InstFields
    <3>4. Distance(w[k].at[1], head, qsize) \in 0..(qsize - 1)
      BY <3>3, <1>3, DistanceAhead
    <3> QED  BY <3>2, <3>3, <3>4, <1>10, <1>4, <1>3
  <2>3. w[k].pc # NoPC => p[w[k].at[1]] = q[w[k].at[1]]
    BY <2>2
  <2> QED  BY <2>1, <2>3 DEF Placed
<1>12. Placed(v[n + 1], Age(v, n + 1), head, hph, p)
  <2>1. x.at[1] = tail /\ x.at[2] = tph /\ ~x.done
    OBVIOUS
  <2>2. p[tail] = e
    OBVIOUS
  <2> QED  BY <2>1, <2>2, <1>2, <1>4, <1>9, <1>10 DEF Placed, O
<1>13. ASSUME NEW s \in Slot, Distance(s, head, qsize) < O + 1
       PROVE  Owner(s, v)
  <2>1. Distance(s, head, qsize) \in 0..(qsize - 1)
    BY <1>3, DistanceAhead
  <2>2. CASE Distance(s, head, qsize) < O
    <3>1. PICK k \in 1..n : w[k].pc # NoPC /\ w[k].at[1] = s
      BY <2>2, <1>1 DEF Mirrors, Owner, O
    <3>2. k \in DOMAIN v /\ v[k].pc # NoPC /\ v[k].at[1] = s
      BY <3>1, <1>1, <1>2
    <3> QED  BY <3>2 DEF Owner
  <2>3. CASE Distance(s, head, qsize) = O
    <3>1. s = tail
      BY <2>3, <1>10, <1>3, DistanceAhead
    <3>2. n + 1 \in DOMAIN v /\ v[n + 1].pc # NoPC /\ v[n + 1].at[1] = s
      BY <3>1, <1>1, <1>2
    <3> QED  BY <3>2 DEF Owner
  <2> QED  BY <2>1, <2>2, <2>3, <1>13, <1>4, <1>3
<1>14. \A k \in DOMAIN v : Placed(v[k], Age(v, k), head, hph, p)
  <2>1. \A k \in DOMAIN v : k \in 1..n \/ k = n + 1
    BY <1>1, <1>2
  <2> QED  BY <2>1, <1>11, <1>12
<1>15. Age(v, Len(v) + 1) = O + 1
  <2>1. (Len(v) + 1) - 1 = n + 1
    BY <1>1, <1>2
  <2> QED  BY <2>1, <1>7 DEF Age
<1> QED  BY <1>5, <1>13, <1>14, <1>15 DEF Mirrors

(* Rename2 of a branch: it keeps the tail.                                 *)
LEMMA MirrorsBranch ==
  ASSUME NEW w \in Seq(Inst), NEW q,
         NEW head \in Slot, NEW hph \in BOOLEAN,
         NEW tail \in Slot, NEW tph \in BOOLEAN,
         Mirrors(w, q, head, hph, tail, tph),
         NEW x \in Inst, x.at = <<tail, tph>>, x.pc = NoPC
  PROVE  Mirrors(Append(w, x), q, head, hph, tail, tph)
<1> DEFINE n == Len(w)
           v == Append(w, x)
           O == Occupancy(head, hph, tail, tph, qsize)
<1>1. n \in Nat /\ DOMAIN w = 1..n
  BY LenProperties
<1>2. /\ v \in Seq(Inst) /\ Len(v) = n + 1 /\ DOMAIN v = 1..(n + 1)
      /\ v[n + 1] = x /\ \A k \in 1..n : v[k] = w[k]
  BY AppendProperties, LenProperties
<1> HIDE DEF v, n
<1>3. qsize \in Nat \ {0} /\ Slot = 0..(qsize - 1)
  BY SVPAssumption DEF Slot
<1>4. RingOK(head, hph, tail, tph) /\ O \in 0..qsize
  BY <1>3, OccupancyRange DEF Mirrors
<1>5. \A k \in 1..n : v[k].pc = w[k].pc
  BY <1>2
<1>6. O = Cardinality(Elig(w, n)) /\ Elig(v, n) = Elig(w, n)
  <2>1. (n + 1) - 1 = n
    BY <1>1
  <2>2. Elig(v, n) = Elig(w, n)
    BY <1>1, <1>5, EligSame
  <2> QED  BY <2>1, <2>2 DEF Mirrors, Age, n
<1>7. Cardinality(Elig(v, n + 1)) = O
  <2>1. v[n + 1].pc = NoPC
    BY <1>2
  <2> QED  BY <2>1, <1>1, <1>6, EligStep
<1>8. \A k \in 1..n : Age(v, k) = Age(w, k)
  BY <1>1, <1>5, AgeSame
<1>9. Age(v, n + 1) = O
  <2>1. (n + 1) - 1 = n
    BY <1>1
  <2> QED  BY <2>1, <1>6 DEF Age
<1>10. O < qsize => Ahead(O, head, qsize) = tail
  BY <1>3, <1>4, EndsFromTail
<1>11. O = qsize => Ahead(O, head, qsize) = tail
  BY <1>3, <1>4, FullAhead
<1>12. ASSUME NEW k \in 1..n
       PROVE  Placed(v[k], Age(v, k), head, hph, q)
  BY <1>1, <1>2, <1>8 DEF Mirrors
<1>13. Placed(v[n + 1], Age(v, n + 1), head, hph, q)
  <2>1. x.at[1] = tail /\ x.at[2] = tph
    OBVIOUS
  <2>2. Ahead(O, head, qsize) = tail
    BY <1>3, <1>4, <1>10, <1>11
  <2> QED  BY <2>1, <2>2, <1>2, <1>4, <1>9 DEF Placed
<1>14. ASSUME NEW s \in Slot, Distance(s, head, qsize) < O
       PROVE  Owner(s, v)
  <2>1. PICK k \in 1..n : w[k].pc # NoPC /\ w[k].at[1] = s
    BY <1>14, <1>1 DEF Mirrors, Owner
  <2>2. k \in DOMAIN v /\ v[k].pc # NoPC /\ v[k].at[1] = s
    BY <2>1, <1>1, <1>2
  <2> QED  BY <2>2 DEF Owner
<1>15. \A k \in DOMAIN v : Placed(v[k], Age(v, k), head, hph, q)
  BY <1>1, <1>2, <1>12, <1>13
<1>16. Age(v, Len(v) + 1) = O
  <2>1. (Len(v) + 1) - 1 = n + 1
    BY <1>1, <1>2
  <2> QED  BY <2>1, <1>7 DEF Age
<1>17. Mirrors(v, q, head, hph, tail, tph)
  BY <1>4, <1>14, <1>15, <1>16 DEF Mirrors
<1> QED  BY <1>17 DEF v

(* A window whose instructions keep their PCs and places, and whose done   *)
(* ones have their values in the queue, is mirrored as before.             *)
LEMMA MirrorsUpdate ==
  ASSUME NEW w \in Seq(Inst), NEW v \in Seq(Inst), Len(v) = Len(w),
         NEW q, NEW p, NEW head, NEW hph, NEW tail, NEW tph,
         Mirrors(w, q, head, hph, tail, tph),
         \A k \in DOMAIN w :
           /\ v[k].pc = w[k].pc /\ v[k].at = w[k].at
           /\ w[k].pc # NoPC =>
                /\ p[w[k].at[1]].pc = w[k].pc
                /\ v[k].done => p[w[k].at[1]].val = v[k].value
  PROVE  Mirrors(v, p, head, hph, tail, tph)
<1> DEFINE n == Len(w)
<1>1. n \in Nat /\ DOMAIN w = 1..n /\ DOMAIN v = 1..n
  BY LenProperties
<1>2. \A k \in 1..n : v[k].pc = w[k].pc
  BY <1>1
<1> HIDE DEF n
<1>3. \A k \in 1..n : Age(v, k) = Age(w, k)
  BY <1>1, <1>2, AgeSame
<1>4. Age(v, Len(v) + 1) = Age(w, Len(w) + 1)
  <2>1. Elig(v, n) = Elig(w, n)
    BY <1>1, <1>2, EligSame
  <2>2. (n + 1) - 1 = n
    BY <1>1
  <2> QED  BY <2>1, <2>2 DEF Age, n
<1>5. ASSUME NEW k \in 1..n
      PROVE  Placed(v[k], Age(v, k), head, hph, p)
  <2>1. Placed(w[k], Age(w, k), head, hph, q)
    BY <1>1 DEF Mirrors
  <2> QED  BY <2>1, <1>1, <1>3 DEF Placed
<1>6. ASSUME NEW s \in Slot,
             Distance(s, head, qsize) < Occupancy(head, hph, tail, tph, qsize)
      PROVE  Owner(s, v)
  <2>1. PICK k \in 1..n : w[k].pc # NoPC /\ w[k].at[1] = s
    BY <1>6, <1>1 DEF Mirrors, Owner
  <2>2. k \in DOMAIN v /\ v[k].pc # NoPC /\ v[k].at[1] = s
    BY <2>1, <1>1
  <2> QED  BY <2>2 DEF Owner
<1>7. \A k \in DOMAIN v : Placed(v[k], Age(v, k), head, hph, p)
  BY <1>1, <1>5
<1> QED  BY <1>4, <1>6, <1>7 DEF Mirrors

(* The branch k and its elders are what is left of the window.             *)
Shortened(w, v, k) ==
  /\ w[k].pc = NoPC /\ Len(v) = k /\ v[k].pc = NoPC /\ v[k].at = w[k].at
  /\ \A j \in 1..(k - 1) : v[j] = w[j]

(* A mispredicted branch: the tail goes back to the one it kept.           *)
LEMMA MirrorsPrefix ==
  ASSUME NEW w \in Seq(Inst), NEW v \in Seq(Inst), NEW q,
         NEW head \in Slot, NEW hph \in BOOLEAN,
         NEW tail \in Slot, NEW tph \in BOOLEAN,
         Mirrors(w, q, head, hph, tail, tph),
         NEW k \in DOMAIN w, Shortened(w, v, k)
  PROVE  /\ Mirrors(v, q, head, hph, w[k].at[1], w[k].at[2])
         /\ Occupancy(head, hph, w[k].at[1], w[k].at[2], qsize)
              <= Occupancy(head, hph, tail, tph, qsize)
<1> USE DEF Shortened
<1>1. PICK m \in Nat : m + 1 = k
  <2>1. k - 1 \in Nat /\ (k - 1) + 1 = k
    BY InstFields
  <2> QED  BY <2>1
<1>2. m = k - 1 /\ k \in Nat
  BY <1>1
<1>3. k \in 1..Len(w) /\ DOMAIN w = 1..Len(w) /\ Len(w) \in Nat
  BY InstFields
<1>4. DOMAIN v = 1..k
  BY LenProperties
<1>5. \A j \in 1..k : v[j].pc = w[j].pc /\ v[j].at = w[j].at
  BY <1>1
<1>6. \A j \in 1..k : Age(v, j) = Age(w, j)
  <2>1. \A j \in 1..k : v[j].pc = w[j].pc
    BY <1>5
  <2> QED  BY <2>1, <1>2, AgeSame
<1>7. Cardinality(Elig(v, k)) = Age(w, k)
  <2>1. Cardinality(Elig(v, m + 1)) = Cardinality(Elig(v, m))
    BY <1>1, EligStep
  <2>2. Elig(v, m) = Elig(w, m)
    BY <1>1, <1>2, <1>5, EligSame
  <2> QED  BY <2>1, <2>2, <1>1, <1>2 DEF Age
<1>8. Placed(w[k], Age(w, k), head, hph, q)
  BY DEF Mirrors
<1>9. ASSUME NEW j \in 1..k
      PROVE  Placed(v[j], Age(v, j), head, hph, q)
  <2>1. Placed(w[j], Age(w, j), head, hph, q)
    BY <1>3 DEF Mirrors
  <2>2. CASE j = k
    BY <2>2, <1>6, <1>8 DEF Placed
  <2>3. CASE j # k
    <3>1. v[j] = w[j]
      BY <2>3, <1>1
    <3> QED  BY <3>1, <2>1, <1>6
  <2> QED  BY <2>2, <2>3
<1>10. \A i \in DOMAIN w :
         AgeFits(w, i, head, Occupancy(head, hph, tail, tph, qsize))
  BY Slots
<1>11. Age(w, k) \in Nat /\ Age(w, k) <= Occupancy(head, hph, tail, tph, qsize)
  BY <1>10, SVPAssumption DEF AgeFits
<1>12. ASSUME NEW s \in Slot, Distance(s, head, qsize) < Age(w, k)
       PROVE  Owner(s, v)
  <2>1. Distance(s, head, qsize) < Occupancy(head, hph, tail, tph, qsize)
    <3>0. qsize \in Nat \ {0} /\ Slot = 0..(qsize - 1)
      BY SVPAssumption DEF Slot
    <3>1. Distance(s, head, qsize) \in 0..(qsize - 1)
      BY <3>0, DistanceAhead
    <3>2. Occupancy(head, hph, tail, tph, qsize) \in 0..qsize
      BY <3>0, OccupancyRange DEF Mirrors
    <3> QED  BY <3>0, <3>1, <3>2, <1>11, <1>12
  <2>2. PICK j \in DOMAIN w : w[j].pc # NoPC /\ w[j].at[1] = s
    BY <2>1 DEF Mirrors, Owner
  <2>3. Distance(s, head, qsize) = Age(w, j) /\ Age(w, j) \in Nat
    BY <2>2, <1>10, SVPAssumption DEF AgeFits
  <2>4. j < k
    <3>1. SUFFICES ASSUME ~(j < k)
                   PROVE  FALSE
      OBVIOUS
    <3>2. PICK i \in Nat : i = j - 1
      BY <1>3
    <3>3. m \in 0..i
      BY <3>1, <3>2, <1>3, <1>2
    <3>4. Age(w, k) <= Age(w, j)
      BY <3>2, <3>3, <1>2, EligMonotone DEF Age
    <3> QED  BY <3>4, <2>3, <1>11, <1>12
  <2>5. j \in 1..(k - 1) /\ j \in DOMAIN v
    BY <2>4, <1>3, <1>4
  <2>6. v[j] = w[j]
    BY <2>5
  <2> QED  BY <2>2, <2>5, <2>6 DEF Owner
<1>13. Age(v, Len(v) + 1) = Age(w, k)
  <2>1. (Len(v) + 1) - 1 = k
    BY <1>2
  <2> QED  BY <2>1, <1>7 DEF Age
<1>14. \A j \in DOMAIN v : Placed(v[j], Age(v, j), head, hph, q)
  BY <1>4, <1>9
<1> QED  BY <1>8, <1>11, <1>12, <1>13, <1>14 DEF Mirrors, Placed

(* The head has left the window.                                           *)
Popped(w, v) == Len(v) = Len(w) - 1 /\ \A j \in 1..Len(v) : v[j] = w[j + 1]

(* Retirement of a branch.                                                 *)
LEMMA MirrorsTailBranch ==
  ASSUME NEW w \in Seq(Inst), NEW v \in Seq(Inst), NEW q,
         NEW head, NEW hph, NEW tail, NEW tph,
         Mirrors(w, q, head, hph, tail, tph),
         1 \in DOMAIN w, w[1].pc = NoPC, Popped(w, v)
  PROVE  Mirrors(v, q, head, hph, tail, tph)
<1>1. PICK n \in Nat : n = Len(v) /\ Len(w) = n + 1
  BY LenProperties DEF Popped
<1>2. DOMAIN v = 1..n /\ DOMAIN w = 1..(n + 1) /\ \A j \in 1..n : v[j] = w[j + 1]
  BY <1>1, LenProperties DEF Popped
<1>3. \A k \in 1..(n + 1) : Age(v, k) = Age(w, k + 1)
  BY <1>1, <1>2, AgeTail
<1>4. ASSUME NEW k \in 1..n
      PROVE  Placed(v[k], Age(v, k), head, hph, q)
  <2>1. k + 1 \in DOMAIN w
    BY <1>2
  <2>2. Placed(w[k + 1], Age(w, k + 1), head, hph, q)
    BY <2>1 DEF Mirrors
  <2> QED  BY <2>2, <1>2, <1>3
<1>5. ASSUME NEW s \in Slot,
             Distance(s, head, qsize) < Occupancy(head, hph, tail, tph, qsize)
      PROVE  Owner(s, v)
  <2>1. PICK k \in 1..(n + 1) : w[k].pc # NoPC /\ w[k].at[1] = s
    BY <1>5, <1>2 DEF Mirrors, Owner
  <2>2. k - 1 \in DOMAIN v /\ v[k - 1] = w[k]
    BY <2>1, <1>2
  <2> QED  BY <2>1, <2>2 DEF Owner
<1>6. \A k \in DOMAIN v : Placed(v[k], Age(v, k), head, hph, q)
  BY <1>2, <1>4
<1>7. Age(v, Len(v) + 1) = Age(w, Len(w) + 1)
  BY <1>1, <1>3
<1> QED  BY <1>5, <1>6, <1>7 DEF Mirrors

(* Retirement of an eligible instruction: the head of the queue leaves.    *)
LEMMA MirrorsTail ==
  ASSUME NEW w \in Seq(Inst), NEW v \in Seq(Inst), NEW q,
         NEW head \in Slot, NEW hph \in BOOLEAN,
         NEW tail \in Slot, NEW tph \in BOOLEAN,
         Mirrors(w, q, head, hph, tail, tph),
         1 \in DOMAIN w, w[1].pc # NoPC, Popped(w, v)
  PROVE  Mirrors(v, q, Next1(head, qsize), NextPhase(head, hph, qsize), tail, tph)
<1> DEFINE O == Occupancy(head, hph, tail, tph, qsize)
           head1 == Next1(head, qsize)
           hph1 == NextPhase(head, hph, qsize)
<1>1. PICK n \in Nat : n = Len(v) /\ Len(w) = n + 1
  BY LenProperties DEF Popped
<1>2. DOMAIN v = 1..n /\ DOMAIN w = 1..(n + 1) /\ \A j \in 1..n : v[j] = w[j + 1]
  BY <1>1, LenProperties DEF Popped
<1>3. \A k \in 1..(n + 1) : Age(v, k) = Age(w, k + 1) - 1 /\ Age(v, k) \in Nat
                            /\ Age(w, k + 1) \in Nat
  <2>1. \A j \in 1..n : v[j] = w[j + 1]
    BY <1>2
  <2>2. \A k \in 1..(n + 1) :
          /\ Age(v, k) = IF w[1].pc # NoPC THEN Age(w, k + 1) - 1 ELSE Age(w, k + 1)
          /\ Age(v, k) \in Nat /\ Age(w, k + 1) \in Nat
    BY <2>1, AgeTail
  <2> QED  BY <2>2
<1>4. qsize \in Nat \ {0} /\ Slot = 0..(qsize - 1)
  BY SVPAssumption DEF Slot
<1>5. RingOK(head, hph, tail, tph) /\ O \in 0..qsize
  BY <1>4, OccupancyRange DEF Mirrors
<1>6. \A k \in DOMAIN w : AgeFits(w, k, head, O)
  BY Slots
<1>7. w[1].at[1] = head /\ O > 0
  <2>1. Age(w, 1) = 0
    <3>1. Elig(w, 1 - 1) = {}
      BY DEF Elig
    <3> QED  BY <3>1, FS_EmptySet DEF Age
  <2>2. Placed(w[1], 0, head, hph, q)
    BY <2>1 DEF Mirrors
  <2>3. Ahead(0, head, qsize) = head
    BY <1>4 DEF Ahead
  <2> QED  BY <2>1, <2>2, <2>3, <1>6 DEF Placed, AgeFits
<1>8. /\ RingOK(head1, hph1, tail, tph)
      /\ Occupancy(head1, hph1, tail, tph, qsize) = O - 1
  BY <1>4, <1>5, <1>7, AdvanceHead
<1> HIDE DEF O, head1, hph1
<1>9. ASSUME NEW k \in 1..n
      PROVE  Placed(v[k], Age(v, k), head1, hph1, q)
  <2>0. k + 1 \in DOMAIN w /\ k \in 1..(n + 1)
    BY <1>2
  <2>1. PICK d \in Nat : d = Age(v, k) /\ Age(w, k + 1) = d + 1
    <3>1. Age(v, k) \in Nat /\ Age(w, k + 1) = Age(v, k) + 1
      BY <2>0, <1>3
    <3> QED  BY <3>1
  <2>2. Placed(w[k + 1], d + 1, head, hph, q) /\ AgeFits(w, k + 1, head, O)
    BY <2>0, <2>1, <1>6 DEF Mirrors
  <2>3. d \in 0..(qsize - 1)
    BY <2>1, <2>2, <1>4 DEF AgeFits
  <2>4. PICK x \in Inst : x = w[k + 1] /\ v[k] = x
    BY <2>0, <1>2, InstFields
  <2>5. x.at[1] \in Slot /\ x.at[2] \in BOOLEAN
    BY <2>0, <2>4, InstFields
  <2>6. /\ RingOK(head, hph, x.at[1], x.at[2])
        /\ Occupancy(head, hph, x.at[1], x.at[2], qsize) = d + 1
        /\ x.at[1] = Ahead(d + 1, head, qsize)
    BY <2>2, <2>4 DEF Placed
  <2>7. /\ RingOK(head1, hph1, x.at[1], x.at[2])
        /\ Occupancy(head1, hph1, x.at[1], x.at[2], qsize) = d
    <3>1. PICK t \in 0..(qsize - 1), tp \in BOOLEAN : t = x.at[1] /\ tp = x.at[2]
      BY <2>5, <1>4
    <3>2. RingOK(head, hph, t, tp) /\ Occupancy(head, hph, t, tp, qsize) = d + 1
      BY <3>1, <2>6
    <3>3. Occupancy(head, hph, t, tp, qsize) > 0 /\ head \in 0..(qsize - 1)
      BY <3>2, <1>4
    <3>4. /\ RingOK(head1, hph1, t, tp)
          /\ Occupancy(head1, hph1, t, tp, qsize)
               = Occupancy(head, hph, t, tp, qsize) - 1
      BY <3>2, <3>3, <1>4, AdvanceHead DEF head1, hph1
    <3> QED  BY <3>1, <3>2, <3>4
  <2>8. x.at[1] = Ahead(d, head1, qsize)
    BY <2>3, <2>6, <1>4, NextAhead DEF head1
  <2> QED  BY <2>1, <2>2, <2>4, <2>7, <2>8 DEF Placed
<1>10. ASSUME NEW s \in Slot, Distance(s, head1, qsize) < O - 1
       PROVE  Owner(s, v)
  <2>1. s # head
    <3>1. Distance(head, head1, qsize) = qsize - 1
      BY <1>4, AdvanceDistance DEF head1
    <3> QED  BY <3>1, <1>4, <1>5, <1>10
  <2>2. /\ Distance(s, head1, qsize) = Distance(s, head, qsize) - 1
        /\ Distance(s, head, qsize) \in 0..(qsize - 1)
    BY <2>1, <1>4, AdvanceDistance, DistanceAhead DEF head1
  <2>3. Distance(s, head, qsize) < O
    BY <2>2, <1>4, <1>5, <1>10
  <2>4. PICK k \in 1..(n + 1) : w[k].pc # NoPC /\ w[k].at[1] = s
    BY <2>3, <1>2 DEF Mirrors, Owner, O
  <2>5. k # 1
    BY <2>1, <2>4, <1>7
  <2>6. k - 1 \in DOMAIN v /\ v[k - 1] = w[k]
    BY <2>4, <2>5, <1>2
  <2> QED  BY <2>4, <2>6 DEF Owner
<1>11. \A k \in DOMAIN v : Placed(v[k], Age(v, k), head1, hph1, q)
  BY <1>2, <1>9
<1>12. Age(v, Len(v) + 1) = O - 1
  <2>1. O = Age(w, (n + 1) + 1)
    BY <1>1 DEF Mirrors, O
  <2> QED  BY <2>1, <1>1, <1>3
<1>13. Mirrors(v, q, head1, hph1, tail, tph)
  BY <1>8, <1>10, <1>11, <1>12 DEF Mirrors
<1> QED  BY <1>13 DEF head1, hph1

-----------------------------------------------------------------------------
(* Arithmetic modulo V.                                                    *)

(* A residue lies between 0 and the modulus.                               *)
LEMMA ModRange ==
  ASSUME NEW m \in Nat \ {0}, NEW a \in Int
  PROVE  a % m \in 0..(m - 1)
OBVIOUS

(* A number is a multiple of the modulus plus its residue.                 *)
LEMMA ModQuotient ==
  ASSUME NEW m \in Nat \ {0}, NEW a \in Int
  PROVE  \E d \in Int : a = m * d + (a % m)
<1>1. a = m * (a \div m) + (a % m) /\ a \div m \in Int
  OBVIOUS
<1> QED  BY <1>1

(* There is one way to write a number like that.                           *)
LEMMA ModUnique ==
  ASSUME NEW m \in Nat \ {0}, NEW d \in Int, NEW r \in 0..(m - 1)
  PROVE  (m * d + r) % m = r
<1>1. PICK a \in Int : a = m * d + r
  OBVIOUS
<1>2. PICK c \in Int : a = m * c + (a % m)
  BY ModQuotient
<1>3. a % m \in 0..(m - 1)
  BY ModRange
<1>4. PICK e \in Int : e = d - c
  OBVIOUS
<1>5. m * e = (a % m) - r
  BY <1>1, <1>2, <1>3, <1>4
<1>6. CASE e >= 1
  <2>1. m * e >= m
    BY <1>6, <1>4
  <2> QED  BY <2>1, <1>5, <1>3
<1>7. CASE e <= -1
  <2>1. m * e <= -m
    BY <1>7, <1>4
  <2> QED  BY <2>1, <1>5, <1>3
<1>8. CASE e = 0
  BY <1>8, <1>5, <1>3, <1>1
<1> QED  BY <1>4, <1>6, <1>7, <1>8

(* Residues can be taken before or after an addition.                      *)
LEMMA ModAdd ==
  ASSUME NEW m \in Nat \ {0}, NEW a \in Int, NEW b \in Int
  PROVE  ((a % m) + b) % m = (a + b) % m
<1>1. PICK d \in Int : a = m * d + (a % m)
  BY ModQuotient
<1>2. PICK r \in 0..(m - 1) : r = a % m
  BY ModRange
<1>3. PICK c \in Int : c = r + b
  OBVIOUS
<1>4. PICK e \in Int : c = m * e + (c % m)
  BY ModQuotient
<1>5. PICK s \in 0..(m - 1) : s = c % m
  BY ModRange
<1>6. PICK f \in Int : f = d + e
  OBVIOUS
<1>7. a + b = m * f + s
  <2>1. m * f = m * d + m * e
    BY <1>6
  <2>2. m * d \in Int /\ m * e \in Int /\ m * f \in Int
    OBVIOUS
  <2>3. a = m * d + r /\ c = m * e + s
    BY <1>1, <1>2, <1>4, <1>5
  <2> QED  BY <2>1, <2>2, <2>3, <1>3
<1>8. (m * f + s) % m = s
  BY ModUnique
<1> QED  BY <1>2, <1>3, <1>5, <1>7, <1>8

-----------------------------------------------------------------------------
(* The types.                                                              *)

(* What the assumptions on the constants say of the sets.                  *)
LEMMA Constants ==
  /\ qsize \in Nat \ {0} /\ Slot = 0..(qsize - 1) /\ 0 \in Slot
  /\ V \in Nat \ {0} /\ Value = 0..(V - 1) /\ 0 \in Value
  /\ confmax \in Nat /\ NoPC \notin PC
  /\ \A p \in PC : index[p] \in Index /\ tag[p] \in Nat
BY SVPAssumption DEF Slot, Value, Index

(* The entries of the table.                                               *)
LEMMA EntryFields ==
  ASSUME TypeOK, NEW i \in Index
  PROVE  /\ SVP_table[i] \in Entry
         /\ SVP_table[i].tag \in Nat /\ SVP_table[i].instance \in Int
         /\ SVP_table[i].last_value \in Value /\ SVP_table[i].stride \in Value
         /\ SVP_table[i].confidence \in 0..confmax
BY DEF TypeOK, Entry

(* A prediction is a value.                                                *)
LEMMA ExtrapolatedType ==
  ASSUME NEW e \in Entry
  PROVE  Extrapolated(e) \in Value
<1>1. /\ e.last_value \in Int /\ e.stride \in Int /\ e.instance \in Int
  BY Constants DEF Entry
<1>2. PICK a \in Int : a = e.last_value + e.stride * (e.instance + 1)
  BY <1>1
<1>3. a % V \in Value
  BY Constants, ModRange
<1> QED  BY <1>2, <1>3 DEF Extrapolated

(* The entries in use and the free ones make up the queue.                 *)
LEMMA FreeEntries ==
  ASSUME QueueInv
  PROVE  /\ VPQCount \in 0..qsize
         /\ get_VPQ_free_entries = qsize - VPQCount
<1>1. /\ VPQ_head \in 0..(qsize - 1) /\ VPQ_tail \in 0..(qsize - 1)
      /\ VPQ_head_phase \in BOOLEAN /\ VPQ_tail_phase \in BOOLEAN
      /\ qsize \in Nat \ {0}
      /\ RingOK(VPQ_head, VPQ_head_phase, VPQ_tail, VPQ_tail_phase)
  BY Constants DEF QueueInv, TypeOK, Mirrors
<1>2. VPQCount \in 0..qsize
  BY <1>1, OccupancyRange DEF VPQCount
<1> SUFFICES get_VPQ_free_entries = qsize - VPQCount
  BY <1>2
<1>3. CASE VPQ_head = VPQ_tail
  <2>1. CASE VPQ_head_phase = VPQ_tail_phase
    <3>1. get_VPQ_free_entries = qsize
      BY <1>1, <1>3, <2>1 DEF get_VPQ_free_entries
    <3> QED  BY <3>1, <1>1, <1>3, <2>1 DEF VPQCount, Occupancy
  <2>2. CASE VPQ_head_phase # VPQ_tail_phase
    <3>1. get_VPQ_free_entries = 0
      BY <1>3, <2>2 DEF get_VPQ_free_entries
    <3> QED  BY <3>1, <1>1, <1>3, <2>2 DEF VPQCount, Occupancy
  <2> QED  BY <2>1, <2>2
<1>4. CASE VPQ_head # VPQ_tail /\ VPQ_head_phase = VPQ_tail_phase
  <2>1. VPQ_tail > VPQ_head
    BY <1>1, <1>4 DEF RingOK
  <2>2. get_VPQ_free_entries = qsize - (VPQ_tail - VPQ_head)
    BY <2>1, <1>4 DEF get_VPQ_free_entries
  <2> QED  BY <2>2, <1>1, <1>4 DEF VPQCount, Occupancy
<1>5. CASE VPQ_head # VPQ_tail /\ VPQ_head_phase # VPQ_tail_phase
  <2>1. ~(VPQ_tail > VPQ_head)
    BY <1>1, <1>5 DEF RingOK
  <2>2. get_VPQ_free_entries = VPQ_head - VPQ_tail
    BY <2>1, <1>5 DEF get_VPQ_free_entries
  <2> QED  BY <2>2, <1>1, <1>5 DEF VPQCount, Occupancy
<1> QED  BY <1>2, <1>3, <1>4, <1>5

(* An empty queue mirrors an empty window.                                 *)
LEMMA MirrorsEmpty ==
  ASSUME NEW q
  PROVE  Mirrors(<<>>, q, 0, FALSE, 0, FALSE)
<1> DEFINE w == <<>>
<1>1. Len(w) = 0 /\ DOMAIN w = {}
  BY EmptySeq
<1> HIDE DEF w
<1>2. Age(w, Len(w) + 1) = 0
  <2>1. Elig(w, (Len(w) + 1) - 1) = {}
    BY <1>1 DEF Elig
  <2> QED  BY <2>1, FS_EmptySet DEF Age
<1>3. RingOK(0, FALSE, 0, FALSE) /\ Occupancy(0, FALSE, 0, FALSE, qsize) = 0
  BY DEF RingOK, Occupancy
<1>4. \A s \in Slot : Distance(s, 0, qsize) \in Nat
  BY Constants DEF Distance
<1>5. \A s \in Slot : ~(Distance(s, 0, qsize) < Occupancy(0, FALSE, 0, FALSE, qsize))
  BY <1>4 DEF Occupancy
<1>6. Mirrors(w, q, 0, FALSE, 0, FALSE)
  BY <1>1, <1>2, <1>3, <1>5 DEF Mirrors
<1> QED  BY <1>6 DEF w

(* The predictor starts empty.                                             *)
LEMMA InitQueue ==
  ASSUME Init
  PROVE  QueueInv
<1>1. SVP_table \in [Index -> Entry]
  BY Constants DEF Init, Entry
<1>2. VPQ \in [Slot -> [pc : PC \cup {NoPC}, val : Value]]
  BY Constants DEF Init
<1>3. window \in Seq(Inst)
  BY EmptySeq DEF Init
<1>4. TypeOK
  BY <1>1, <1>2, <1>3, Constants DEF Init, TypeOK
<1> QED  BY <1>4, MirrorsEmpty DEF QueueInv, Init

-----------------------------------------------------------------------------
(* Every step keeps the queue invariant.                                   *)

(* What an eligible instruction is predicted when it is renamed, and the   *)
(* window element and VPQ entry it gets.                                   *)
Prediction(pc) == IF search(pc) THEN Extrapolated(SVP_table[index[pc]]) ELSE 0
NewInst(pc) ==
  [pc |-> pc, at |-> checkpoint, predicted |-> get_confidence(pc) = confmax,
   pred_value |-> Prediction(pc), done |-> FALSE, value |-> 0]
NewBranch ==
  [pc |-> NoPC, at |-> checkpoint, predicted |-> FALSE, pred_value |-> 0,
   done |-> FALSE, value |-> 0]

(* They have their types.                                                  *)
LEMMA NewInstType ==
  ASSUME TypeOK, NEW pc \in PC
  PROVE  /\ Prediction(pc) \in Value
         /\ NewInst(pc) \in Inst
         /\ NewBranch \in Inst
<1>1. Prediction(pc) \in Value
  BY Constants, EntryFields, ExtrapolatedType DEF Prediction
<1>2. checkpoint \in Slot \X BOOLEAN
  BY DEF checkpoint, TypeOK
<1>3. (get_confidence(pc) = confmax) \in BOOLEAN
  OBVIOUS
<1>4. NewInst(pc) \in Inst
  BY <1>1, <1>2, <1>3, Constants DEF NewInst, Inst
<1>5. NewBranch \in Inst
  BY <1>2, Constants DEF NewBranch, Inst
<1> QED  BY <1>1, <1>4, <1>5

(* The types of the window and the queue.                                  *)
StateTypes ==
  /\ window \in Seq(Inst)
  /\ VPQ \in [Slot -> [pc : PC \cup {NoPC}, val : Value]]
  /\ VPQ_head \in Slot /\ VPQ_tail \in Slot
  /\ VPQ_head_phase \in BOOLEAN /\ VPQ_tail_phase \in BOOLEAN

(* The k-th instruction is done, and nothing else has changed.             *)
DoneAt(w, v, k) ==
  /\ v \in Seq(Inst) /\ Len(v) = Len(w)
  /\ v[k] = [w[k] EXCEPT !.done = TRUE]
  /\ v[k].pc = w[k].pc /\ v[k].at = w[k].at /\ v[k].done
  /\ \A j \in DOMAIN w : j # k => v[j] = w[j]

(* Setting done is such a change.                                          *)
LEMMA DoneAtHolds ==
  ASSUME NEW w \in Seq(Inst), NEW k \in DOMAIN w,
         NEW v, v = [w EXCEPT ![k].done = TRUE]
  PROVE  DoneAt(w, v, k)
<1>1. w[k] \in Inst /\ k \in 1..Len(w) /\ DOMAIN w = 1..Len(w)
  BY InstFields
<1>2. PICK x \in Inst : x = [w[k] EXCEPT !.done = TRUE]
  BY <1>1 DEF Inst
<1>3. x.pc = w[k].pc /\ x.at = w[k].at /\ x.done = TRUE
  BY <1>1, <1>2 DEF Inst
<1>4. v = [w EXCEPT ![k] = x]
  BY <1>2
<1>5. /\ [w EXCEPT ![k] = x] \in Seq(Inst) /\ Len([w EXCEPT ![k] = x]) = Len(w)
      /\ \A j \in 1..Len(w) :
           [w EXCEPT ![k] = x][j] = IF j = k THEN x ELSE w[j]
  BY <1>1, ExceptSeq
<1> QED  BY <1>1, <1>2, <1>3, <1>4, <1>5 DEF DoneAt

(* Rename2 of an eligible instruction.                                     *)
LEMMA RenameEligibleQueue ==
  ASSUME QueueInv, NEW pc \in PC, RenameEligible(pc)
  PROVE  QueueInv'
<1>0. TypeOK
  BY DEF QueueInv
<1>1. /\ window' = Append(window, NewInst(pc))
      /\ VPQ' = [VPQ EXCEPT ![VPQ_tail] = [pc |-> pc, val |-> Prediction(pc)]]
      /\ SVP_table' = IF search(pc)
                        THEN [SVP_table EXCEPT ![index[pc]].instance = @ + 1]
                        ELSE SVP_table
      /\ VPQ_tail' = Next1(VPQ_tail, qsize)
      /\ VPQ_tail_phase' = NextPhase(VPQ_tail, VPQ_tail_phase, qsize)
      /\ VPQ_head' = VPQ_head /\ VPQ_head_phase' = VPQ_head_phase
      /\ upcoming' = upcoming
  BY DEF RenameEligible, NewInst, Prediction
<1>2. Prediction(pc) \in Value /\ NewInst(pc) \in Inst
  BY <1>0, NewInstType
<1>3. Mirrors(window, VPQ, VPQ_head, VPQ_head_phase, VPQ_tail, VPQ_tail_phase)
  BY DEF QueueInv
<1>4. Occupancy(VPQ_head, VPQ_head_phase, VPQ_tail, VPQ_tail_phase, qsize) < qsize
  BY FreeEntries, Constants DEF RenameEligible, VPQCount
<1>5. TypeOK'
  <2>1. SVP_table' \in [Index -> Entry]
    <3>1. index[pc] \in Index /\ SVP_table[index[pc]].instance + 1 \in Int
      BY <1>0, Constants, EntryFields
    <3> QED  BY <3>1, <1>0, <1>1 DEF TypeOK, Entry
  <2>2. VPQ' \in [Slot -> [pc : PC \cup {NoPC}, val : Value]]
    BY <1>0, <1>1, <1>2 DEF TypeOK
  <2>3. VPQ_tail' \in Slot /\ VPQ_tail_phase' \in BOOLEAN
    BY <1>0, <1>1, Constants, AdvanceType DEF TypeOK
  <2>4. window' \in Seq(Inst)
    BY <1>0, <1>1, <1>2, AppendProperties DEF TypeOK
  <2> QED  BY <2>1, <2>2, <2>3, <2>4, <1>0, <1>1 DEF TypeOK
<1>6. PICK x \in Inst : x = NewInst(pc)
  BY <1>2
<1>7. x.at = <<VPQ_tail, VPQ_tail_phase>> /\ x.pc = pc /\ x.done = FALSE
  BY <1>6 DEF NewInst, checkpoint
<1>8. PICK e \in [pc : PC \cup {NoPC}, val : Value] :
        e = [pc |-> pc, val |-> Prediction(pc)]
  BY <1>2
<1>9. x.pc # NoPC /\ e.pc = x.pc
  BY <1>7, <1>8, Constants
<1>10. Mirrors(window', VPQ', VPQ_head, VPQ_head_phase, Next1(VPQ_tail, qsize),
               NextPhase(VPQ_tail, VPQ_tail_phase, qsize))
  <2>1. StateTypes
    BY <1>0 DEF TypeOK, StateTypes
  <2>2. Enters(window, VPQ, window', VPQ', x, e, VPQ_tail, VPQ_tail_phase)
    BY <1>1, <1>6, <1>7, <1>8, <1>9 DEF Enters
  <2> QED  BY <2>1, <2>2, <1>3, <1>4, MirrorsAppend DEF StateTypes
<1> QED  BY <1>1, <1>5, <1>10 DEF QueueInv

(* Rename2 of a branch.                                                    *)
LEMMA RenameBranchQueue ==
  ASSUME QueueInv, RenameBranch
  PROVE  QueueInv'
<1>0. TypeOK
  BY DEF QueueInv
<1>1. /\ window' = Append(window, NewBranch)
      /\ UNCHANGED <<SVP_table, vpqVars, upcoming>>
  BY DEF RenameBranch, NewBranch
<1>2. PICK x \in Inst : x = NewBranch
  <2>1. checkpoint \in Slot \X BOOLEAN
    BY <1>0 DEF checkpoint, TypeOK
  <2>2. NewBranch \in Inst
    BY <2>1, Constants DEF NewBranch, Inst
  <2> QED  BY <2>2
<1>3. x.at = <<VPQ_tail, VPQ_tail_phase>> /\ x.pc = NoPC
  BY <1>2 DEF NewBranch, checkpoint
<1>4. Mirrors(window, VPQ, VPQ_head, VPQ_head_phase, VPQ_tail, VPQ_tail_phase)
  BY DEF QueueInv
<1>5. Mirrors(Append(window, x), VPQ, VPQ_head, VPQ_head_phase, VPQ_tail,
              VPQ_tail_phase)
  BY <1>0, <1>3, <1>4, MirrorsBranch DEF TypeOK
<1>6. window' \in Seq(Inst)
  BY <1>0, <1>1, <1>2, AppendProperties DEF TypeOK
<1> QED  BY <1>0, <1>1, <1>2, <1>5, <1>6 DEF QueueInv, TypeOK, vpqVars

(* Writeback and load replay.                                              *)
LEMMA CompleteQueue ==
  ASSUME QueueInv, NEW k \in 1..MaxWindow, NEW v \in Value, Complete(k, v)
  PROVE  QueueInv'
<1>0. TypeOK /\ window \in Seq(Inst)
  BY DEF QueueInv, TypeOK
<1>1. /\ k \in DOMAIN window /\ window[k].pc # NoPC
      /\ window' = [window EXCEPT ![k].done = TRUE, ![k].value = v]
      /\ VPQ' = [VPQ EXCEPT ![window[k].at[1]].val = v]
      /\ UNCHANGED <<SVP_table, VPQ_head, VPQ_tail, VPQ_head_phase,
                     VPQ_tail_phase, upcoming>>
  BY DEF Complete
<1>2. PICK x \in Inst : x = [window[k] EXCEPT !.done = TRUE, !.value = v]
  <2>1. window[k] \in Inst
    BY <1>0, <1>1, InstFields
  <2> QED  BY <2>1 DEF Inst
<1>3. x.pc = window[k].pc /\ x.at = window[k].at /\ x.done = TRUE /\ x.value = v
  <2>1. window[k] \in Inst
    BY <1>0, <1>1, InstFields
  <2> QED  BY <2>1, <1>2 DEF Inst
<1>4. window' = [window EXCEPT ![k] = x]
  BY <1>1, <1>2
<1>5. /\ window' \in Seq(Inst) /\ Len(window') = Len(window)
      /\ window'[k] = x
      /\ \A j \in DOMAIN window : j # k => window'[j] = window[j]
  <2>1. k \in 1..Len(window) /\ DOMAIN window = 1..Len(window)
    BY <1>0, <1>1, LenProperties
  <2> QED  BY <2>1, <1>0, <1>4, ExceptSeq
<1>6. window[k].at[1] \in Slot
  BY <1>0, <1>1, InstFields
<1>7. VPQ' \in [Slot -> [pc : PC \cup {NoPC}, val : Value]]
  BY <1>0, <1>1, <1>6 DEF TypeOK
<1>8. Mirrors(window, VPQ, VPQ_head, VPQ_head_phase, VPQ_tail, VPQ_tail_phase)
  BY DEF QueueInv
<1>9. ASSUME NEW j \in DOMAIN window
      PROVE  /\ window'[j].pc = window[j].pc /\ window'[j].at = window[j].at
             /\ window[j].pc # NoPC =>
                  /\ VPQ'[window[j].at[1]].pc = window[j].pc
                  /\ window'[j].done => VPQ'[window[j].at[1]].val = window'[j].value
  <2>1. Placed(window[j], Age(window, j), VPQ_head, VPQ_head_phase, VPQ)
    BY <1>8 DEF Mirrors
  <2>2. window[j].at[1] \in Slot
    BY <1>0, InstFields
  <2>3. CASE j = k
    <3>1. VPQ'[window[j].at[1]] = [VPQ[window[j].at[1]] EXCEPT !.val = v]
      BY <1>0, <1>1, <2>2, <2>3 DEF TypeOK
    <3>2. VPQ[window[j].at[1]] \in [pc : PC \cup {NoPC}, val : Value]
      BY <1>0, <2>2 DEF TypeOK
    <3> QED  BY <3>1, <3>2, <2>1, <2>3, <1>3, <1>5 DEF Placed
  <2>4. CASE j # k
    <3>1. window'[j] = window[j]
      BY <1>5, <2>4
    <3>2. window[j].pc # NoPC => window[j].at[1] # window[k].at[1]
      <4>1. Distinct(window)
        BY <1>0, <1>8, SlotsDiffer DEF TypeOK
      <4> QED  BY <4>1, <1>1, <2>4 DEF Distinct
    <3>3. window[j].pc # NoPC => VPQ'[window[j].at[1]] = VPQ[window[j].at[1]]
      BY <3>2, <2>2, <1>0, <1>1 DEF TypeOK
    <3> QED  BY <3>1, <3>3, <2>1 DEF Placed
  <2> QED  BY <2>3, <2>4
<1>10. Mirrors(window', VPQ', VPQ_head, VPQ_head_phase, VPQ_tail, VPQ_tail_phase)
  BY <1>0, <1>5, <1>8, <1>9, MirrorsUpdate
<1> QED  BY <1>0, <1>1, <1>5, <1>7, <1>10 DEF QueueInv, TypeOK

(* A correctly predicted branch.                                           *)
LEMMA ResolveCorrectQueue ==
  ASSUME QueueInv, NEW k \in 1..MaxWindow, ResolveCorrect(k)
  PROVE  QueueInv'
<1>0. TypeOK /\ window \in Seq(Inst)
  BY DEF QueueInv, TypeOK
<1>1. /\ k \in DOMAIN window /\ window[k].pc = NoPC
      /\ window' = [window EXCEPT ![k].done = TRUE]
      /\ UNCHANGED <<SVP_table, VPQ, VPQ_head, VPQ_tail, VPQ_head_phase,
                     VPQ_tail_phase, upcoming>>
  BY DEF ResolveCorrect, OpenBranch, vpqVars
<1>2. DoneAt(window, window', k)
  BY <1>0, <1>1, DoneAtHolds
<1>3. Mirrors(window, VPQ, VPQ_head, VPQ_head_phase, VPQ_tail, VPQ_tail_phase)
  BY DEF QueueInv
<1>4. ASSUME NEW j \in DOMAIN window
      PROVE  /\ window'[j].pc = window[j].pc /\ window'[j].at = window[j].at
             /\ window[j].pc # NoPC =>
                  /\ VPQ[window[j].at[1]].pc = window[j].pc
                  /\ window'[j].done => VPQ[window[j].at[1]].val = window'[j].value
  <2>1. Placed(window[j], Age(window, j), VPQ_head, VPQ_head_phase, VPQ)
    BY <1>3 DEF Mirrors
  <2>2. CASE j = k
    BY <2>2, <1>1, <1>2 DEF DoneAt
  <2>3. CASE j # k
    BY <2>1, <2>3, <1>2 DEF Placed, DoneAt
  <2> QED  BY <2>2, <2>3
<1>5. Mirrors(window', VPQ, VPQ_head, VPQ_head_phase, VPQ_tail, VPQ_tail_phase)
  BY <1>0, <1>2, <1>3, <1>4, MirrorsUpdate DEF DoneAt
<1> QED  BY <1>0, <1>1, <1>2, <1>5 DEF QueueInv, TypeOK, DoneAt

(* The window after a misprediction: the branch and its elders.            *)
LEMMA MispredictWindow ==
  ASSUME QueueInv, NEW k \in 1..MaxWindow, Mispredict(k)
  PROVE  /\ k \in DOMAIN window /\ window[k].pc = NoPC /\ ~window[k].done
         /\ window' \in Seq(Inst) /\ Len(window') = k
         /\ window'[k] = [window[k] EXCEPT !.done = TRUE]
         /\ window'[k].pc = NoPC /\ window'[k].at = window[k].at
         /\ \A j \in 1..(k - 1) : window'[j] = window[j]
         /\ VPQ_tail' = window[k].at[1] /\ VPQ_tail_phase' = window[k].at[2]
         /\ VPQ' = VPQ /\ VPQ_head' = VPQ_head /\ VPQ_head_phase' = VPQ_head_phase
<1>0. window \in Seq(Inst)
  BY DEF QueueInv, TypeOK
<1>1. PICK y : y = [window EXCEPT ![k].done = TRUE]
  OBVIOUS
<1>2. /\ k \in DOMAIN window /\ window[k].pc = NoPC /\ ~window[k].done
      /\ window' = SubSeq(y, 1, k)
      /\ VPQ_tail' = window[k].at[1] /\ VPQ_tail_phase' = window[k].at[2]
      /\ VPQ' = VPQ /\ VPQ_head' = VPQ_head /\ VPQ_head_phase' = VPQ_head_phase
  BY <1>1 DEF Mispredict, OpenBranch, RestoredTailPhase
<1>3. DoneAt(window, y, k)
  BY <1>0, <1>1, <1>2, DoneAtHolds
<1>4. k \in 1..Len(window) /\ Len(window) \in Nat /\ DOMAIN window = 1..Len(window)
  BY <1>0, <1>2, InstFields
<1>5. \A j \in 1..k : y[j] \in Inst
  BY <1>3, <1>4, ElementOfSeq DEF DoneAt
<1>6. /\ window' \in Seq(Inst) /\ Len(window') = k
      /\ \A j \in 1..k : window'[j] = y[j]
  BY <1>2, <1>4, <1>5, SubSeqProperties
<1>7. k \in 1..k /\ \A j \in 1..(k - 1) : j \in 1..k /\ j \in DOMAIN window /\ j # k
  BY <1>4
<1> QED  BY <1>2, <1>3, <1>6, <1>7 DEF DoneAt

(* Rolling back takes instances off the entries.                           *)
LEMMA RollbackTable ==
  ASSUME TypeOK, NEW k \in 1..MaxWindow, Mispredict(k)
  PROVE  SVP_table' \in [Index -> Entry]
<1> DEFINE gone(i) == {s \in RolledBack(window[k].at) :
                         index[VPQ[s].pc] = i /\ search(VPQ[s].pc)}
<1>1. SVP_table' = [i \in Index |->
        [SVP_table[i] EXCEPT !.instance = @ - Cardinality(gone(i))]]
  BY DEF Mispredict
<1>2. ASSUME NEW i \in Index
      PROVE  Cardinality(gone(i)) \in Nat
  <2>1. IsFiniteSet(Slot) /\ gone(i) \in SUBSET Slot
    BY Constants, FS_Interval DEF RolledBack
  <2> QED  BY <2>1, FS_Subset, FS_CardinalityType
<1> HIDE DEF gone
<1>3. ASSUME NEW i \in Index
      PROVE  [SVP_table[i] EXCEPT !.instance = @ - Cardinality(gone(i))] \in Entry
  <2>1. SVP_table[i] \in Entry /\ SVP_table[i].instance \in Int
    BY EntryFields
  <2>2. SVP_table[i].instance - Cardinality(gone(i)) \in Int
    BY <2>1, <1>2
  <2> QED  BY <2>1, <2>2 DEF Entry
<1> QED  BY <1>1, <1>3

(* A mispredicted branch.                                                  *)
LEMMA MispredictQueue ==
  ASSUME QueueInv, NEW k \in 1..MaxWindow, Mispredict(k)
  PROVE  QueueInv'
<1>0. TypeOK /\ StateTypes
  BY DEF QueueInv, TypeOK, StateTypes
<1>1. SVP_table' \in [Index -> Entry]
  BY <1>0, RollbackTable
<1>2. /\ k \in DOMAIN window /\ window[k].pc = NoPC
      /\ window' \in Seq(Inst) /\ Len(window') = k
      /\ window'[k].pc = NoPC /\ window'[k].at = window[k].at
      /\ \A j \in 1..(k - 1) : window'[j] = window[j]
      /\ VPQ_tail' = window[k].at[1] /\ VPQ_tail_phase' = window[k].at[2]
      /\ VPQ' = VPQ /\ VPQ_head' = VPQ_head /\ VPQ_head_phase' = VPQ_head_phase
  BY MispredictWindow
<1>3. window[k].at[1] \in Slot /\ window[k].at[2] \in BOOLEAN
  BY <1>0, <1>2, InstFields DEF StateTypes
<1>4. Mirrors(window, VPQ, VPQ_head, VPQ_head_phase, VPQ_tail, VPQ_tail_phase)
  BY DEF QueueInv
<1>5. Shortened(window, window', k)
  BY <1>2 DEF Shortened
<1>6. Mirrors(window', VPQ, VPQ_head, VPQ_head_phase, window[k].at[1], window[k].at[2])
  BY <1>0, <1>2, <1>4, <1>5, MirrorsPrefix DEF StateTypes
<1>7. upcoming' = upcoming
  BY DEF Mispredict
<1> QED  BY <1>0, <1>1, <1>2, <1>3, <1>6, <1>7 DEF QueueInv, TypeOK

-----------------------------------------------------------------------------
(* Retirement.                                                             *)

(* The oldest instruction, if it is eligible, has the head of the queue.   *)
LEMMA HeadPlace ==
  ASSUME QueueInv, window # <<>>
  PROVE  /\ Len(window) \in Nat /\ DOMAIN window = 1..Len(window)
         /\ 1 \in DOMAIN window /\ Head(window) = window[1]
         /\ Tail(window) \in Seq(Inst) /\ Len(Tail(window)) = Len(window) - 1
         /\ \A j \in 1..Len(Tail(window)) : Tail(window)[j] = window[j + 1]
         /\ window[1].pc # NoPC =>
              /\ window[1].at[1] = VPQ_head /\ VPQCount > 0
              /\ VPQ[VPQ_head].pc = window[1].pc /\ window[1].pc \in PC
              /\ window[1].done => VPQ[VPQ_head].val = window[1].value
<1>0. StateTypes /\ window \in Seq(Inst)
  BY DEF QueueInv, TypeOK, StateTypes
<1>1. /\ Len(window) \in Nat /\ DOMAIN window = 1..Len(window)
      /\ 1 \in DOMAIN window
  BY <1>0, LenProperties, EmptySeq
<1>2. /\ Tail(window) \in Seq(Inst) /\ Len(Tail(window)) = Len(window) - 1
      /\ \A j \in 1..Len(Tail(window)) : Tail(window)[j] = window[j + 1]
  BY <1>0, HeadTailProperties
<1>3. Head(window) = window[1]
  OBVIOUS
<1>4. Mirrors(window, VPQ, VPQ_head, VPQ_head_phase, VPQ_tail, VPQ_tail_phase)
  BY DEF QueueInv
<1>5. Age(window, 1) = 0
  <2>1. Elig(window, 1 - 1) = {}
    BY DEF Elig
  <2> QED  BY <2>1, FS_EmptySet DEF Age
<1>6. Placed(window[1], 0, VPQ_head, VPQ_head_phase, VPQ)
  BY <1>1, <1>4, <1>5 DEF Mirrors
<1>7. \A k \in DOMAIN window : AgeFits(window, k, VPQ_head, VPQCount)
  BY <1>0, <1>4, Slots DEF StateTypes, VPQCount
<1>8. Ahead(0, VPQ_head, qsize) = VPQ_head
  BY <1>0, Constants DEF Ahead, StateTypes
<1>9. window[1].pc # NoPC => VPQCount > 0
  BY <1>1, <1>5, <1>7 DEF AgeFits
<1>10. window[1].pc \in PC \cup {NoPC}
  BY <1>0, <1>1, InstFields
<1> QED  BY <1>1, <1>2, <1>3, <1>6, <1>8, <1>9, <1>10 DEF Placed

(* The instances in flight are a number.                                   *)
LEMMA InflightType ==
  ASSUME NEW pc
  PROVE  InitialInstance(pc) \in Nat
<1>1. IsFiniteSet(Slot)
  BY Constants, FS_Interval
<1>2. {s \in Slot : InUse(s) /\ VPQ[s].pc = pc} \in SUBSET Slot
  OBVIOUS
<1>3. get_inflight_instances(pc) \in Nat
  BY <1>1, <1>2, FS_Subset, FS_CardinalityType DEF get_inflight_instances
<1> QED  BY <1>3 DEF InitialInstance

(* Training gives an entry of the table.                                   *)
LEMMA TrainedEntry ==
  ASSUME NEW e \in Entry, NEW val \in Value, NEW pc \in PC
  PROVE  /\ update_SVP(e, val) \in Entry
         /\ install_SVP(pc, val) \in Entry
         /\ update_SVP(e, val).tag = e.tag
         /\ update_SVP(e, val).instance = e.instance - 1
         /\ update_SVP(e, val).last_value = val
         /\ update_SVP(e, val).stride = (val - e.last_value) % V
         /\ update_SVP(e, val).confidence =
              IF (val - e.last_value) % V # e.stride THEN 0 ELSE Saturate(e.confidence)
<1>1. PICK d \in Int : d = val - e.last_value
  BY Constants DEF Entry
<1>2. d % V \in Value
  BY Constants, ModRange
<1>3. Saturate(e.confidence) \in 0..confmax /\ 0 \in 0..confmax
  BY Constants DEF Saturate, Entry
<1>4. e.instance - 1 \in Int
  BY DEF Entry
<1>5. PICK c \in 0..confmax :
        c = IF d % V # e.stride THEN 0 ELSE Saturate(e.confidence)
  BY <1>3
<1>6. update_SVP(e, val) =
        [e EXCEPT !.confidence = c, !.stride = d % V, !.last_value = val,
                  !.instance = @ - 1]
  BY <1>1, <1>5 DEF update_SVP
<1>7. install_SVP(pc, val) \in Entry
  BY Constants, InflightType, <1>3 DEF install_SVP, Entry
<1>8. update_SVP(e, val) \in Entry
  BY <1>2, <1>4, <1>6 DEF Entry
<1> QED  BY <1>1, <1>5, <1>6, <1>7, <1>8 DEF Entry

(* So the table stays a table when the head retires.                       *)
LEMMA RetiredTable ==
  ASSUME QueueInv, window # <<>>, window[1].pc # NoPC
  PROVE  retired_table \in [Index -> Entry]
<1>1. VPQ[VPQ_head].pc \in PC /\ VPQ[VPQ_head].val \in Value
  BY HeadPlace DEF QueueInv, TypeOK
<1>2. PICK pc \in PC, val \in Value : pc = VPQ[VPQ_head].pc /\ val = VPQ[VPQ_head].val
  BY <1>1
<1>3. index[pc] \in Index /\ SVP_table[index[pc]] \in Entry
  BY Constants, EntryFields DEF QueueInv
<1>4. PICK e \in Entry :
        e = IF search(pc) THEN update_SVP(SVP_table[index[pc]], val)
                          ELSE install_SVP(pc, val)
  BY <1>3, TrainedEntry
<1>5. retired_table = [SVP_table EXCEPT ![index[pc]] = e]
  BY <1>2, <1>4 DEF retired_table
<1> QED  BY <1>3, <1>5 DEF QueueInv, TypeOK

(* A squash empties the queue and the window.                              *)
LEMMA RollbackQueue ==
  ASSUME TypeOK, NEW table \in [Index -> Entry], full_rollback(table),
         upcoming' \in [Regular -> Value]
  PROVE  QueueInv'
<1>1. /\ SVP_table' = [i \in Index |-> [table[i] EXCEPT !.instance = 0]]
      /\ VPQ_head' = 0 /\ VPQ_tail' = 0
      /\ VPQ_head_phase' = FALSE /\ VPQ_tail_phase' = FALSE
      /\ window' = <<>> /\ VPQ' = VPQ
  BY DEF full_rollback
<1>2. SVP_table' \in [Index -> Entry]
  <2>1. \A i \in Index : [table[i] EXCEPT !.instance = 0] \in Entry
    BY DEF Entry
  <2> QED  BY <2>1, <1>1
<1>3. window' \in Seq(Inst)
  BY <1>1, EmptySeq
<1>4. TypeOK'
  BY <1>1, <1>2, <1>3, Constants DEF TypeOK
<1>5. Mirrors(window', VPQ', VPQ_head', VPQ_head_phase', VPQ_tail', VPQ_tail_phase')
  BY <1>1, MirrorsEmpty
<1> QED  BY <1>4, <1>5 DEF QueueInv

(* The next value of a regular PC is a value.                              *)
LEMMA UpcomingType ==
  ASSUME TypeOK, NEW pc \in Regular
  PROVE  (upcoming[pc] + stride[pc]) % V \in Value
<1>1. PICK a \in Int : a = upcoming[pc] + stride[pc]
  BY SVPAssumption, Constants DEF TypeOK
<1> QED  BY <1>1, Constants, ModRange

(* Retirement of an eligible instruction.                                  *)
LEMMA RetireEligibleQueue ==
  ASSUME QueueInv, NEW v \in Value, RetireEligible(v)
  PROVE  QueueInv'
<1>0. TypeOK /\ StateTypes
  BY DEF QueueInv, TypeOK, StateTypes
<1>1. window # <<>> /\ window[1].pc # NoPC
  BY HeadPlace DEF RetireEligible, HeadDone
<1>2. PICK x : x = Head(window)
  OBVIOUS
<1>3. upcoming' \in [Regular -> Value]
  <2>1. upcoming' = IF x.pc \in Regular
                     THEN [upcoming EXCEPT ![x.pc] = (@ + stride[x.pc]) % V]
                     ELSE upcoming
    BY <1>2 DEF RetireEligible
  <2>2. upcoming \in [Regular -> Value]
    BY <1>0 DEF TypeOK
  <2>3. CASE x.pc \in Regular
    <3>1. (upcoming[x.pc] + stride[x.pc]) % V \in Value
      BY <1>0, <2>3, UpcomingType
    <3> QED  BY <2>1, <2>2, <2>3, <3>1
  <2> QED  BY <2>1, <2>2, <2>3
<1>4. retired_table \in [Index -> Entry]
  BY <1>1, RetiredTable
<1>5. CASE full_rollback(retired_table)
  BY <1>0, <1>3, <1>4, <1>5, RollbackQueue
<1>6. CASE /\ SVP_table' = retired_table
           /\ window' = Tail(window)
           /\ VPQ_head' = Next1(VPQ_head, qsize)
           /\ VPQ_head_phase' = NextPhase(VPQ_head, VPQ_head_phase, qsize)
           /\ UNCHANGED <<VPQ, VPQ_tail, VPQ_tail_phase>>
  <2>1. VPQ_head' \in Slot /\ VPQ_head_phase' \in BOOLEAN
    BY <1>0, <1>6, Constants, AdvanceType DEF StateTypes
  <2>2. window' \in Seq(Inst)
    BY <1>1, <1>6, HeadPlace
  <2>3. TypeOK'
    BY <1>0, <1>3, <1>4, <1>6, <2>1, <2>2 DEF TypeOK
  <2>4. Popped(window, window')
    BY <1>1, <1>6, HeadPlace DEF Popped
  <2>5. Mirrors(window, VPQ, VPQ_head, VPQ_head_phase, VPQ_tail, VPQ_tail_phase)
    BY DEF QueueInv
  <2>6. Mirrors(window', VPQ, Next1(VPQ_head, qsize),
                NextPhase(VPQ_head, VPQ_head_phase, qsize), VPQ_tail, VPQ_tail_phase)
    BY <1>0, <1>1, <2>2, <2>4, <2>5, MirrorsTail DEF StateTypes
  <2> QED  BY <1>6, <2>3, <2>6 DEF QueueInv
<1> QED  BY <1>2, <1>5, <1>6 DEF RetireEligible

(* Retirement of a branch.                                                 *)
LEMMA RetireBranchQueue ==
  ASSUME QueueInv, RetireBranch
  PROVE  QueueInv'
<1>0. TypeOK /\ StateTypes
  BY DEF QueueInv, TypeOK, StateTypes
<1>1. /\ window # <<>> /\ 1 \in DOMAIN window
      /\ window[1].pc = NoPC /\ window' = Tail(window)
      /\ UNCHANGED <<SVP_table, vpqVars, upcoming>>
  BY HeadPlace DEF RetireBranch, HeadDone
<1>2. window' \in Seq(Inst) /\ Popped(window, window')
  BY <1>1, HeadPlace DEF Popped
<1>3. Mirrors(window, VPQ, VPQ_head, VPQ_head_phase, VPQ_tail, VPQ_tail_phase)
  BY DEF QueueInv
<1>4. Mirrors(window', VPQ, VPQ_head, VPQ_head_phase, VPQ_tail, VPQ_tail_phase)
  BY <1>0, <1>1, <1>2, <1>3, MirrorsTailBranch DEF StateTypes
<1> QED  BY <1>0, <1>1, <1>2, <1>4 DEF QueueInv, TypeOK, vpqVars

(* Every step keeps the queue invariant.                                   *)
LEMMA QueueStep ==
  ASSUME QueueInv, [Next]_vars
  PROVE  QueueInv'
<1>1. CASE UNCHANGED vars
  <2>1. TypeOK'
    BY <1>1 DEF vars, vpqVars, QueueInv, TypeOK
  <2> QED  BY <1>1, <2>1 DEF vars, vpqVars, QueueInv
<1>2. CASE \E pc \in PC : RenameEligible(pc)
  BY <1>2, RenameEligibleQueue
<1>3. CASE RenameBranch
  BY <1>3, RenameBranchQueue
<1>4. CASE \E k \in 1..MaxWindow, v \in Value : Complete(k, v)
  BY <1>4, CompleteQueue
<1>5. CASE \E k \in 1..MaxWindow : ResolveCorrect(k)
  BY <1>5, ResolveCorrectQueue
<1>6. CASE \E k \in 1..MaxWindow : Mispredict(k)
  BY <1>6, MispredictQueue
<1>7. CASE \E v \in Value : RetireEligible(v)
  BY <1>7, RetireEligibleQueue
<1>8. CASE RetireBranch
  BY <1>8, RetireBranchQueue
<1>9. CASE RetireSquash
  BY <1>9, RollbackQueue DEF RetireSquash, QueueInv, TypeOK
<1> QED
  BY <1>1, <1>2, <1>3, <1>4, <1>5, <1>6, <1>7, <1>8, <1>9 DEF Next

(* The queue invariant holds in every state.                               *)
THEOREM QueueInvariant == Spec => []QueueInv
<1>1. Init => QueueInv
  BY InitQueue
<1>2. QueueInv /\ [Next]_vars => QueueInv'
  BY QueueStep
<1> QED  BY <1>1, <1>2, PTL DEF Spec

(* The VPQ mirrors the window in every state: retire_VPQ finds the         *)
(* instruction that retires at the head, with the value it computed, and   *)
(* the tail a branch kept is the one its elders need (SVP.cc:159, 186).    *)
THEOREM QueueMirrors == Spec => []VPQMirrorsWindow
<1>1. QueueInv => VPQMirrorsWindow
  <2> SUFFICES ASSUME QueueInv
               PROVE  VPQMirrorsWindow
    OBVIOUS
  <2>1. window \in Seq(Inst) /\ Len(window) \in Nat
    BY LenProperties DEF QueueInv, TypeOK
  <2>2. \A n : Eligible(n) = Elig(window, n)
    BY DEF Eligible, Elig
  <2>3. Mirrors(window, VPQ, VPQ_head, VPQ_head_phase, VPQ_tail, VPQ_tail_phase)
    BY DEF QueueInv
  <2>4. VPQCount = Cardinality(Eligible(Len(window)))
    <3>1. (Len(window) + 1) - 1 = Len(window)
      BY <2>1
    <3> QED  BY <3>1, <2>2, <2>3 DEF Mirrors, Age, VPQCount
  <2>5. ASSUME NEW k \in DOMAIN window
        PROVE  LET x == window[k]
                   d == Cardinality(Eligible(k - 1))
               IN  /\ x.at[1] = Ahead(d, VPQ_head, qsize)
                   /\ Kept(x.at) = d
                   /\ x.pc # NoPC => /\ VPQ[x.at[1]].pc = x.pc
                                     /\ x.done => VPQ[x.at[1]].val = x.value
    <3>1. Placed(window[k], Age(window, k), VPQ_head, VPQ_head_phase, VPQ)
      BY <2>3 DEF Mirrors
    <3>2. Age(window, k) = Cardinality(Eligible(k - 1))
      BY <2>2 DEF Age
    <3> QED  BY <3>1, <3>2 DEF Placed, Kept
  <2> QED  BY <2>4, <2>5 DEF VPQMirrorsWindow
<1> QED  BY <1>1, QueueInvariant, PTL

-----------------------------------------------------------------------------
(* Instance counters.                                                      *)

(* The slots in use that carry the index i and the tag t.                  *)
Carriers(q, head, used, i, t) ==
  {s \in Slot : /\ Distance(s, head, qsize) < used
                /\ index[q[s].pc] = i /\ tag[q[s].pc] = t}

(* They are finitely many.                                                 *)
LEMMA CarriersFinite ==
  ASSUME NEW q, NEW head, NEW used, NEW i, NEW t
  PROVE  /\ IsFiniteSet(Carriers(q, head, used, i, t))
         /\ Cardinality(Carriers(q, head, used, i, t)) \in Nat
<1>1. IsFiniteSet(Slot) /\ Carriers(q, head, used, i, t) \in SUBSET Slot
  BY Constants, FS_Interval DEF Carriers
<1> QED  BY <1>1, FS_Subset, FS_CardinalityType

(* InstanceExact in these terms.                                           *)
LEMMA InstanceCarriers ==
  InstanceExact <=>
    \A i \in Index :
      SVP_table[i].instance =
        Cardinality(Carriers(VPQ, VPQ_head, VPQCount, i, SVP_table[i].tag))
BY DEF InstanceExact, Carriers, InUse

(* An empty queue has none.                                                *)
LEMMA NoCarriers ==
  ASSUME NEW q, NEW i, NEW t
  PROVE  Cardinality(Carriers(q, 0, 0, i, t)) = 0
<1>1. \A s \in Slot : ~(Distance(s, 0, qsize) < 0)
  BY Constants DEF Distance
<1>2. Carriers(q, 0, 0, i, t) = {}
  BY <1>1 DEF Carriers
<1> QED  BY <1>2, FS_EmptySet

(* A slot in use holds a PC.                                               *)
LEMMA UsedPC ==
  ASSUME QueueInv, NEW s \in Slot, Distance(s, VPQ_head, qsize) < VPQCount
  PROVE  VPQ[s].pc \in PC
<1>1. PICK k \in DOMAIN window : window[k].pc # NoPC /\ window[k].at[1] = s
  BY DEF QueueInv, Mirrors, Owner, VPQCount
<1>2. Placed(window[k], Age(window, k), VPQ_head, VPQ_head_phase, VPQ)
  BY DEF QueueInv, Mirrors
<1>3. window[k].pc \in PC \cup {NoPC}
  BY InstFields DEF QueueInv, TypeOK
<1> QED  BY <1>1, <1>2, <1>3 DEF Placed

(* A new entry is one carrier more of its index and tag.                   *)
LEMMA CarriersAppend ==
  ASSUME QueueInv, NEW pc \in PC, RenameEligible(pc), NEW i, NEW t
  PROVE  Cardinality(Carriers(VPQ, VPQ_head, VPQCount, i, t)') =
           Cardinality(Carriers(VPQ, VPQ_head, VPQCount, i, t))
             + IF index[pc] = i /\ tag[pc] = t THEN 1 ELSE 0
<1>0. StateTypes /\ qsize \in Nat \ {0} /\ Slot = 0..(qsize - 1)
  BY Constants DEF QueueInv, TypeOK, StateTypes
<1>1. /\ VPQ' = [VPQ EXCEPT ![VPQ_tail] = [pc |-> pc, val |-> Prediction(pc)]]
      /\ VPQ_tail' = Next1(VPQ_tail, qsize)
      /\ VPQ_tail_phase' = NextPhase(VPQ_tail, VPQ_tail_phase, qsize)
      /\ VPQ_head' = VPQ_head /\ VPQ_head_phase' = VPQ_head_phase
  BY DEF RenameEligible, Prediction
<1>2. VPQCount < qsize /\ VPQCount \in 0..qsize
  BY <1>0, FreeEntries DEF RenameEligible
<1>3. RingOK(VPQ_head, VPQ_head_phase, VPQ_tail, VPQ_tail_phase)
  BY DEF QueueInv, Mirrors
<1>4. VPQCount' = VPQCount + 1
  BY <1>0, <1>1, <1>2, <1>3, AdvanceTail DEF StateTypes, VPQCount
<1>5. Ahead(VPQCount, VPQ_head, qsize) = VPQ_tail
  BY <1>0, <1>2, <1>3, EndsFromTail DEF StateTypes, VPQCount
<1>6. Distance(VPQ_tail, VPQ_head, qsize) = VPQCount
  <2>1. VPQCount \in 0..(qsize - 1)
    BY <1>0, <1>2
  <2> QED  BY <2>1, <1>0, <1>5, DistanceAhead DEF StateTypes
<1>7. ASSUME NEW s \in Slot
      PROVE  /\ Distance(s, VPQ_head, qsize) < VPQCount + 1
                  <=> (s = VPQ_tail \/ Distance(s, VPQ_head, qsize) < VPQCount)
             /\ s # VPQ_tail => VPQ'[s] = VPQ[s]
  <2>1. Distance(s, VPQ_head, qsize) \in 0..(qsize - 1)
    BY <1>0, DistanceAhead DEF StateTypes
  <2>2. Ahead(Distance(s, VPQ_head, qsize), VPQ_head, qsize) = s
    BY <1>0, DistanceAhead DEF StateTypes
  <2>3. Distance(s, VPQ_head, qsize) = VPQCount => s = VPQ_tail
    BY <2>2, <1>5
  <2> QED  BY <2>1, <2>3, <1>0, <1>1, <1>2, <1>6 DEF StateTypes
<1>8. VPQ'[VPQ_tail].pc = pc
  BY <1>0, <1>1 DEF StateTypes
<1>9. VPQ_tail \in Slot /\ ~(Distance(VPQ_tail, VPQ_head, qsize) < VPQCount)
  BY <1>0, <1>2, <1>6 DEF StateTypes
<1> DEFINE C == Carriers(VPQ, VPQ_head, VPQCount, i, t)
           D == Carriers(VPQ', VPQ_head, VPQCount + 1, i, t)
<1>10. IsFiniteSet(C) /\ Cardinality(C) \in Nat
  BY CarriersFinite
<1>11. VPQ_tail \notin C
  BY <1>9 DEF Carriers
<1>12. CASE index[pc] = i /\ tag[pc] = t
  <2>1. D = C \cup {VPQ_tail}
    BY <1>7, <1>8, <1>9, <1>12 DEF Carriers
  <2>2. Cardinality(C \cup {VPQ_tail}) = Cardinality(C) + 1
    <3> HIDE DEF C
    <3> QED  BY <1>10, <1>11, FS_AddElement
  <2> QED  BY <2>1, <2>2, <1>1, <1>4, <1>12
<1>13. CASE ~(index[pc] = i /\ tag[pc] = t)
  <2>1. D = C
    BY <1>7, <1>8, <1>9, <1>13 DEF Carriers
  <2> QED  BY <2>1, <1>1, <1>4, <1>10, <1>13
<1> QED  BY <1>12, <1>13

(* The head that leaves is one carrier less of its index and tag.          *)
LEMMA CarriersPop ==
  ASSUME QueueInv, VPQCount > 0, NEW i, NEW t
  PROVE  Cardinality(Carriers(VPQ, Next1(VPQ_head, qsize), VPQCount - 1, i, t)) =
           Cardinality(Carriers(VPQ, VPQ_head, VPQCount, i, t))
             - IF index[VPQ[VPQ_head].pc] = i /\ tag[VPQ[VPQ_head].pc] = t THEN 1 ELSE 0
<1>0. StateTypes /\ qsize \in Nat \ {0} /\ Slot = 0..(qsize - 1)
  BY Constants DEF QueueInv, TypeOK, StateTypes
<1>1. VPQCount \in 1..qsize
  BY <1>0, FreeEntries
<1> DEFINE next == Next1(VPQ_head, qsize)
<1>2. Distance(VPQ_head, next, qsize) = qsize - 1 /\ Distance(VPQ_head, VPQ_head, qsize) = 0
  <2>1. Distance(VPQ_head, next, qsize) = qsize - 1
    BY <1>0, AdvanceDistance DEF StateTypes
  <2>2. Distance(VPQ_head, VPQ_head, qsize) = 0
    BY <1>0 DEF StateTypes, Distance
  <2> QED  BY <2>1, <2>2
<1>3. ASSUME NEW s \in Slot
      PROVE  Distance(s, next, qsize) < VPQCount - 1
               <=> (s # VPQ_head /\ Distance(s, VPQ_head, qsize) < VPQCount)
  <2>1. CASE s = VPQ_head
    BY <2>1, <1>0, <1>1, <1>2
  <2>2. CASE s # VPQ_head
    <3>1. Distance(s, next, qsize) = Distance(s, VPQ_head, qsize) - 1
      BY <2>2, <1>0, AdvanceDistance DEF StateTypes
    <3>2. Distance(s, VPQ_head, qsize) \in 0..(qsize - 1)
      BY <1>0, DistanceAhead DEF StateTypes
    <3> QED  BY <3>1, <3>2, <2>2, <1>0, <1>1
  <2> QED  BY <2>1, <2>2
<1>4. VPQ_head \in Slot /\ Distance(VPQ_head, VPQ_head, qsize) < VPQCount
  BY <1>0, <1>1, <1>2 DEF StateTypes
<1> HIDE DEF next
<1> DEFINE C == Carriers(VPQ, VPQ_head, VPQCount, i, t)
<1>5. Carriers(VPQ, next, VPQCount - 1, i, t) = C \ {VPQ_head}
  BY <1>3 DEF Carriers
<1>6. VPQ_head \in C <=> (index[VPQ[VPQ_head].pc] = i /\ tag[VPQ[VPQ_head].pc] = t)
  BY <1>4 DEF Carriers
<1>7. IsFiniteSet(C) /\ Cardinality(C) \in Nat
  BY CarriersFinite
<1>8. Cardinality(C \ {VPQ_head}) =
        IF VPQ_head \in C THEN Cardinality(C) - 1 ELSE Cardinality(C)
  <2> HIDE DEF C
  <2> QED  BY <1>7, FS_RemoveElement
<1>9. CASE VPQ_head \in C
  BY <1>5, <1>6, <1>7, <1>8, <1>9 DEF next
<1>10. CASE VPQ_head \notin C
  BY <1>5, <1>6, <1>7, <1>8, <1>10 DEF next
<1> QED  BY <1>9, <1>10

(* InstanceExact after a step, in these terms.                             *)
LEMMA InstanceCarriersNext ==
  ASSUME \A i \in Index :
           SVP_table'[i].instance =
             Cardinality(Carriers(VPQ', VPQ_head', VPQCount', i, SVP_table'[i].tag))
  PROVE  InstanceExact'
BY DEF InstanceExact, Carriers, InUse

(* The counters count the new instance.                                    *)
LEMMA RenameInstances ==
  ASSUME QueueInv, InstanceExact, NEW pc \in PC, RenameEligible(pc)
  PROVE  InstanceExact'
<1>1. SVP_table' = IF search(pc)
                    THEN [SVP_table EXCEPT ![index[pc]].instance = @ + 1]
                    ELSE SVP_table
  BY DEF RenameEligible
<1>2. SVP_table \in [Index -> Entry] /\ index[pc] \in Index
  BY Constants DEF QueueInv, TypeOK
<1>3. ASSUME NEW i \in Index
      PROVE  SVP_table'[i].instance =
               Cardinality(Carriers(VPQ', VPQ_head', VPQCount', i, SVP_table'[i].tag))
  <2>1. SVP_table[i].instance =
          Cardinality(Carriers(VPQ, VPQ_head, VPQCount, i, SVP_table[i].tag))
    BY InstanceCarriers
  <2>2. SVP_table[i] \in Entry /\ SVP_table[i].instance \in Int
    BY EntryFields DEF QueueInv
  <2>3. SVP_table'[i].tag = SVP_table[i].tag
    BY <1>1, <1>2, <2>2 DEF Entry
  <2>4. Cardinality(Carriers(VPQ', VPQ_head', VPQCount', i, SVP_table[i].tag)) =
          Cardinality(Carriers(VPQ, VPQ_head, VPQCount, i, SVP_table[i].tag))
            + IF index[pc] = i /\ tag[pc] = SVP_table[i].tag THEN 1 ELSE 0
    <3>1. PICK t : t = SVP_table[i].tag
      OBVIOUS
    <3>2. Cardinality(Carriers(VPQ, VPQ_head, VPQCount, i, t)') =
            Cardinality(Carriers(VPQ, VPQ_head, VPQCount, i, t))
              + IF index[pc] = i /\ tag[pc] = t THEN 1 ELSE 0
      BY CarriersAppend
    <3> QED  BY <3>1, <3>2
  <2>5. CASE index[pc] = i /\ tag[pc] = SVP_table[i].tag
    <3>1. search(pc)
      BY <2>5 DEF search
    <3>2. SVP_table'[i] = [SVP_table[i] EXCEPT !.instance = @ + 1]
      BY <1>1, <1>2, <2>5, <3>1
    <3>3. SVP_table'[i].instance = SVP_table[i].instance + 1
      BY <2>2, <3>2 DEF Entry
    <3> QED  BY <2>1, <2>3, <2>4, <2>5, <3>3
  <2>6. CASE ~(index[pc] = i /\ tag[pc] = SVP_table[i].tag)
    <3>1. SVP_table'[i] = SVP_table[i]
      BY <1>1, <1>2, <2>6 DEF search
    <3> QED  BY <2>1, <2>2, <2>4, <2>6, <3>1
  <2> QED  BY <2>5, <2>6
<1> QED  BY <1>3, InstanceCarriersNext

(* What a misprediction takes off a counter is what it rolls back.         *)
LEMMA MispredictInstances ==
  ASSUME QueueInv, InstanceExact, NEW k \in 1..MaxWindow, Mispredict(k)
  PROVE  InstanceExact'
<1>1. PICK at : at = window[k].at
  OBVIOUS
<1> DEFINE gone(i) == {s \in RolledBack(at) : index[VPQ[s].pc] = i /\ search(VPQ[s].pc)}
<1>2. SVP_table' = [i \in Index |->
        [SVP_table[i] EXCEPT !.instance = @ - Cardinality(gone(i))]]
  BY <1>1 DEF Mispredict
<1>3. /\ VPQ' = VPQ /\ VPQ_head' = VPQ_head /\ VPQ_head_phase' = VPQ_head_phase
      /\ VPQ_tail' = at[1] /\ VPQ_tail_phase' = at[2]
      /\ k \in DOMAIN window /\ Shortened(window, window', k) /\ window' \in Seq(Inst)
  BY <1>1, MispredictWindow DEF Shortened
<1>4. VPQCount' = Kept(at)
  BY <1>3 DEF VPQCount, Kept
<1>5. StateTypes /\ qsize \in Nat \ {0} /\ Slot = 0..(qsize - 1)
  BY Constants DEF QueueInv, TypeOK, StateTypes
<1>6. Kept(at) <= VPQCount /\ Kept(at) \in 0..qsize /\ VPQCount \in 0..qsize
  <2>1. Mirrors(window, VPQ, VPQ_head, VPQ_head_phase, VPQ_tail, VPQ_tail_phase)
    BY DEF QueueInv
  <2>2. /\ Mirrors(window', VPQ, VPQ_head, VPQ_head_phase, window[k].at[1],
                   window[k].at[2])
        /\ Occupancy(VPQ_head, VPQ_head_phase, window[k].at[1], window[k].at[2], qsize)
             <= Occupancy(VPQ_head, VPQ_head_phase, VPQ_tail, VPQ_tail_phase, qsize)
    BY <1>3, <1>5, <2>1, MirrorsPrefix DEF StateTypes
  <2>3. window[k].at[1] \in Slot /\ window[k].at[2] \in BOOLEAN
    BY <1>3, <1>5, InstFields DEF StateTypes
  <2>4. RingOK(VPQ_head, VPQ_head_phase, window[k].at[1], window[k].at[2])
    BY <2>2 DEF Mirrors
  <2>5. Kept(at) \in 0..qsize
    BY <1>1, <1>5, <2>3, <2>4, OccupancyRange DEF StateTypes, Kept
  <2>6. VPQCount \in 0..qsize
    BY FreeEntries
  <2> QED  BY <1>1, <2>2, <2>5, <2>6 DEF Kept, VPQCount
<1> HIDE DEF gone
<1>7. ASSUME NEW i \in Index
      PROVE  SVP_table'[i].instance =
               Cardinality(Carriers(VPQ', VPQ_head', VPQCount', i, SVP_table'[i].tag))
  <2>1. SVP_table[i].instance =
          Cardinality(Carriers(VPQ, VPQ_head, VPQCount, i, SVP_table[i].tag))
    BY InstanceCarriers
  <2>2. SVP_table[i] \in Entry /\ SVP_table[i].instance \in Int
    BY EntryFields DEF QueueInv
  <2>3. /\ SVP_table'[i].tag = SVP_table[i].tag
        /\ SVP_table'[i].instance = SVP_table[i].instance - Cardinality(gone(i))
    BY <1>2, <2>2 DEF Entry
  <2> DEFINE C == Carriers(VPQ, VPQ_head, VPQCount, i, SVP_table[i].tag)
             D == Carriers(VPQ, VPQ_head, Kept(at), i, SVP_table[i].tag)
  <2>4. gone(i) = C \ D
    <3>1. ASSUME NEW s \in Slot
          PROVE  ~(Distance(s, VPQ_head, qsize) < Kept(at))
                   <=> Kept(at) <= Distance(s, VPQ_head, qsize)
      <4>1. Distance(s, VPQ_head, qsize) \in 0..(qsize - 1)
        BY <1>5, DistanceAhead DEF StateTypes
      <4> QED  BY <4>1, <1>5, <1>6
    <3> QED  BY <3>1 DEF gone, RolledBack, InUse, Carriers, search
  <2>5. D \subseteq C
    <3>1. ASSUME NEW s \in Slot, Distance(s, VPQ_head, qsize) < Kept(at)
          PROVE  Distance(s, VPQ_head, qsize) < VPQCount
      <4>1. Distance(s, VPQ_head, qsize) \in 0..(qsize - 1)
        BY <1>5, DistanceAhead DEF StateTypes
      <4> QED  BY <4>1, <3>1, <1>5, <1>6
    <3> QED  BY <3>1 DEF Carriers
  <2>6. IsFiniteSet(C) /\ Cardinality(C) \in Nat /\ Cardinality(D) \in Nat
    BY CarriersFinite
  <2> HIDE DEF C, D
  <2>7. Cardinality(gone(i)) = Cardinality(C) - Cardinality(D)
    <3>1. C \cap D = D
      BY <2>5
    <3>2. Cardinality(C \ D) = Cardinality(C) - Cardinality(C \cap D)
      BY <2>6, FS_Difference
    <3> QED  BY <3>1, <3>2, <2>4
  <2>8. SVP_table'[i].instance = Cardinality(D)
    BY <2>1, <2>3, <2>6, <2>7 DEF C
  <2> QED  BY <2>3, <2>8, <1>3, <1>4 DEF D
<1> QED  BY <1>7, InstanceCarriersNext

(* After a squash there are no instances and no counts.                    *)
LEMMA RollbackInstances ==
  ASSUME NEW table \in [Index -> Entry], full_rollback(table)
  PROVE  InstanceExact'
<1>1. /\ SVP_table' = [i \in Index |-> [table[i] EXCEPT !.instance = 0]]
      /\ VPQ_head' = 0 /\ VPQ_tail' = 0
      /\ VPQ_head_phase' = FALSE /\ VPQ_tail_phase' = FALSE
  BY DEF full_rollback
<1>2. VPQCount' = 0
  <2>1. Occupancy(0, FALSE, 0, FALSE, qsize) = 0
    BY DEF Occupancy
  <2> QED  BY <1>1, <2>1 DEF VPQCount
<1>3. ASSUME NEW i \in Index
      PROVE  SVP_table'[i].instance =
               Cardinality(Carriers(VPQ', VPQ_head', VPQCount', i, SVP_table'[i].tag))
  <2>1. SVP_table'[i].instance = 0
    BY <1>1 DEF Entry
  <2>2. Cardinality(Carriers(VPQ', 0, 0, i, SVP_table'[i].tag)) = 0
    BY NoCarriers
  <2> QED  BY <2>1, <2>2, <1>1, <1>2
<1> QED  BY <1>3, InstanceCarriersNext

(* A new table entry counts exactly the other instances in flight, when    *)
(* no two PCs share index and tag: install_SVP compares PCs.               *)
LEMMA InstallCount ==
  ASSUME NoAliases, QueueInv, VPQCount > 0, NEW pc \in PC, pc = VPQ[VPQ_head].pc
  PROVE  InitialInstance(pc) =
           Cardinality(Carriers(VPQ, VPQ_head, VPQCount, index[pc], tag[pc])) - 1
<1> DEFINE C == Carriers(VPQ, VPQ_head, VPQCount, index[pc], tag[pc])
<1>0. StateTypes /\ qsize \in Nat \ {0} /\ Slot = 0..(qsize - 1)
  BY Constants DEF QueueInv, TypeOK, StateTypes
<1>1. {s \in Slot : InUse(s) /\ VPQ[s].pc = pc} = C
  <2>1. ASSUME NEW s \in Slot, InUse(s)
        PROVE  VPQ[s].pc = pc <=> index[VPQ[s].pc] = index[pc] /\ tag[VPQ[s].pc] = tag[pc]
    BY <2>1, UsedPC DEF InUse, NoAliases
  <2> QED  BY <2>1 DEF Carriers, InUse
<1>2. VPQ_head \in C
  <2>1. Distance(VPQ_head, VPQ_head, qsize) = 0
    BY <1>0 DEF StateTypes, Distance
  <2> QED  BY <2>1, <1>0 DEF Carriers, StateTypes
<1>3. IsFiniteSet(C) /\ Cardinality(C) \in Nat
  BY CarriersFinite
<1> HIDE DEF C
<1>4. Cardinality(C) # 0
  BY <1>2, <1>3, FS_EmptySet
<1>5. get_inflight_instances(pc) = Cardinality(C)
  BY <1>1 DEF get_inflight_instances
<1>6. InitialInstance(pc) = Cardinality(C) - 1
  BY <1>3, <1>4, <1>5 DEF InitialInstance
<1> QED  BY <1>6 DEF C

(* Training with the head takes one instance off its entry, or counts the  *)
(* others in the entry it installs.                                        *)
LEMMA RetireInstances ==
  ASSUME NoAliases, QueueInv, InstanceExact, window # <<>>, window[1].pc # NoPC,
         SVP_table' = retired_table, VPQ' = VPQ,
         VPQ_head' = Next1(VPQ_head, qsize),
         VPQ_head_phase' = NextPhase(VPQ_head, VPQ_head_phase, qsize),
         VPQ_tail' = VPQ_tail, VPQ_tail_phase' = VPQ_tail_phase
  PROVE  InstanceExact'
<1>0. StateTypes /\ qsize \in Nat \ {0} /\ Slot = 0..(qsize - 1)
  BY Constants DEF QueueInv, TypeOK, StateTypes
<1>1. VPQCount > 0 /\ VPQ[VPQ_head].pc \in PC
  BY HeadPlace
<1>2. VPQCount' = VPQCount - 1
  <2>1. RingOK(VPQ_head, VPQ_head_phase, VPQ_tail, VPQ_tail_phase)
    BY DEF QueueInv, Mirrors
  <2> QED  BY <1>0, <1>1, <2>1, AdvanceHead DEF StateTypes, VPQCount
<1>3. PICK pc \in PC, val \in Value : pc = VPQ[VPQ_head].pc /\ val = VPQ[VPQ_head].val
  BY <1>0, <1>1 DEF StateTypes
<1>4. index[pc] \in Index /\ SVP_table \in [Index -> Entry]
  BY Constants DEF QueueInv, TypeOK
<1>5. SVP_table' = [SVP_table EXCEPT ![index[pc]] =
                      IF search(pc) THEN update_SVP(@, val) ELSE install_SVP(pc, val)]
  BY <1>3 DEF retired_table
<1>6. ASSUME NEW i \in Index
      PROVE  SVP_table'[i].instance =
               Cardinality(Carriers(VPQ', VPQ_head', VPQCount', i, SVP_table'[i].tag))
  <2>1. SVP_table[i].instance =
          Cardinality(Carriers(VPQ, VPQ_head, VPQCount, i, SVP_table[i].tag))
    BY InstanceCarriers
  <2>2. SVP_table[i] \in Entry /\ SVP_table[i].instance \in Int
    BY EntryFields DEF QueueInv
  <2>3. PICK t : t = SVP_table'[i].tag
    OBVIOUS
  <2>4. Cardinality(Carriers(VPQ', VPQ_head', VPQCount', i, t)) =
          Cardinality(Carriers(VPQ, VPQ_head, VPQCount, i, t))
            - IF index[pc] = i /\ tag[pc] = t THEN 1 ELSE 0
    BY <1>1, <1>2, <1>3, CarriersPop
  <2>5. Cardinality(Carriers(VPQ, VPQ_head, VPQCount, i, t)) \in Nat
    BY CarriersFinite
  <2>6. CASE i # index[pc]
    <3>1. SVP_table'[i] = SVP_table[i]
      BY <1>4, <1>5, <2>6
    <3> QED  BY <2>1, <2>3, <2>4, <2>5, <2>6, <3>1
  <2>7. CASE i = index[pc] /\ search(pc)
    <3>1. SVP_table'[i] = update_SVP(SVP_table[i], val) /\ SVP_table[i].tag = tag[pc]
      BY <1>4, <1>5, <2>7 DEF search
    <3>2. /\ SVP_table'[i].tag = SVP_table[i].tag
          /\ SVP_table'[i].instance = SVP_table[i].instance - 1
      BY <2>2, <3>1, TrainedEntry
    <3> QED  BY <2>1, <2>3, <2>4, <2>5, <2>7, <3>1, <3>2
  <2>8. CASE i = index[pc] /\ ~search(pc)
    <3>1. SVP_table'[i] = install_SVP(pc, val)
      BY <1>4, <1>5, <2>8
    <3>2. SVP_table'[i].tag = tag[pc] /\ SVP_table'[i].instance = InitialInstance(pc)
      BY <3>1 DEF install_SVP
    <3>3. InitialInstance(pc) =
            Cardinality(Carriers(VPQ, VPQ_head, VPQCount, index[pc], tag[pc])) - 1
      BY <1>1, <1>3, InstallCount
    <3> QED  BY <2>3, <2>4, <2>5, <2>8, <3>2, <3>3
  <2> QED  BY <2>6, <2>7, <2>8
<1> QED  BY <1>6, InstanceCarriersNext

(* A step that leaves the table and the queue alone, or changes values     *)
(* only, leaves the counters exact.                                        *)
LEMMA SameInstances ==
  ASSUME InstanceExact, SVP_table' = SVP_table,
         \A s \in Slot : VPQ'[s].pc = VPQ[s].pc,
         VPQ_head' = VPQ_head, VPQ_head_phase' = VPQ_head_phase,
         VPQ_tail' = VPQ_tail, VPQ_tail_phase' = VPQ_tail_phase
  PROVE  InstanceExact'
<1>1. VPQCount' = VPQCount
  BY DEF VPQCount
<1>2. \A i, t : Carriers(VPQ', VPQ_head', VPQCount', i, t) =
                Carriers(VPQ, VPQ_head, VPQCount, i, t)
  BY <1>1 DEF Carriers
<1>3. \A i \in Index :
        SVP_table[i].instance =
          Cardinality(Carriers(VPQ, VPQ_head, VPQCount, i, SVP_table[i].tag))
  BY InstanceCarriers
<1> QED  BY <1>2, <1>3, InstanceCarriersNext

(* Every step keeps the counters exact.                                    *)
LEMMA InstanceStep ==
  ASSUME NoAliases, QueueInv, InstanceExact, [Next]_vars
  PROVE  InstanceExact'
<1>1. CASE UNCHANGED vars
  BY <1>1, SameInstances DEF vars, vpqVars
<1>2. CASE \E pc \in PC : RenameEligible(pc)
  BY <1>2, RenameInstances
<1>3. CASE RenameBranch
  BY <1>3, SameInstances DEF RenameBranch, vpqVars
<1>4. ASSUME NEW k \in 1..MaxWindow, NEW v \in Value, Complete(k, v)
      PROVE  InstanceExact'
  <2>1. VPQ' = [VPQ EXCEPT ![window[k].at[1]].val = v]
    BY <1>4 DEF Complete
  <2>2. \A s \in Slot : VPQ'[s].pc = VPQ[s].pc
    BY <2>1 DEF QueueInv, TypeOK
  <2> QED  BY <2>2, <1>4, SameInstances DEF Complete
<1>5. CASE \E k \in 1..MaxWindow : ResolveCorrect(k)
  BY <1>5, SameInstances DEF ResolveCorrect, vpqVars
<1>6. CASE \E k \in 1..MaxWindow : Mispredict(k)
  BY <1>6, MispredictInstances
<1>7. ASSUME NEW v \in Value, RetireEligible(v)
      PROVE  InstanceExact'
  <2>1. window # <<>> /\ window[1].pc # NoPC
    BY <1>7, HeadPlace DEF RetireEligible, HeadDone
  <2>2. CASE full_rollback(retired_table)
    BY <2>1, <2>2, RetiredTable, RollbackInstances
  <2>3. CASE /\ SVP_table' = retired_table
             /\ window' = Tail(window)
             /\ VPQ_head' = Next1(VPQ_head, qsize)
             /\ VPQ_head_phase' = NextPhase(VPQ_head, VPQ_head_phase, qsize)
             /\ UNCHANGED <<VPQ, VPQ_tail, VPQ_tail_phase>>
    BY <2>1, <2>3, RetireInstances
  <2> QED  BY <1>7, <2>2, <2>3 DEF RetireEligible
<1>8. CASE RetireBranch
  BY <1>8, SameInstances DEF RetireBranch, vpqVars
<1>9. CASE RetireSquash
  BY <1>9, RollbackInstances DEF RetireSquash, QueueInv, TypeOK
<1> QED
  BY <1>1, <1>2, <1>3, <1>4, <1>5, <1>6, <1>7, <1>8, <1>9 DEF Next

(* When no two PCs share index and tag, an entry's instance counter is     *)
(* exactly the number of its instances in flight, whatever was evicted,    *)
(* rolled back or squashed (SVP.cc install_VPQ, install_SVP,               *)
(* partial_rollback, full_rollback).                                       *)
THEOREM InstancesExact == NoAliases => (Spec => []InstanceExact)
<1> SUFFICES ASSUME NoAliases
             PROVE  Spec => []InstanceExact
  OBVIOUS
<1>1. Init => InstanceExact
  <2> SUFFICES ASSUME Init
               PROVE  InstanceExact
    OBVIOUS
  <2>1. VPQCount = 0 /\ VPQ_head = 0
    <3>1. Occupancy(0, FALSE, 0, FALSE, qsize) = 0
      BY DEF Occupancy
    <3> QED  BY <3>1 DEF Init, VPQCount
  <2>2. \A i \in Index : SVP_table[i].instance = 0
    BY DEF Init
  <2> QED  BY <2>1, <2>2, NoCarriers, InstanceCarriers
<1>2. QueueInv /\ InstanceExact /\ [Next]_vars => InstanceExact'
  BY InstanceStep
<1> QED  BY <1>1, <1>2, QueueInvariant, PTL DEF Spec

-----------------------------------------------------------------------------
(* The instructions among the first n of a window with the PC p, and those *)
(* with the index i and the tag t.                                         *)
Same(w, n, p)        == {j \in 1..n : w[j].pc = p}
InFlight(w, n, i, t) ==
  {j \in 1..n : w[j].pc # NoPC /\ index[w[j].pc] = i /\ tag[w[j].pc] = t}

-----------------------------------------------------------------------------
(* Instances in the queue and in the window.                               *)

(* Instances are finitely many.                                            *)
LEMMA SameFinite ==
  ASSUME NEW w, NEW n \in Nat, NEW p
  PROVE  IsFiniteSet(Same(w, n, p)) /\ Cardinality(Same(w, n, p)) \in Nat
<1>1. IsFiniteSet(1..n) /\ Same(w, n, p) \in SUBSET (1..n)
  BY FS_Interval DEF Same
<1> QED  BY <1>1, FS_Subset, FS_CardinalityType

(* They depend on the PCs alone.                                           *)
LEMMA SamePCs ==
  ASSUME NEW v, NEW w, NEW n \in Nat, \A j \in 1..n : v[j].pc = w[j].pc, NEW p
  PROVE  Same(v, n, p) = Same(w, n, p)
BY DEF Same

(* Without its first instruction a window has one instance less of that    *)
(* instruction's PC.                                                       *)
LEMMA SameTail ==
  ASSUME NEW v, NEW w, NEW n \in Nat, \A j \in 1..n : v[j] = w[j + 1], NEW p
  PROVE  Cardinality(Same(v, n, p)) =
           IF w[1].pc = p THEN Cardinality(Same(w, n + 1, p)) - 1
                          ELSE Cardinality(Same(w, n + 1, p))
<1>1. Same(v, n, p) = {j \in 1..n : j + 1 \in Same(w, n + 1, p)}
  BY DEF Same
<1>2. Same(w, n + 1, p) \in SUBSET (1..(n + 1)) /\ IsFiniteSet(Same(w, n + 1, p))
  <2>1. n + 1 \in Nat
    OBVIOUS
  <2>2. IsFiniteSet(Same(w, n + 1, p))
    BY <2>1, SameFinite
  <2> QED  BY <2>2 DEF Same
<1>3. Cardinality(Same(v, n, p)) = Cardinality(Same(w, n + 1, p) \ {1})
  BY <1>1, <1>2, ShiftCount
<1>4. 1 \in Same(w, n + 1, p) <=> w[1].pc = p
  BY DEF Same
<1> QED  BY <1>2, <1>3, <1>4, FS_RemoveElement

(* The slots that carry an index and a tag are those of the instructions   *)
(* in flight with that index and tag.                                      *)
LEMMA CarriersInFlight ==
  ASSUME QueueInv, NEW i, NEW t
  PROVE  Cardinality(Carriers(VPQ, VPQ_head, VPQCount, i, t)) =
           Cardinality(InFlight(window, Len(window), i, t))
<1> DEFINE T == InFlight(window, Len(window), i, t)
           C == Carriers(VPQ, VPQ_head, VPQCount, i, t)
           f == [k \in T |-> window[k].at[1]]
<1>1. /\ StateTypes /\ window \in Seq(Inst)
      /\ Mirrors(window, VPQ, VPQ_head, VPQ_head_phase, VPQ_tail, VPQ_tail_phase)
      /\ Len(window) \in Nat /\ DOMAIN window = 1..Len(window)
  BY LenProperties DEF QueueInv, TypeOK, StateTypes
<1>2. Distinct(window)
  BY <1>1, SlotsDiffer DEF StateTypes
<1>3. \A k \in DOMAIN window : AgeFits(window, k, VPQ_head, VPQCount)
  BY <1>1, Slots DEF StateTypes, VPQCount
<1>4. ASSUME NEW k \in DOMAIN window, window[k].pc # NoPC
      PROVE  /\ window[k].at[1] \in Slot
             /\ Distance(window[k].at[1], VPQ_head, qsize) < VPQCount
             /\ VPQ[window[k].at[1]].pc = window[k].pc
  <2>1. Placed(window[k], Age(window, k), VPQ_head, VPQ_head_phase, VPQ)
    BY <1>1 DEF Mirrors
  <2>2. window[k].at[1] \in Slot
    BY <1>1, InstFields
  <2> QED  BY <2>1, <2>2, <1>3, <1>4 DEF Placed, AgeFits
<1>5. \A k \in T : k \in DOMAIN window /\ window[k].pc # NoPC /\ f[k] = window[k].at[1]
  BY <1>1 DEF InFlight
<1>6. \A k \in T : f[k] \in C
  BY <1>4, <1>5 DEF Carriers, InFlight
<1>7. \A j, k \in T : f[j] = f[k] => j = k
  BY <1>2, <1>5 DEF Distinct
<1>8. ASSUME NEW s \in C
      PROVE  \E k \in T : f[k] = s
  <2>1. s \in Slot /\ Distance(s, VPQ_head, qsize) < VPQCount
    BY DEF Carriers
  <2>2. PICK k \in DOMAIN window : window[k].pc # NoPC /\ window[k].at[1] = s
    BY <1>1, <2>1 DEF Mirrors, Owner, VPQCount
  <2>3. VPQ[s].pc = window[k].pc
    BY <1>4, <2>2
  <2>4. k \in T
    BY <1>1, <2>2, <2>3 DEF Carriers, InFlight
  <2> QED  BY <2>2, <2>4
<1>9. IsFiniteSet(T)
  <2>1. IsFiniteSet(1..Len(window)) /\ T \in SUBSET (1..Len(window))
    BY <1>1, FS_Interval DEF InFlight
  <2> QED  BY <2>1, FS_Subset
<1> HIDE DEF T, C
<1>10. f \in Bijection(T, C)
  BY <1>6, <1>7, <1>8 DEF Bijection, Injection, Surjection, IsInjective
<1>11. ExistsBijection(T, C)
  BY <1>10 DEF ExistsBijection
<1>12. Cardinality(T) = Cardinality(C)
  BY <1>9, <1>11, FS_Bijection
<1> QED  BY <1>12 DEF T, C

(* Without aliases an index and a tag belong to one PC.                    *)
LEMMA InFlightSame ==
  ASSUME NoAliases, NEW w \in Seq(Inst), NEW p \in PC
  PROVE  InFlight(w, Len(w), index[p], tag[p]) = Same(w, Len(w), p)
<1>1. \A j \in 1..Len(w) : w[j].pc \in PC \cup {NoPC}
  BY InstFields, LenProperties
<1> QED  BY <1>1, Constants DEF InFlight, Same, NoAliases

(* The counter of a PC's entry is the number of the entry's instances in   *)
(* the window.                                                             *)
LEMMA InstanceInFlight ==
  ASSUME QueueInv, InstanceExact, NEW p \in PC, search(p)
  PROVE  SVP_table[index[p]].instance =
           Cardinality(InFlight(window, Len(window), index[p], tag[p]))
<1>1. index[p] \in Index /\ SVP_table[index[p]].tag = tag[p]
  BY Constants DEF search
<1>2. SVP_table[index[p]].instance =
        Cardinality(Carriers(VPQ, VPQ_head, VPQCount, index[p], SVP_table[index[p]].tag))
  BY <1>1, InstanceCarriers
<1> QED  BY <1>1, <1>2, CarriersInFlight

-----------------------------------------------------------------------------
(* Arithmetic sequences.                                                   *)

(* The n-th value from now of the regular PC p, when u gives the next one  *)
(* of each.                                                                *)
Nth(u, p, n) == (u[p] + stride[p] * n) % V

(* What u becomes when an instance of pc retires.                          *)
Advanced(u, pc) ==
  IF pc \in Regular THEN [u EXCEPT ![pc] = (@ + stride[pc]) % V] ELSE u

(* An entry that carries p's tag has seen a value of p once its confidence *)
(* has grown, and two in a row give its stride.                            *)
Learned(u, e, p) ==
  e.tag = tag[p] =>
    /\ e.confidence > 0 => (e.last_value + stride[p]) % V = u[p]
    /\ e.confidence > 1 => e.stride = stride[p]

(* The k-th instruction has the value its place in the sequence gives it.  *)
RightAt(u, w, k) ==
  w[k].pc \in Regular =>
    LET v == Nth(u, w[k].pc, Cardinality(Same(w, k - 1, w[k].pc)))
    IN  /\ w[k].predicted => w[k].pred_value = v
        /\ w[k].done => w[k].value = v

AllRight(u, w) == \A k \in DOMAIN w : RightAt(u, w, k)

AllLearned(u, t) == \A p \in Regular : Learned(u, t[index[p]], p)

StrideInv == AllLearned(upcoming, SVP_table) /\ AllRight(upcoming, window)

(* The strides and the next values are numbers.                            *)
LEMMA StrideType ==
  ASSUME NEW u \in [Regular -> Value], NEW p \in Regular
  PROVE  /\ p \in PC /\ p # NoPC /\ p \notin Late
         /\ stride[p] \in Value /\ stride[p] \in Int
         /\ u[p] \in Value /\ u[p] \in Int
         /\ V \in Nat \ {0} /\ Value = 0..(V - 1)
BY SVPAssumption, Constants

(* The next value is the first of the sequence.                            *)
LEMMA NthFirst ==
  ASSUME NEW u \in [Regular -> Value], NEW p \in Regular
  PROVE  Nth(u, p, 0) = u[p]
<1>1. PICK a \in 0..(V - 1) : a = u[p]
  BY StrideType
<1>2. PICK s \in Int : s = stride[p]
  BY StrideType
<1>3. a + s * 0 = a
  BY <1>2, Constants
<1>4. PICK b \in Int : b = a
  BY Constants
<1>5. a % V = a
  <2>1. (V * 0 + a) % V = a
    BY Constants, ModUnique
  <2>2. V * 0 + a = a
    BY Constants
  <2> QED  BY <2>1, <2>2
<1> QED  BY <1>1, <1>2, <1>3, <1>5 DEF Nth

(* When an instance retires, every other one is a step closer.             *)
LEMMA NthAdvanced ==
  ASSUME NEW u \in [Regular -> Value], NEW p \in Regular, NEW n \in Nat
  PROVE  Nth(Advanced(u, p), p, n) = Nth(u, p, n + 1)
<1>1. PICK a \in Int, s \in Int : a = u[p] /\ s = stride[p]
  BY StrideType
<1>2. Advanced(u, p)[p] = (a + s) % V
  BY <1>1 DEF Advanced
<1>3. PICK b \in Int, c \in Int : b = a + s /\ c = s * n
  OBVIOUS
<1>4. ((b % V) + c) % V = (b + c) % V
  BY Constants, ModAdd
<1>5. b + c = a + s * (n + 1)
  BY <1>3
<1> QED  BY <1>1, <1>2, <1>3, <1>4, <1>5 DEF Nth

(* The others' sequences do not move.                                      *)
LEMMA NthOthers ==
  ASSUME NEW u \in [Regular -> Value], NEW p \in Regular, NEW pc, pc # p, NEW n
  PROVE  Nth(Advanced(u, pc), p, n) = Nth(u, p, n)
BY DEF Nth, Advanced

(* An entry that has learned a sequence predicts its value.                *)
LEMMA ExtrapolatedRight ==
  ASSUME NEW u \in [Regular -> Value], NEW p \in Regular, NEW e \in Entry,
         e.stride = stride[p], (e.last_value + stride[p]) % V = u[p],
         e.instance \in Nat
  PROVE  Extrapolated(e) = Nth(u, p, e.instance)
<1>1. PICK s \in Int, l \in Int, n \in Nat :
        s = stride[p] /\ l = e.last_value /\ n = e.instance
  BY StrideType, Constants DEF Entry
<1>2. PICK b \in Int, c \in Int : b = l + s /\ c = s * n
  OBVIOUS
<1>3. ((b % V) + c) % V = (b + c) % V
  BY Constants, ModAdd
<1>4. b + c = l + s * (n + 1)
  BY <1>1, <1>2
<1>5. Extrapolated(e) = (l + s * (n + 1)) % V
  BY <1>1 DEF Extrapolated
<1>6. Nth(u, p, n) = ((b % V) + c) % V
  BY <1>1, <1>2 DEF Nth
<1> QED  BY <1>1, <1>3, <1>4, <1>5, <1>6

(* The difference of two values in a row is the stride.                    *)
LEMMA StrideFound ==
  ASSUME NEW l \in Value, NEW s \in Value, NEW b \in Int, b = (l + s) % V
  PROVE  (b - l) % V = s
<1>1. PICK a \in Int, c \in Int : a = l + s /\ c = 0 - l
  BY Constants
<1>2. ((a % V) + c) % V = (a + c) % V
  BY Constants, ModAdd
<1>3. a + c = s /\ b - l = (a % V) + c
  BY <1>1, Constants
<1>4. s % V = s
  <2>1. (V * 0 + s) % V = s
    BY Constants, ModUnique
  <2>2. V * 0 + s = s
    BY Constants
  <2> QED  BY <2>1, <2>2
<1> QED  BY <1>2, <1>3, <1>4

-----------------------------------------------------------------------------
(* The window keeps its values.                                            *)

(* The elements of v are those of w, except that branches may be done.     *)
KeptWindow(w, v) ==
  /\ Len(v) <= Len(w)
  /\ \A j \in 1..Len(v) : /\ v[j].pc = w[j].pc
                          /\ v[j].pc # NoPC => v[j] = w[j]

(* So each keeps its place and its values.                                 *)
LEMMA KeptRight ==
  ASSUME NEW u, NEW w \in Seq(Inst), NEW v \in Seq(Inst), KeptWindow(w, v),
         AllRight(u, w)
  PROVE  AllRight(u, v)
<1>1. /\ DOMAIN w = 1..Len(w) /\ DOMAIN v = 1..Len(v)
      /\ Len(v) \in Nat /\ Len(w) \in Nat /\ Len(v) <= Len(w)
  BY LenProperties DEF KeptWindow
<1>2. ASSUME NEW k \in 1..Len(v), v[k].pc \in Regular
      PROVE  RightAt(u, v, k)
  <2>1. v[k] = w[k] /\ k \in DOMAIN w
    BY <1>1, <1>2, SVPAssumption DEF KeptWindow
  <2>2. PICK n \in Nat : n = k - 1
    BY <1>1
  <2>3. \A j \in 1..n : v[j].pc = w[j].pc
    BY <1>1, <2>2 DEF KeptWindow
  <2>4. PICK p : p = v[k].pc
    OBVIOUS
  <2>5. Same(v, n, p) = Same(w, n, p)
    BY <2>3, SamePCs
  <2>6. RightAt(u, w, k)
    BY <2>1 DEF AllRight
  <2> QED  BY <2>1, <2>2, <2>4, <2>5, <2>6 DEF RightAt
<1>3. \A k \in 1..Len(v) : RightAt(u, v, k)
  BY <1>2 DEF RightAt
<1> QED  BY <1>1, <1>3 DEF AllRight

(* A new instruction x at the tail, with nothing computed yet, is right if *)
(* its prediction is.                                                      *)
LEMMA AppendRight ==
  ASSUME NEW u, NEW w \in Seq(Inst), NEW x \in Inst, AllRight(u, w), ~x.done,
         x.pc \in Regular /\ x.predicted =>
           x.pred_value = Nth(u, x.pc, Cardinality(Same(w, Len(w), x.pc)))
  PROVE  AllRight(u, Append(w, x))
<1>1. PICK v \in Seq(Inst) : v = Append(w, x)
  BY AppendProperties
<1>2. PICK n \in Nat : n = Len(w)
  BY LenProperties
<1>3. /\ DOMAIN w = 1..n /\ DOMAIN v = 1..(n + 1)
      /\ \A j \in 1..n : v[j] = w[j]
      /\ v[n + 1] = x
  BY <1>1, <1>2, AppendProperties, LenProperties
<1>4. ASSUME NEW k \in 1..n
      PROVE  RightAt(u, v, k)
  <2>1. PICK m \in Nat : m = k - 1
    OBVIOUS
  <2>2. \A j \in 1..m : v[j].pc = w[j].pc
    BY <1>3, <2>1
  <2>3. PICK p : p = v[k].pc
    OBVIOUS
  <2>4. Same(v, m, p) = Same(w, m, p)
    BY <2>2, SamePCs
  <2>5. RightAt(u, w, k) /\ v[k] = w[k]
    BY <1>3 DEF AllRight
  <2> QED  BY <2>1, <2>3, <2>4, <2>5 DEF RightAt
<1>5. RightAt(u, v, n + 1)
  <2>1. PICK p : p = x.pc
    OBVIOUS
  <2>2. \A j \in 1..n : v[j].pc = w[j].pc
    BY <1>3
  <2>3. Same(v, n, p) = Same(w, n, p)
    BY <2>2, SamePCs
  <2>4. (n + 1) - 1 = n
    OBVIOUS
  <2> QED  BY <1>2, <1>3, <2>1, <2>3, <2>4 DEF RightAt
<1>6. \A k \in DOMAIN v : RightAt(u, v, k)
  <2>1. \A k \in 1..(n + 1) : k \in 1..n \/ k = n + 1
    OBVIOUS
  <2> QED  BY <1>3, <1>4, <1>5, <2>1
<1> QED  BY <1>1, <1>6 DEF AllRight

(* When the head retires, each instruction is one instance closer to its   *)
(* value if the head had its PC, and its sequence has moved by one.        *)
LEMMA PoppedRight ==
  ASSUME NEW u \in [Regular -> Value], NEW w \in Seq(Inst), NEW v \in Seq(Inst),
         1 \in DOMAIN w, Popped(w, v), AllRight(u, w)
  PROVE  AllRight(Advanced(u, w[1].pc), v)
<1>1. PICK n \in Nat : n = Len(v) /\ Len(w) = n + 1
  BY LenProperties DEF Popped
<1>2. /\ DOMAIN v = 1..n /\ DOMAIN w = 1..(n + 1)
      /\ \A j \in 1..n : v[j] = w[j + 1]
  BY <1>1, LenProperties DEF Popped
<1>3. ASSUME NEW k \in 1..n, v[k].pc \in Regular
      PROVE  RightAt(Advanced(u, w[1].pc), v, k)
  <2>1. PICK m \in Nat : m = k - 1
    OBVIOUS
  <2>2. PICK p \in Regular : p = v[k].pc
    BY <1>3
  <2>3. v[k] = w[k + 1] /\ k + 1 \in DOMAIN w /\ (k + 1) - 1 = m + 1
    BY <1>2, <2>1
  <2>4. Cardinality(Same(v, m, p)) =
          IF w[1].pc = p THEN Cardinality(Same(w, m + 1, p)) - 1
                         ELSE Cardinality(Same(w, m + 1, p))
    <3>1. \A j \in 1..m : v[j] = w[j + 1]
      BY <1>2, <2>1
    <3> QED  BY <3>1, SameTail
  <2>5. Cardinality(Same(v, m, p)) \in Nat
    BY SameFinite
  <2>6. Nth(Advanced(u, w[1].pc), p, Cardinality(Same(v, m, p)))
          = Nth(u, p, Cardinality(Same(w, m + 1, p)))
    <3>1. CASE w[1].pc = p
      <4>1. PICK c \in Nat : c = Cardinality(Same(v, m, p))
        BY <2>5
      <4>2. Cardinality(Same(w, m + 1, p)) \in Nat
        <5>1. m + 1 \in Nat
          OBVIOUS
        <5> QED  BY <5>1, SameFinite
      <4>3. Cardinality(Same(w, m + 1, p)) = c + 1
        BY <3>1, <4>1, <4>2, <2>4
      <4>4. Nth(Advanced(u, p), p, c) = Nth(u, p, c + 1)
        BY NthAdvanced
      <4> QED  BY <3>1, <4>1, <4>3, <4>4
    <3>2. CASE w[1].pc # p
      BY <3>2, <2>4, NthOthers
    <3> QED  BY <3>1, <3>2
  <2>7. RightAt(u, w, k + 1)
    BY <2>3 DEF AllRight
  <2> QED  BY <2>1, <2>2, <2>3, <2>6, <2>7 DEF RightAt
<1>4. \A k \in 1..n : RightAt(Advanced(u, w[1].pc), v, k)
  BY <1>3 DEF RightAt
<1> QED  BY <1>2, <1>4 DEF AllRight

-----------------------------------------------------------------------------
(* Every step keeps what is right.                                         *)

(* What training has put into an entry: all but the instance counter.      *)
SameTraining(e, f) ==
  /\ f.tag = e.tag /\ f.last_value = e.last_value
  /\ f.stride = e.stride /\ f.confidence = e.confidence

(* Counting instances learns and forgets nothing.                          *)
LEMMA LearnedSame ==
  ASSUME NEW u, NEW t, NEW s, \A i \in Index : SameTraining(t[i], s[i]),
         AllLearned(u, t)
  PROVE  AllLearned(u, s)
<1>1. ASSUME NEW p \in Regular
      PROVE  Learned(u, s[index[p]], p)
  <2>1. index[p] \in Index
    BY SVPAssumption, Constants
  <2>2. PICK e, f : e = t[index[p]] /\ f = s[index[p]]
    OBVIOUS
  <2>3. SameTraining(e, f) /\ Learned(u, e, p)
    BY <2>1, <2>2 DEF AllLearned
  <2>4. Learned(u, f, p)
    BY <2>3 DEF SameTraining, Learned
  <2> QED  BY <2>2, <2>4
<1> QED  BY <1>1 DEF AllLearned

(* Rename2 and the branches change instance counters only.                 *)
LEMMA CountingOnly ==
  ASSUME TypeOK, \/ \E pc \in PC : RenameEligible(pc)
                 \/ \E k \in 1..MaxWindow : Mispredict(k)
  PROVE  \A i \in Index : SameTraining(SVP_table[i], SVP_table'[i])
<1> SUFFICES ASSUME NEW i \in Index
             PROVE  SameTraining(SVP_table[i], SVP_table'[i])
  OBVIOUS
<1>1. SVP_table[i] \in Entry /\ SVP_table \in [Index -> Entry]
  BY EntryFields DEF TypeOK
<1>2. PICK n : SVP_table'[i] = [SVP_table[i] EXCEPT !.instance = n]
                 \/ SVP_table'[i] = SVP_table[i]
  <2>1. ASSUME NEW pc \in PC, RenameEligible(pc)
        PROVE  SVP_table'[i] = [SVP_table[i] EXCEPT !.instance = @ + 1]
                 \/ SVP_table'[i] = SVP_table[i]
    <3>1. SVP_table' = IF search(pc)
                        THEN [SVP_table EXCEPT ![index[pc]].instance = @ + 1]
                        ELSE SVP_table
      BY <2>1 DEF RenameEligible
    <3> QED  BY <3>1, <1>1
  <2>2. ASSUME NEW k \in 1..MaxWindow, Mispredict(k)
        PROVE  \E n : SVP_table'[i] = [SVP_table[i] EXCEPT !.instance = n]
    <3>1. SVP_table' = [j \in Index |->
            [SVP_table[j] EXCEPT !.instance = @ - Cardinality(
               {s \in RolledBack(window[k].at) :
                  index[VPQ[s].pc] = j /\ search(VPQ[s].pc)})]]
      BY <2>2 DEF Mispredict
    <3> QED  BY <3>1
  <2> QED  BY <2>1, <2>2
<1> QED  BY <1>1, <1>2 DEF SameTraining, Entry

(* A confident prediction of a regular PC is right when it is made.        *)
LEMMA PredictionRight ==
  ASSUME NoAliases, confmax > 1, QueueInv, InstanceExact, StrideInv,
         NEW p \in Regular, get_confidence(p) = confmax
  PROVE  Prediction(p) = Nth(upcoming, p, Cardinality(Same(window, Len(window), p)))
<1>1. p \in PC /\ index[p] \in Index
  BY StrideType, Constants, SVPAssumption
<1>2. window \in Seq(Inst) /\ upcoming \in [Regular -> Value] /\ TypeOK
  BY DEF QueueInv, TypeOK
<1>3. PICK e \in Entry : e = SVP_table[index[p]]
  BY <1>1, <1>2, EntryFields
<1>4. e.confidence \in 0..confmax /\ confmax \in Nat
  BY Constants DEF Entry
<1>5. search(p) /\ e.confidence = confmax
  BY <1>3, Constants DEF get_confidence
<1>6. e.tag = tag[p]
  BY <1>3, <1>5 DEF search
<1>7. Learned(upcoming, e, p)
  BY <1>3 DEF StrideInv, AllLearned
<1>8. e.stride = stride[p] /\ (e.last_value + stride[p]) % V = upcoming[p]
  BY <1>5, <1>6, <1>7, Constants DEF Learned
<1>9. e.instance = Cardinality(Same(window, Len(window), p))
  BY <1>1, <1>2, <1>3, <1>5, InstanceInFlight, InFlightSame
<1>10. e.instance \in Nat
  BY <1>2, <1>9, LenProperties, SameFinite
<1>11. Extrapolated(e) = Nth(upcoming, p, e.instance)
  BY <1>2, <1>8, <1>10, ExtrapolatedRight
<1> QED  BY <1>3, <1>5, <1>9, <1>11 DEF Prediction

(* Rename2 of an eligible instruction.                                     *)
LEMMA RenameRight ==
  ASSUME NoAliases, confmax > 1, QueueInv, InstanceExact, StrideInv,
         NEW pc \in PC, RenameEligible(pc)
  PROVE  StrideInv'
<1>1. window' = Append(window, NewInst(pc)) /\ upcoming' = upcoming
  BY DEF RenameEligible, NewInst, Prediction
<1>2. TypeOK /\ window \in Seq(Inst)
  BY DEF QueueInv, TypeOK
<1>3. PICK x \in Inst : x = NewInst(pc)
  BY <1>2, NewInstType
<1>4. x.pc = pc /\ ~x.done /\ x.pred_value = Prediction(pc)
      /\ (x.predicted <=> get_confidence(pc) = confmax)
  BY <1>3 DEF NewInst
<1>5. AllRight(upcoming, Append(window, x))
  BY <1>2, <1>4, PredictionRight, AppendRight DEF StrideInv
<1>6. AllLearned(upcoming, SVP_table')
  BY <1>2, CountingOnly, LearnedSame DEF StrideInv
<1> QED  BY <1>1, <1>3, <1>5, <1>6 DEF StrideInv

(* Writeback and load replay of the k-th instruction.                      *)
LEMMA CompleteRight ==
  ASSUME QueueInv, StrideInv, NEW k \in 1..MaxWindow, NEW v \in Value, Complete(k, v)
  PROVE  StrideInv'
<1>1. /\ k \in DOMAIN window /\ v \in Computes(k) /\ window \in Seq(Inst)
      /\ window' = [window EXCEPT ![k].done = TRUE, ![k].value = v]
      /\ SVP_table' = SVP_table /\ upcoming' = upcoming
  BY DEF Complete, QueueInv, TypeOK
<1>2. window[k] \in Inst /\ k \in 1..Len(window) /\ Len(window) \in Nat
  BY <1>1, InstFields
<1>3. PICK x \in Inst : x = [window[k] EXCEPT !.done = TRUE, !.value = v]
  BY <1>2 DEF Inst
<1>4. /\ x.pc = window[k].pc /\ x.value = v
      /\ x.predicted = window[k].predicted /\ x.pred_value = window[k].pred_value
  BY <1>2, <1>3 DEF Inst
<1>5. window' = [window EXCEPT ![k] = x]
  BY <1>1, <1>3
<1>6. /\ DOMAIN window' = DOMAIN window /\ DOMAIN window = 1..Len(window)
      /\ window'[k] = x
      /\ \A j \in DOMAIN window : j # k => window'[j] = window[j]
  BY <1>1, <1>2, <1>5, LenProperties
<1>7. \A j \in DOMAIN window : window'[j].pc = window[j].pc
  BY <1>4, <1>6
<1>8. ASSUME NEW j \in DOMAIN window, window[j].pc \in Regular
      PROVE  RightAt(upcoming, window', j)
  <2>1. PICK n \in Nat : n = j - 1
    BY <1>6
  <2>2. PICK p : p = window[j].pc
    OBVIOUS
  <2>3. \A i \in 1..n : window'[i].pc = window[i].pc
    BY <1>2, <1>6, <1>7, <2>1
  <2>4. Same(window', n, p) = Same(window, n, p)
    BY <2>3, SamePCs
  <2>5. RightAt(upcoming, window, j)
    BY DEF StrideInv, AllRight
  <2>6. CASE j # k
    BY <2>1, <2>2, <2>4, <2>5, <2>6, <1>6 DEF RightAt
  <2>7. CASE j = k
    <3>1. OlderInstances(k) = Same(window, n, p)
      BY <2>1, <2>2, <2>7 DEF OlderInstances, Same
    <3>2. v = Nth(upcoming, p, Cardinality(Same(window, n, p)))
      BY <1>1, <1>8, <2>2, <2>7, <3>1 DEF Computes, Nth
    <3> QED  BY <2>1, <2>2, <2>4, <2>5, <2>7, <3>2, <1>4, <1>6 DEF RightAt
  <2> QED  BY <2>6, <2>7
<1>9. AllRight(upcoming, window')
  BY <1>6, <1>7, <1>8 DEF AllRight, RightAt
<1> QED  BY <1>1, <1>9 DEF StrideInv

(* The branches keep the window they leave.                                *)
LEMMA BranchesRight ==
  ASSUME QueueInv, StrideInv,
         \/ \E k \in 1..MaxWindow : ResolveCorrect(k)
         \/ \E k \in 1..MaxWindow : Mispredict(k)
  PROVE  StrideInv'
<1>1. window \in Seq(Inst) /\ TypeOK
  BY DEF QueueInv, TypeOK
<1>2. ASSUME NEW k \in 1..MaxWindow, ResolveCorrect(k)
      PROVE  StrideInv'
  <2>1. /\ k \in DOMAIN window /\ window[k].pc = NoPC
        /\ window' = [window EXCEPT ![k].done = TRUE]
        /\ SVP_table' = SVP_table /\ upcoming' = upcoming
    BY <1>2 DEF ResolveCorrect, OpenBranch
  <2>2. DoneAt(window, window', k)
    BY <1>1, <2>1, DoneAtHolds
  <2>3. KeptWindow(window, window') /\ window' \in Seq(Inst)
    BY <1>1, <2>1, <2>2, LenProperties DEF DoneAt, KeptWindow
  <2>4. AllRight(upcoming, window')
    BY <1>1, <2>3, KeptRight DEF StrideInv
  <2> QED  BY <2>1, <2>4 DEF StrideInv
<1>3. ASSUME NEW k \in 1..MaxWindow, Mispredict(k)
      PROVE  StrideInv'
  <2>1. /\ k \in DOMAIN window /\ window[k].pc = NoPC
        /\ window' \in Seq(Inst) /\ Len(window') = k /\ window'[k].pc = NoPC
        /\ \A j \in 1..(k - 1) : window'[j] = window[j]
    BY <1>3, MispredictWindow
  <2>2. KeptWindow(window, window')
    BY <1>1, <2>1, LenProperties DEF KeptWindow
  <2>3. AllRight(upcoming, window')
    BY <1>1, <2>1, <2>2, KeptRight DEF StrideInv
  <2>4. AllLearned(upcoming, SVP_table') /\ upcoming' = upcoming
    <3>1. upcoming' = upcoming
      BY <1>3 DEF Mispredict
    <3> QED  BY <3>1, <1>1, <1>3, CountingOnly, LearnedSame DEF StrideInv
  <2> QED  BY <2>3, <2>4 DEF StrideInv
<1> QED  BY <1>2, <1>3

(* Training with the value of a regular PC learns its sequence.            *)
LEMMA UpdateLearns ==
  ASSUME TypeOK, NEW p \in Regular, NEW e \in Entry, Learned(upcoming, e, p)
  PROVE  /\ Learned(Advanced(upcoming, p), update_SVP(e, upcoming[p]), p)
         /\ Learned(Advanced(upcoming, p), install_SVP(p, upcoming[p]), p)
<1>1. /\ upcoming \in [Regular -> Value] /\ p \in PC
      /\ upcoming[p] \in Value /\ upcoming[p] \in Int
      /\ stride[p] \in Value /\ stride[p] \in Int
  BY StrideType DEF TypeOK
<1>2. PICK val \in Value : val = upcoming[p]
  BY <1>1
<1>3. Advanced(upcoming, p)[p] = (val + stride[p]) % V
  BY <1>1, <1>2 DEF Advanced
<1>4. PICK f \in Entry : f = update_SVP(e, val)
  BY <1>1, TrainedEntry
<1>5. /\ f.tag = e.tag /\ f.last_value = val /\ f.stride = (val - e.last_value) % V
      /\ f.confidence = IF (val - e.last_value) % V # e.stride
                          THEN 0 ELSE Saturate(e.confidence)
  BY <1>1, <1>4, TrainedEntry
<1>6. ASSUME f.tag = tag[p], f.confidence > 1
      PROVE  f.stride = stride[p]
  <2>1. /\ (val - e.last_value) % V = e.stride
        /\ f.confidence = Saturate(e.confidence)
    BY <1>5, <1>6
  <2>2. e.confidence > 0
    BY <1>6, <2>1, Constants DEF Saturate, Entry
  <2>3. (e.last_value + stride[p]) % V = val
    BY <1>2, <1>5, <1>6, <2>2 DEF Learned
  <2>4. e.last_value \in Value /\ val \in Int
    BY <1>1, <1>2 DEF Entry
  <2>5. (val - e.last_value) % V = stride[p]
    BY <1>1, <2>3, <2>4, StrideFound
  <2> QED  BY <1>5, <2>5
<1>7. Learned(Advanced(upcoming, p), f, p)
  BY <1>3, <1>5, <1>6 DEF Learned
<1>8. Learned(Advanced(upcoming, p), install_SVP(p, val), p)
  BY DEF Learned, install_SVP
<1> QED  BY <1>2, <1>4, <1>7, <1>8

(* The head trains its own PC only: the entry it takes from another PC no  *)
(* longer carries that PC's tag.                                           *)
LEMMA RetiredLearned ==
  ASSUME NoAliases, QueueInv, StrideInv,
         window # <<>>, window[1].pc # NoPC, window[1].done
  PROVE  AllLearned(Advanced(upcoming, window[1].pc), retired_table)
<1>1. /\ TypeOK /\ SVP_table \in [Index -> Entry]
      /\ upcoming \in [Regular -> Value] /\ window \in Seq(Inst)
  BY DEF QueueInv, TypeOK
<1>2. /\ 1 \in DOMAIN window /\ VPQ[VPQ_head].pc = window[1].pc
      /\ window[1].pc \in PC /\ VPQ[VPQ_head].val = window[1].value
  BY HeadPlace
<1>3. PICK pc \in PC, val \in Value : pc = window[1].pc /\ val = window[1].value
  BY <1>1, <1>2, InstFields
<1>4. PICK e \in Entry : e = SVP_table[index[pc]]
  BY <1>1, Constants
<1>5. PICK f \in Entry :
        f = IF search(pc) THEN update_SVP(e, val) ELSE install_SVP(pc, val)
  BY TrainedEntry
<1>6. retired_table = [SVP_table EXCEPT ![index[pc]] = f]
  BY <1>2, <1>3, <1>4, <1>5 DEF retired_table
<1>7. f.tag = tag[pc]
  <2>1. CASE search(pc)
    BY <2>1, <1>4, <1>5, TrainedEntry DEF search
  <2>2. CASE ~search(pc)
    BY <2>2, <1>5 DEF install_SVP
  <2> QED  BY <2>1, <2>2
<1>8. pc \in Regular => val = upcoming[pc]
  <2> SUFFICES ASSUME pc \in Regular
               PROVE  val = upcoming[pc]
    OBVIOUS
  <2>1. RightAt(upcoming, window, 1)
    BY <1>2 DEF StrideInv, AllRight
  <2>2. Same(window, 1 - 1, pc) = {}
    BY DEF Same
  <2>3. Cardinality(Same(window, 1 - 1, pc)) = 0
    BY <2>2, FS_EmptySet
  <2>4. val = Nth(upcoming, pc, 0)
    BY <1>3, <2>1, <2>3 DEF RightAt
  <2> QED  BY <1>1, <2>4, NthFirst
<1>9. ASSUME NEW p \in Regular
      PROVE  Learned(Advanced(upcoming, pc), retired_table[index[p]], p)
  <2>1. p \in PC /\ index[p] \in Index
    BY StrideType, SVPAssumption, Constants
  <2>2. Learned(upcoming, SVP_table[index[p]], p)
    BY DEF StrideInv, AllLearned
  <2>3. CASE p = pc
    <3>1. retired_table[index[p]] = f
      BY <1>1, <1>6, <2>1, <2>3
    <3>2. /\ Learned(Advanced(upcoming, p), update_SVP(e, upcoming[p]), p)
          /\ Learned(Advanced(upcoming, p), install_SVP(p, upcoming[p]), p)
      BY <1>1, <1>4, <2>2, <2>3, UpdateLearns
    <3>3. CASE search(pc)
      BY <3>1, <3>2, <3>3, <1>5, <1>8, <2>3
    <3>4. CASE ~search(pc)
      BY <3>1, <3>2, <3>4, <1>5, <1>8, <2>3
    <3> QED  BY <3>3, <3>4
  <2>4. CASE p # pc /\ index[p] = index[pc]
    <3>1. retired_table[index[p]] = f
      BY <1>1, <1>6, <2>1, <2>4
    <3>2. tag[p] # tag[pc]
      BY <2>1, <2>4 DEF NoAliases
    <3> QED  BY <3>1, <3>2, <1>7 DEF Learned
  <2>5. CASE p # pc /\ index[p] # index[pc]
    <3>1. retired_table[index[p]] = SVP_table[index[p]]
      BY <1>1, <1>6, <2>1, <2>5
    <3>2. Advanced(upcoming, pc)[p] = upcoming[p]
      BY <2>5 DEF Advanced
    <3> QED  BY <3>1, <3>2, <2>2 DEF Learned
  <2> QED  BY <2>3, <2>4, <2>5
<1> QED  BY <1>3, <1>9 DEF AllLearned

(* A squash empties the window and counts nothing.                         *)
LEMMA RollbackRight ==
  ASSUME NEW table \in [Index -> Entry], AllLearned(upcoming', table),
         full_rollback(table)
  PROVE  StrideInv'
<1>1. /\ SVP_table' = [i \in Index |-> [table[i] EXCEPT !.instance = 0]]
      /\ window' = <<>>
  BY DEF full_rollback
<1>2. \A i \in Index : SameTraining(table[i], SVP_table'[i])
  BY <1>1 DEF SameTraining, Entry
<1>3. AllLearned(upcoming', SVP_table')
  BY <1>2, LearnedSame
<1>4. AllRight(upcoming', window')
  BY <1>1 DEF AllRight
<1> QED  BY <1>3, <1>4 DEF StrideInv

(* Retirement of an eligible instruction.                                  *)
LEMMA RetireRight ==
  ASSUME NoAliases, QueueInv, StrideInv, NEW v \in Value, RetireEligible(v)
  PROVE  StrideInv'
<1>1. /\ window # <<>> /\ Head(window) = window[1] /\ 1 \in DOMAIN window
      /\ window[1].pc # NoPC /\ window[1].done /\ Popped(window, Tail(window))
      /\ Tail(window) \in Seq(Inst)
  BY HeadPlace DEF RetireEligible, HeadDone, Popped
<1>2. upcoming' = Advanced(upcoming, window[1].pc)
  BY <1>1 DEF RetireEligible, Advanced
<1>3. AllLearned(upcoming', retired_table)
  BY <1>1, <1>2, RetiredLearned
<1>4. retired_table \in [Index -> Entry]
  BY <1>1, RetiredTable
<1>5. CASE full_rollback(retired_table)
  BY <1>3, <1>4, <1>5, RollbackRight
<1>6. CASE SVP_table' = retired_table /\ window' = Tail(window)
  <2>1. window \in Seq(Inst) /\ upcoming \in [Regular -> Value]
    BY DEF QueueInv, TypeOK
  <2>2. AllRight(upcoming', window')
    BY <1>1, <1>2, <1>6, <2>1, PoppedRight DEF StrideInv
  <2> QED  BY <1>3, <1>6, <2>2 DEF StrideInv
<1> QED  BY <1>5, <1>6 DEF RetireEligible

(* Retirement of a branch.                                                 *)
LEMMA RetireBranchRight ==
  ASSUME QueueInv, StrideInv, RetireBranch
  PROVE  StrideInv'
<1>1. /\ window # <<>> /\ Head(window) = window[1] /\ 1 \in DOMAIN window
      /\ window[1].pc = NoPC /\ Popped(window, Tail(window))
      /\ Tail(window) \in Seq(Inst) /\ window' = Tail(window)
      /\ SVP_table' = SVP_table /\ upcoming' = upcoming
  BY HeadPlace DEF RetireBranch, HeadDone, Popped
<1>2. window \in Seq(Inst) /\ upcoming \in [Regular -> Value]
  BY DEF QueueInv, TypeOK
<1>3. Advanced(upcoming, window[1].pc) = upcoming
  BY <1>1, SVPAssumption DEF Advanced
<1>4. AllRight(upcoming, window')
  BY <1>1, <1>2, <1>3, PoppedRight DEF StrideInv
<1> QED  BY <1>1, <1>4 DEF StrideInv

(* Every step keeps what is right.                                         *)
LEMMA StrideStep ==
  ASSUME NoAliases, confmax > 1, QueueInv, InstanceExact, StrideInv, [Next]_vars
  PROVE  StrideInv'
<1>1. CASE UNCHANGED vars
  BY <1>1 DEF vars, StrideInv
<1>2. CASE \E pc \in PC : RenameEligible(pc)
  BY <1>2, RenameRight
<1>3. CASE RenameBranch
  <2>1. window' = Append(window, NewBranch) /\ SVP_table' = SVP_table /\ upcoming' = upcoming
    BY <1>3 DEF RenameBranch, NewBranch
  <2>2. TypeOK /\ window \in Seq(Inst)
    BY DEF QueueInv, TypeOK
  <2>3. PICK x \in Inst : x = NewBranch
    <3>1. checkpoint \in Slot \X BOOLEAN
      BY <2>2 DEF checkpoint, TypeOK
    <3> QED  BY <3>1, Constants DEF NewBranch, Inst
  <2>4. x.pc \notin Regular /\ ~x.done
    BY <2>3, SVPAssumption DEF NewBranch
  <2>5. AllRight(upcoming, Append(window, x))
    BY <2>2, <2>4, AppendRight DEF StrideInv
  <2> QED  BY <2>1, <2>3, <2>5 DEF StrideInv
<1>4. CASE \E k \in 1..MaxWindow, v \in Value : Complete(k, v)
  BY <1>4, CompleteRight
<1>5. CASE \/ \E k \in 1..MaxWindow : ResolveCorrect(k)
           \/ \E k \in 1..MaxWindow : Mispredict(k)
  BY <1>5, BranchesRight
<1>6. CASE \E v \in Value : RetireEligible(v)
  BY <1>6, RetireRight
<1>7. CASE RetireBranch
  BY <1>7, RetireBranchRight
<1>8. CASE RetireSquash
  <2>1. full_rollback(SVP_table) /\ upcoming' = upcoming
    BY <1>8 DEF RetireSquash
  <2>2. SVP_table \in [Index -> Entry]
    BY DEF QueueInv, TypeOK
  <2> QED  BY <2>1, <2>2, RollbackRight DEF StrideInv
<1> QED
  BY <1>1, <1>2, <1>3, <1>4, <1>5, <1>6, <1>7, <1>8 DEF Next

(* A confident prediction for a PC that produces an arithmetic sequence is *)
(* the value the instruction computes, when no two PCs share index and tag *)
(* and confidence takes more than one repetition: with confmax = 1 the     *)
(* first value after a new entry would already be trusted (SVP.cc          *)
(* get_confidence, install_SVP, update_SVP).                               *)
THEOREM ConfidentRight ==
  NoAliases /\ confmax > 1 => (Spec => []ConfidentStrideIsRight)
<1> SUFFICES ASSUME NoAliases, confmax > 1
             PROVE  Spec => []ConfidentStrideIsRight
  OBVIOUS
<1>1. Init => StrideInv
  <2> SUFFICES ASSUME Init
               PROVE  StrideInv
    OBVIOUS
  <2>1. AllLearned(upcoming, SVP_table)
    <3>1. \A p \in Regular : SVP_table[index[p]].confidence = 0
      BY SVPAssumption, Constants DEF Init
    <3> QED  BY <3>1 DEF AllLearned, Learned
  <2>2. AllRight(upcoming, window)
    BY DEF Init, AllRight
  <2> QED  BY <2>1, <2>2 DEF StrideInv
<1>2. QueueInv /\ InstanceExact /\ StrideInv /\ [Next]_vars => StrideInv'
  BY StrideStep
<1>3. QueueInv /\ StrideInv => ConfidentStrideIsRight
  <2> SUFFICES ASSUME QueueInv, StrideInv, NEW k \in DOMAIN window,
                      window[k].predicted, window[k].pc \in Regular
               PROVE  window[k].pred_value \in Computes(k)
    BY DEF ConfidentStrideIsRight
  <2>1. RightAt(upcoming, window, k)
    BY DEF StrideInv, AllRight
  <2>2. OlderInstances(k) = Same(window, k - 1, window[k].pc)
    BY DEF OlderInstances, Same
  <2> QED  BY <2>1, <2>2 DEF RightAt, Computes, Nth
<1>4. Spec => []InstanceExact
  BY InstancesExact
<1> QED  BY <1>1, <1>2, <1>3, <1>4, QueueInvariant, PTL DEF Spec

-----------------------------------------------------------------------------
(* The refinement of StrideSpec.                                           *)

(* What StrideSpec keeps of an instruction, a window, an entry and a table *)
FlightOf(x) == [pc |-> x.pc, pred_value |-> x.pred_value,
                predicted |-> x.predicted, open |-> x.pc = NoPC /\ ~x.done]
FlightFor(w) == [k \in DOMAIN w |-> FlightOf(w[k])]
TrainedOf(e) == [tag |-> e.tag, last_value |-> e.last_value,
                 stride |-> e.stride, confidence |-> e.confidence]
TrainedFor(t) == [i \in Index |-> TrainedOf(t[i])]

FlightInst == [pc : PC \cup {NoPC}, pred_value : Value,
               predicted : BOOLEAN, open : BOOLEAN]

(* The abstract variables are these images of the window and the table.    *)
LEMMA AbstractVariables ==
  /\ Flight = FlightFor(window) /\ Flight' = FlightFor(window')
  /\ Trained = TrainedFor(SVP_table) /\ Trained' = TrainedFor(SVP_table')
<1>1. Flight = FlightFor(window)
  BY DEF Flight, FlightFor, FlightOf, OpenBranch
<1>2. Flight' = FlightFor(window')
  BY DEF Flight, FlightFor, FlightOf, OpenBranch
<1>3. Trained = TrainedFor(SVP_table) /\ Trained' = TrainedFor(SVP_table')
  BY DEF Trained, TrainedFor, TrainedOf
<1> QED  BY <1>1, <1>2, <1>3

(* The PC of an abstract instruction, and whether it is an open branch.    *)
LEMMA FlightFields ==
  ASSUME NEW x, NEW b, b = (x.pc = NoPC /\ ~x.done)
  PROVE  FlightOf(x).pc = x.pc /\ FlightOf(x).open = b
<1>1. FlightOf(x) = [pc |-> x.pc, pred_value |-> x.pred_value,
                     predicted |-> x.predicted, open |-> b]
  BY Zenon DEF FlightOf
<1> QED  BY <1>1

(* The abstract window is a sequence of as many instructions.              *)
LEMMA FlightSequence ==
  ASSUME NEW w \in Seq(Inst)
  PROVE  /\ FlightFor(w) \in Seq(FlightInst)
         /\ Len(FlightFor(w)) = Len(w) /\ Len(w) \in Nat
         /\ DOMAIN FlightFor(w) = 1..Len(w) /\ DOMAIN w = 1..Len(w)
         /\ \A k \in 1..Len(w) : /\ FlightFor(w)[k] = FlightOf(w[k])
                                 /\ FlightOf(w[k]) \in FlightInst
<1>1. PICK n \in Nat : n = Len(w) /\ DOMAIN w = 1..n
  BY LenProperties
<1>2. ASSUME NEW k \in 1..n
      PROVE  FlightOf(w[k]) \in FlightInst
  <2>1. (w[k].pc = NoPC /\ ~w[k].done) \in BOOLEAN
    OBVIOUS
  <2> QED  BY <1>1, <2>1, InstFields DEF FlightOf, FlightInst
<1>3. FlightFor(w) = [k \in 1..n |-> FlightOf(w[k])]
  BY <1>1 DEF FlightFor
<1>4. FlightFor(w) \in Seq(FlightInst)
  BY <1>2, <1>3, IsASeq
<1>5. Len(FlightFor(w)) = n
  BY <1>3, <1>4, LenProperties
<1> QED  BY <1>1, <1>2, <1>3, <1>4, <1>5

(* A new instruction goes to the end of both windows.                      *)
LEMMA FlightAppend ==
  ASSUME NEW w \in Seq(Inst), NEW x \in Inst, FlightOf(x) \in FlightInst
  PROVE  FlightFor(Append(w, x)) = Append(FlightFor(w), FlightOf(x))
<1>1. PICK v \in Seq(Inst) : v = Append(w, x)
  BY AppendProperties
<1>2. PICK n \in Nat : n = Len(w)
  BY LenProperties
<1>3. Len(v) = n + 1 /\ v[n + 1] = x /\ \A k \in 1..n : v[k] = w[k]
  BY <1>1, <1>2, AppendProperties
<1>4. /\ FlightFor(w) \in Seq(FlightInst) /\ Len(FlightFor(w)) = n
      /\ \A k \in 1..n : FlightFor(w)[k] = FlightOf(w[k])
  BY <1>2, FlightSequence
<1>5. /\ FlightFor(v) \in Seq(FlightInst) /\ Len(FlightFor(v)) = n + 1
      /\ \A k \in 1..(n + 1) : FlightFor(v)[k] = FlightOf(v[k])
  BY <1>3, FlightSequence
<1>6. PICK a \in Seq(FlightInst) : a = Append(FlightFor(w), FlightOf(x))
  BY <1>4, AppendProperties
<1>7. /\ Len(a) = n + 1 /\ a[n + 1] = FlightOf(x)
      /\ \A k \in 1..n : a[k] = FlightOf(w[k])
  BY <1>4, <1>6, AppendProperties
<1>8. \A k \in 1..(n + 1) : FlightFor(v)[k] = a[k]
  <2>1. \A k \in 1..(n + 1) : k \in 1..n \/ k = n + 1
    OBVIOUS
  <2> QED  BY <2>1, <1>3, <1>5, <1>7
<1>9. FlightFor(v) = a
  BY <1>5, <1>7, <1>8, SeqEqual
<1> QED  BY <1>1, <1>6, <1>9

(* The oldest instruction leaves both.                                     *)
LEMMA FlightTail ==
  ASSUME NEW w \in Seq(Inst), w # <<>>
  PROVE  /\ FlightFor(w) # <<>> /\ Head(FlightFor(w)) = FlightOf(w[1])
         /\ FlightFor(Tail(w)) = Tail(FlightFor(w))
<1>1. PICK v \in Seq(Inst) : v = Tail(w)
  BY HeadTailProperties
<1>2. PICK n \in Nat : n = Len(v) /\ Len(w) = n + 1
  BY <1>1, HeadTailProperties, LenProperties
<1>3. \A k \in 1..n : v[k] = w[k + 1]
  BY <1>1, <1>2, HeadTailProperties
<1>4. PICK f \in Seq(FlightInst) : f = FlightFor(w)
  BY FlightSequence
<1>5. Len(f) = n + 1 /\ \A k \in 1..(n + 1) : f[k] = FlightOf(w[k])
  BY <1>2, <1>4, FlightSequence
<1>6. f # <<>> /\ Head(f) = FlightOf(w[1])
  BY <1>5, EmptySeq
<1>7. /\ Tail(f) \in Seq(FlightInst) /\ Len(Tail(f)) = n
      /\ \A k \in 1..n : Tail(f)[k] = f[k + 1]
  BY <1>5, <1>6, HeadTailProperties
<1>8. /\ FlightFor(v) \in Seq(FlightInst) /\ Len(FlightFor(v)) = n
      /\ \A k \in 1..n : FlightFor(v)[k] = FlightOf(v[k])
  BY <1>2, FlightSequence
<1>9. \A k \in 1..n : FlightFor(v)[k] = Tail(f)[k]
  BY <1>3, <1>5, <1>7, <1>8
<1>10. FlightFor(v) = Tail(f)
  BY <1>7, <1>8, <1>9, SeqEqual
<1> QED  BY <1>1, <1>4, <1>6, <1>10

(* The first elements of a sequence.                                       *)
LEMMA Prefix ==
  ASSUME NEW S, NEW g \in Seq(S), NEW n \in 1..Len(g)
  PROVE  /\ SubSeq(g, 1, n) \in Seq(S) /\ Len(SubSeq(g, 1, n)) = n
         /\ \A j \in 1..n : SubSeq(g, 1, n)[j] = g[j]
<1>1. n \in Int /\ 1 \in Int /\ 1 <= n /\ Len(g) \in Nat /\ n <= Len(g)
  BY LenProperties
<1>2. \A j \in 1..n : g[j] \in S
  BY <1>1, ElementOfSeq
<1> QED  BY <1>1, <1>2, SubSeqProperties

(* The record of a branch that is no longer open.                          *)
LEMMA ClosedRecord ==
  ASSUME NEW f \in FlightInst, NEW y \in FlightInst, y = [f EXCEPT !.open = FALSE]
  PROVE  y = [pc |-> f.pc, pred_value |-> f.pred_value,
              predicted |-> f.predicted, open |-> FALSE]
<1>1. /\ y.pc = f.pc /\ y.pred_value = f.pred_value
      /\ y.predicted = f.predicted /\ y.open = FALSE
  BY DEF FlightInst
<1>2. y = [pc |-> y.pc, pred_value |-> y.pred_value,
           predicted |-> y.predicted, open |-> y.open]
  BY DEF FlightInst
<1> QED  BY <1>1, <1>2

(* A resolved branch keeps itself and its elders, or everything.           *)
LEMMA FlightResolved ==
  ASSUME NEW w \in Seq(Inst), NEW v \in Seq(Inst), NEW k \in DOMAIN w,
         w[k].pc = NoPC, v[k] = [w[k] EXCEPT !.done = TRUE],
         NEW n \in {k, Len(w)}, Len(v) = n,
         \A j \in 1..n : j # k => v[j] = w[j]
  PROVE  FlightFor(v) = SubSeq([FlightFor(w) EXCEPT ![k].open = FALSE], 1, n)
<1>1. /\ k \in 1..Len(w) /\ Len(w) \in Nat /\ n \in Nat /\ n \in 1..Len(w)
      /\ k \in 1..n /\ w[k] \in Inst
  BY InstFields
<1>2. PICK f \in Seq(FlightInst) : f = FlightFor(w)
  BY FlightSequence
<1>3. /\ Len(f) = Len(w)
      /\ \A j \in 1..Len(w) : f[j] = FlightOf(w[j]) /\ f[j] \in FlightInst
  BY <1>2, FlightSequence
<1>4. PICK y \in FlightInst : y = [f[k] EXCEPT !.open = FALSE]
  BY <1>1, <1>3 DEF FlightInst
<1>5. y = FlightOf(v[k])
  <2>1. f[k] = FlightOf(w[k])
    BY <1>1, <1>3
  <2>2. /\ v[k].pc = w[k].pc /\ v[k].pred_value = w[k].pred_value
        /\ v[k].predicted = w[k].predicted /\ v[k].done = TRUE
    BY <1>1 DEF Inst
  <2>3. y = [pc |-> w[k].pc, pred_value |-> w[k].pred_value,
             predicted |-> w[k].predicted, open |-> FALSE]
    <3>1. /\ f[k].pc = w[k].pc /\ f[k].pred_value = w[k].pred_value
          /\ f[k].predicted = w[k].predicted
      BY <2>1 DEF FlightOf
    <3>2. f[k] \in FlightInst
      BY <1>1, <1>3
    <3> QED  BY <1>4, <3>1, <3>2, ClosedRecord
  <2>4. (v[k].pc = NoPC /\ ~v[k].done) = FALSE
    BY <2>2
  <2> QED  BY <2>2, <2>3, <2>4 DEF FlightOf
<1>6. PICK g \in Seq(FlightInst) : g = [f EXCEPT ![k] = y]
  BY <1>1, <1>3, ExceptSeq
<1>7. /\ Len(g) = Len(w)
      /\ \A j \in 1..Len(w) : g[j] = IF j = k THEN y ELSE f[j]
  BY <1>1, <1>3, <1>6, ExceptSeq
<1>9. /\ SubSeq(g, 1, n) \in Seq(FlightInst) /\ Len(SubSeq(g, 1, n)) = n
      /\ \A j \in 1..n : SubSeq(g, 1, n)[j] = g[j]
  BY <1>1, <1>7, Prefix
<1>10. /\ FlightFor(v) \in Seq(FlightInst) /\ Len(FlightFor(v)) = n
       /\ \A j \in 1..n : FlightFor(v)[j] = FlightOf(v[j])
  BY FlightSequence
<1>11. ASSUME NEW j \in 1..n
       PROVE  FlightFor(v)[j] = SubSeq(g, 1, n)[j]
  <2>1. j \in 1..Len(w)
    BY <1>1
  <2>2. FlightFor(v)[j] = FlightOf(v[j]) /\ SubSeq(g, 1, n)[j] = g[j]
    BY <1>9, <1>10
  <2>3. CASE j = k
    BY <2>1, <2>2, <2>3, <1>5, <1>7
  <2>4. CASE j # k
    BY <2>1, <2>2, <2>4, <1>3, <1>7
  <2> QED  BY <2>3, <2>4
<1>12. FlightFor(v) = SubSeq(g, 1, n)
  BY <1>9, <1>10, <1>11, SeqEqual
<1> QED  BY <1>2, <1>4, <1>6, <1>12

(* Values that are computed do not show in the abstract window.            *)
LEMMA FlightSame ==
  ASSUME NEW w, NEW v, DOMAIN v = DOMAIN w,
         \A k \in DOMAIN w : FlightOf(v[k]) = FlightOf(w[k])
  PROVE  FlightFor(v) = FlightFor(w)
BY DEF FlightFor

(* Neither do counters in the abstract table.                              *)
LEMMA TrainedSame ==
  ASSUME NEW t, NEW s, \A i \in Index : SameTraining(t[i], s[i])
  PROVE  TrainedFor(s) = TrainedFor(t)
BY DEF TrainedFor, TrainedOf, SameTraining

(* The instances of a PC's entry in the abstract window.                   *)
LEMMA SameEntryInFlight ==
  ASSUME window \in Seq(Inst), NEW pc
  PROVE  Stride!SameEntry(pc) = InFlight(window, Len(window), index[pc], tag[pc])
<1>1. /\ DOMAIN Flight = 1..Len(window)
      /\ \A k \in 1..Len(window) : Flight[k] = FlightOf(window[k])
  BY AbstractVariables, FlightSequence
<1>2. \A k \in 1..Len(window) : Flight[k].pc = window[k].pc
  BY <1>1 DEF FlightOf
<1> QED  BY <1>1, <1>2 DEF Stride!SameEntry, InFlight

(* A PC hits in the abstract table when it does in the concrete one.       *)
LEMMA HitSearch ==
  ASSUME NEW pc \in PC
  PROVE  /\ Stride!Hit(pc) <=> search(pc)
         /\ Trained[index[pc]] = TrainedOf(SVP_table[index[pc]])
<1>1. index[pc] \in Index
  BY Constants
<1>2. Trained[index[pc]] = TrainedOf(SVP_table[index[pc]])
  BY <1>1, AbstractVariables DEF TrainedFor
<1> QED  BY <1>2 DEF Stride!Hit, search, TrainedOf

(* The instance counts with the same cardinality.                          *)
LEMMA SameCardinality ==
  ASSUME NEW S
  PROVE  Stride!Cardinality(S) = Cardinality(S)
BY Zenon DEF Stride!Cardinality, Cardinality

(* Rename2 of an eligible instruction predicts.                            *)
LEMMA PredictRefines ==
  ASSUME confmax > 0, QueueInv, InstanceExact, NEW pc \in PC, RenameEligible(pc)
  PROVE  Stride!Predict(pc)
<1>1. window' = Append(window, NewInst(pc))
  BY DEF RenameEligible, NewInst, Prediction
<1>2. TypeOK /\ window \in Seq(Inst)
  BY DEF QueueInv, TypeOK
<1>3. PICK x \in Inst : x = NewInst(pc)
  BY <1>2, NewInstType
<1>4. PICK e \in Entry : e = SVP_table[index[pc]]
  BY <1>2, Constants, EntryFields
<1>5. PICK n \in Int : n = e.instance
  BY <1>4 DEF Entry
<1>6. /\ TrainedOf(e).tag = e.tag /\ TrainedOf(e).last_value = e.last_value
      /\ TrainedOf(e).stride = e.stride /\ TrainedOf(e).confidence = e.confidence
  BY DEF TrainedOf
<1>7. Trained[index[pc]] = TrainedOf(e) /\ (Stride!Hit(pc) <=> search(pc))
  BY <1>4, HitSearch
<1>8. x.pred_value = IF Stride!Hit(pc) THEN Stride!Extrapolated(pc) ELSE 0
  <2>1. x.pred_value = Prediction(pc)
    BY <1>3 DEF NewInst
  <2>2. CASE search(pc)
    <3>1. Cardinality(Stride!SameEntry(pc)) = n
      BY <1>2, <1>4, <1>5, <2>2, InstanceInFlight, SameEntryInFlight
    <3>2. Stride!Extrapolated(pc) = (e.last_value + e.stride * (n + 1)) % V
      BY <1>6, <1>7, <3>1, SameCardinality DEF Stride!Extrapolated
    <3>3. Prediction(pc) = (e.last_value + e.stride * (n + 1)) % V
      BY <1>4, <1>5, <2>2 DEF Prediction, Extrapolated
    <3> QED  BY <1>7, <2>1, <2>2, <3>2, <3>3
  <2>3. CASE ~search(pc)
    BY <1>7, <2>1, <2>3 DEF Prediction
  <2> QED  BY <2>2, <2>3
<1>9. /\ x.predicted \in BOOLEAN
      /\ x.predicted <=> (Stride!Hit(pc) /\ Trained[index[pc]].confidence = confmax)
  <2>1. x.predicted = (get_confidence(pc) = confmax)
    BY <1>3 DEF NewInst
  <2>2. confmax # 0
    BY Constants
  <2> QED  BY <2>1, <2>2, <1>4, <1>6, <1>7 DEF get_confidence
<1>10. x.pc = pc /\ pc # NoPC /\ ~(x.pc = NoPC /\ ~x.done)
  BY <1>3, Constants DEF NewInst
<1>11. FlightOf(x) =
         [pc |-> pc,
          pred_value |-> IF Stride!Hit(pc) THEN Stride!Extrapolated(pc) ELSE 0,
          predicted |-> Stride!Hit(pc) /\ Trained[index[pc]].confidence = confmax,
          open |-> FALSE]
  <2>1. x.predicted = (Stride!Hit(pc) /\ Trained[index[pc]].confidence = confmax)
    BY <1>9
  <2>2. (x.pc = NoPC /\ ~x.done) = FALSE
    BY <1>10
  <2> QED  BY <2>1, <2>2, <1>8, <1>10 DEF FlightOf
<1>12. FlightOf(x) \in FlightInst
  <2>1. /\ x.pc \in PC \cup {NoPC} /\ x.pred_value \in Value
        /\ x.predicted \in BOOLEAN
    BY DEF Inst
  <2>2. (x.pc = NoPC /\ ~x.done) \in BOOLEAN
    OBVIOUS
  <2> QED  BY <2>1, <2>2 DEF FlightOf, FlightInst
<1>13. Flight' = Append(Flight, FlightOf(x))
  BY <1>1, <1>2, <1>3, <1>12, FlightAppend, AbstractVariables
<1>14. Trained' = Trained
  BY <1>2, CountingOnly, TrainedSame, AbstractVariables
<1> QED  BY <1>11, <1>13, <1>14 DEF Stride!Predict

(* Rename2 of a branch.                                                    *)
LEMMA BranchRefines ==
  ASSUME QueueInv, RenameBranch
  PROVE  Stride!Branch
<1>1. window' = Append(window, NewBranch) /\ SVP_table' = SVP_table
  BY DEF RenameBranch, NewBranch
<1>2. window \in Seq(Inst) /\ TypeOK
  BY DEF QueueInv, TypeOK
<1>3. PICK x \in Inst : x = NewBranch
  <2>1. checkpoint \in Slot \X BOOLEAN
    BY <1>2 DEF checkpoint, TypeOK
  <2> QED  BY <2>1, Constants DEF NewBranch, Inst
<1>4. /\ x.pc = NoPC /\ x.pred_value = 0 /\ x.predicted = FALSE
      /\ (x.pc = NoPC /\ ~x.done) = TRUE
  BY <1>3 DEF NewBranch
<1>5. FlightOf(x) = [pc |-> NoPC, pred_value |-> 0, predicted |-> FALSE, open |-> TRUE]
  BY <1>4 DEF FlightOf
<1>6. FlightOf(x) \in FlightInst
  BY <1>5, Constants DEF FlightInst
<1>7. Flight' = Append(Flight, FlightOf(x))
  BY <1>1, <1>2, <1>3, <1>6, FlightAppend, AbstractVariables
<1> QED  BY <1>1, <1>5, <1>7, AbstractVariables DEF Stride!Branch

(* A resolved branch.                                                      *)
LEMMA ResolveRefines ==
  ASSUME QueueInv, NEW k \in 1..MaxWindow, ResolveCorrect(k) \/ Mispredict(k)
  PROVE  Stride!Resolve
<1>1. window \in Seq(Inst) /\ TypeOK
  BY DEF QueueInv, TypeOK
<1>2. PICK n \in {k, Len(window)} :
        /\ k \in DOMAIN window /\ window[k].pc = NoPC /\ ~window[k].done
        /\ window' \in Seq(Inst) /\ Len(window') = n
        /\ window'[k] = [window[k] EXCEPT !.done = TRUE]
        /\ \A j \in 1..n : j # k => window'[j] = window[j]
  <2>1. CASE ResolveCorrect(k)
    <3>1. /\ k \in DOMAIN window /\ window[k].pc = NoPC /\ ~window[k].done
          /\ window' = [window EXCEPT ![k].done = TRUE]
      BY <2>1 DEF ResolveCorrect, OpenBranch
    <3>2. DoneAt(window, window', k)
      BY <1>1, <3>1, DoneAtHolds
    <3>3. DOMAIN window = 1..Len(window)
      BY <1>1, LenProperties
    <3> QED  BY <3>1, <3>2, <3>3 DEF DoneAt
  <2>2. CASE Mispredict(k)
    <3>1. /\ k \in DOMAIN window /\ window[k].pc = NoPC /\ ~window[k].done
          /\ window' \in Seq(Inst) /\ Len(window') = k
          /\ window'[k] = [window[k] EXCEPT !.done = TRUE]
          /\ \A j \in 1..(k - 1) : window'[j] = window[j]
      BY <2>2, MispredictWindow
    <3>2. \A j \in 1..k : j # k => j \in 1..(k - 1)
      OBVIOUS
    <3> QED  BY <3>1, <3>2
  <2> QED  BY <2>1, <2>2
<1>3. Flight' = SubSeq([Flight EXCEPT ![k].open = FALSE], 1, n)
  BY <1>1, <1>2, FlightResolved, AbstractVariables
<1>4. /\ DOMAIN Flight = DOMAIN window /\ Len(Flight) = Len(window)
      /\ Flight[k] = FlightOf(window[k])
  BY <1>1, <1>2, FlightSequence, AbstractVariables
<1>5. Flight[k].open
  <2>1. (window[k].pc = NoPC /\ ~window[k].done) = TRUE
    BY <1>2
  <2> QED  BY <2>1, <1>4, FlightFields
<1>6. Trained' = Trained
  <2>1. CASE ResolveCorrect(k)
    BY <2>1, AbstractVariables DEF ResolveCorrect
  <2>2. CASE Mispredict(k)
    BY <2>2, <1>1, CountingOnly, TrainedSame, AbstractVariables
  <2> QED  BY <2>1, <2>2
<1>7. k \in DOMAIN Flight /\ n \in {k, Len(Flight)}
  BY <1>2, <1>4
<1> QED  BY <1>3, <1>5, <1>6, <1>7 DEF Stride!Resolve

(* Writeback and load replay change nothing abstract.                      *)
LEMMA CompleteStutters ==
  ASSUME QueueInv, NEW k \in 1..MaxWindow, NEW v \in Value, Complete(k, v)
  PROVE  UNCHANGED Stride!vars
<1>1. /\ k \in DOMAIN window /\ window[k].pc # NoPC /\ window \in Seq(Inst)
      /\ window' = [window EXCEPT ![k].done = TRUE, ![k].value = v]
      /\ SVP_table' = SVP_table
  BY DEF Complete, QueueInv, TypeOK
<1>2. window[k] \in Inst
  BY <1>1, InstFields
<1>3. PICK x \in Inst : x = [window[k] EXCEPT !.done = TRUE, !.value = v]
  BY <1>2 DEF Inst
<1>4. /\ x.pc = window[k].pc /\ x.predicted = window[k].predicted
      /\ x.pred_value = window[k].pred_value
  BY <1>2, <1>3 DEF Inst
<1>5. window' = [window EXCEPT ![k] = x]
  BY <1>1, <1>3
<1>6. /\ DOMAIN window' = DOMAIN window /\ window'[k] = x
      /\ \A j \in DOMAIN window : j # k => window'[j] = window[j]
  BY <1>1, <1>5, LenProperties
<1>7. FlightOf(x) = FlightOf(window[k])
  <2>1. (x.pc = NoPC /\ ~x.done) = (window[k].pc = NoPC /\ ~window[k].done)
    BY <1>1, <1>4
  <2> QED  BY <1>4, <2>1 DEF FlightOf
<1>8. \A j \in DOMAIN window : FlightOf(window'[j]) = FlightOf(window[j])
  BY <1>6, <1>7
<1>9. Flight' = Flight
  BY <1>6, <1>8, FlightSame, AbstractVariables
<1> QED  BY <1>1, <1>9, AbstractVariables DEF Stride!vars

(* Training an entry trains the abstract one.                              *)
LEMMA TrainedRefines ==
  ASSUME NEW e \in Entry, NEW val \in Value, NEW pc \in PC
  PROVE  /\ TrainedOf(update_SVP(e, val)) = Stride!Trained(TrainedOf(e), val)
         /\ TrainedOf(install_SVP(pc, val)) = Stride!Replaced(pc, val)
<1>1. PICK d : d = (val - e.last_value) % V
  OBVIOUS
<1>2. PICK c : c = IF d # e.stride THEN 0 ELSE Saturate(e.confidence)
  OBVIOUS
<1>3. TrainedOf(update_SVP(e, val)) =
        [tag |-> e.tag, last_value |-> val, stride |-> d, confidence |-> c]
  <2>1. PICK f : f = update_SVP(e, val)
    OBVIOUS
  <2>2. f.tag = e.tag /\ f.last_value = val /\ f.stride = d /\ f.confidence = c
    BY <1>1, <1>2, <2>1, TrainedEntry
  <2> QED  BY <2>1, <2>2 DEF TrainedOf
<1>4. PICK a : a = TrainedOf(e)
  OBVIOUS
<1>5. a = [tag |-> e.tag, last_value |-> e.last_value, stride |-> e.stride,
           confidence |-> e.confidence]
  BY <1>4 DEF TrainedOf
<1>6. Stride!Trained(a, val) =
        [a EXCEPT !.last_value = val, !.stride = d, !.confidence = c]
  BY <1>1, <1>2, <1>5 DEF Stride!Trained, Saturate
<1>7. [a EXCEPT !.last_value = val, !.stride = d, !.confidence = c] =
        [tag |-> e.tag, last_value |-> val, stride |-> d, confidence |-> c]
  <2> DEFINE R == [tag : Nat, last_value : Value, stride : Value,
                   confidence : 0..confmax]
  <2>1. d \in Value /\ c \in 0..confmax
    <3>1. update_SVP(e, val) \in Entry
      BY TrainedEntry
    <3>2. update_SVP(e, val).stride = d /\ update_SVP(e, val).confidence = c
      BY <1>1, <1>2, TrainedEntry
    <3> QED  BY <3>1, <3>2 DEF Entry
  <2>2. a \in R
    BY <1>5 DEF Entry
  <2>3. PICK y \in R : y = [a EXCEPT !.last_value = val, !.stride = d, !.confidence = c]
    BY <2>1, <2>2
  <2>4. y.tag = a.tag /\ y.last_value = val /\ y.stride = d /\ y.confidence = c
    BY <2>2, <2>3
  <2>5. y = [tag |-> y.tag, last_value |-> y.last_value, stride |-> y.stride,
             confidence |-> y.confidence]
    BY <2>3
  <2> QED  BY <2>3, <2>4, <2>5, <1>5
<1>8. TrainedOf(install_SVP(pc, val)) = Stride!Replaced(pc, val)
  BY DEF TrainedOf, install_SVP, Stride!Replaced
<1> QED  BY <1>3, <1>4, <1>6, <1>7, <1>8

(* The table the head leaves behind.                                       *)
LEMMA RetiredRefines ==
  ASSUME QueueInv, window # <<>>, window[1].pc # NoPC
  PROVE  \E v \in 0..(V - 1) :
           TrainedFor(retired_table) =
             [Trained EXCEPT ![index[window[1].pc]] =
                IF Stride!Hit(window[1].pc) THEN Stride!Trained(@, v)
                                            ELSE Stride!Replaced(window[1].pc, v)]
<1>1. VPQ[VPQ_head].pc = window[1].pc /\ window[1].pc \in PC /\ VPQ[VPQ_head].val \in Value
  BY HeadPlace DEF QueueInv, TypeOK
<1>2. PICK pc \in PC, val \in Value : pc = window[1].pc /\ val = VPQ[VPQ_head].val
  BY <1>1
<1>3. index[pc] \in Index /\ SVP_table \in [Index -> Entry]
  BY Constants DEF QueueInv, TypeOK
<1>4. PICK e \in Entry : e = SVP_table[index[pc]]
  BY <1>3
<1>5. PICK f : f = IF search(pc) THEN update_SVP(e, val) ELSE install_SVP(pc, val)
  OBVIOUS
<1>6. retired_table = [SVP_table EXCEPT ![index[pc]] = f]
  BY <1>1, <1>2, <1>4, <1>5 DEF retired_table
<1>7. PICK a : a = IF Stride!Hit(pc) THEN Stride!Trained(TrainedOf(e), val)
                                     ELSE Stride!Replaced(pc, val)
  OBVIOUS
<1>8. a = TrainedOf(f)
  BY <1>5, <1>7, HitSearch, TrainedRefines
<1>9. Trained = TrainedFor(SVP_table) /\ Trained[index[pc]] = TrainedOf(e)
  BY <1>4, AbstractVariables, HitSearch
<1>10. TrainedFor(retired_table) = [Trained EXCEPT ![index[pc]] = a]
  BY <1>3, <1>6, <1>8, <1>9 DEF TrainedFor
<1>11. TrainedFor(retired_table) =
         [Trained EXCEPT ![index[pc]] =
            IF Stride!Hit(pc) THEN Stride!Trained(@, val) ELSE Stride!Replaced(pc, val)]
  BY <1>7, <1>9, <1>10
<1>12. val \in 0..(V - 1)
  BY Constants
<1> QED  BY <1>2, <1>11, <1>12

(* A squash keeps what is trained and empties the abstract window.         *)
LEMMA RollbackRefines ==
  ASSUME NEW table \in [Index -> Entry], full_rollback(table)
  PROVE  Trained' = TrainedFor(table) /\ Flight' = <<>>
<1>1. /\ SVP_table' = [i \in Index |-> [table[i] EXCEPT !.instance = 0]]
      /\ window' = <<>>
  BY DEF full_rollback
<1>2. \A i \in Index : SameTraining(table[i], SVP_table'[i])
  BY <1>1 DEF SameTraining, Entry
<1>3. window' \in Seq(Inst) /\ Len(window') = 0
  BY <1>1, EmptySeq
<1>4. FlightFor(window') = <<>>
  BY <1>3, FlightSequence, EmptySeq
<1> QED  BY <1>2, <1>4, TrainedSame, AbstractVariables

(* Retirement trains with the oldest instruction.                          *)
LEMMA RetireRefines ==
  ASSUME QueueInv, (\E v \in Value : RetireEligible(v)) \/ RetireBranch
  PROVE  Stride!Retire
<1>1. /\ window # <<>> /\ Head(window) = window[1] /\ window[1].done
      /\ window \in Seq(Inst)
  BY HeadPlace DEF RetireEligible, RetireBranch, HeadDone, QueueInv, TypeOK
<1>2. /\ Flight # <<>> /\ Head(Flight) = FlightOf(window[1])
      /\ FlightFor(Tail(window)) = Tail(Flight)
  BY <1>1, FlightTail, AbstractVariables
<1>3. Head(Flight).pc = window[1].pc /\ ~Head(Flight).open
  <2>1. (window[1].pc = NoPC /\ ~window[1].done) = FALSE
    BY <1>1
  <2> QED  BY <2>1, <1>2, FlightFields
<1>4. CASE RetireBranch
  <2>1. /\ window[1].pc = NoPC /\ window' = Tail(window) /\ SVP_table' = SVP_table
    BY <1>1, <1>4 DEF RetireBranch
  <2>2. Flight' = Tail(Flight) /\ Trained' = Trained
    BY <1>2, <2>1, AbstractVariables
  <2> QED  BY <1>2, <1>3, <2>1, <2>2 DEF Stride!Retire
<1>5. CASE \E v \in Value : RetireEligible(v)
  <2>1. /\ window[1].pc # NoPC
        /\ \/ full_rollback(retired_table)
           \/ SVP_table' = retired_table /\ window' = Tail(window)
    BY <1>1, <1>5 DEF RetireEligible
  <2>2. retired_table \in [Index -> Entry]
    BY <1>1, <2>1, RetiredTable
  <2>3. Trained' = TrainedFor(retired_table) /\ Flight' \in {Tail(Flight), <<>>}
    <3>1. CASE full_rollback(retired_table)
      BY <2>2, <3>1, RollbackRefines
    <3>2. CASE SVP_table' = retired_table /\ window' = Tail(window)
      BY <3>2, <1>2, AbstractVariables
    <3> QED  BY <2>1, <3>1, <3>2
  <2>4. PICK v \in 0..(V - 1) :
          TrainedFor(retired_table) =
            [Trained EXCEPT ![index[window[1].pc]] =
               IF Stride!Hit(window[1].pc) THEN Stride!Trained(@, v)
                                           ELSE Stride!Replaced(window[1].pc, v)]
    BY <1>1, <2>1, RetiredRefines
  <2> QED  BY <1>2, <1>3, <2>1, <2>3, <2>4 DEF Stride!Retire
<1> QED  BY <1>4, <1>5

(* An exception or a load violation squashes everything.                   *)
LEMMA SquashRefines ==
  ASSUME QueueInv, RetireSquash
  PROVE  Stride!Squash
<1>1. window # <<>> /\ full_rollback(SVP_table)
  BY DEF RetireSquash, HeadDone
<1>2. window \in Seq(Inst) /\ SVP_table \in [Index -> Entry]
  BY DEF QueueInv, TypeOK
<1>3. Flight # <<>>
  BY <1>1, <1>2, FlightTail, AbstractVariables
<1>4. Trained' = Trained /\ Flight' = <<>>
  BY <1>1, <1>2, RollbackRefines, AbstractVariables
<1> QED  BY <1>3, <1>4 DEF Stride!Squash

(* The initial states are abstract initial states.                         *)
LEMMA InitRefines ==
  ASSUME Init
  PROVE  Stride!Init
<1>1. window \in Seq(Inst) /\ Len(window) = 0
  BY EmptySeq DEF Init
<1>2. Flight = <<>>
  BY <1>1, FlightSequence, EmptySeq, AbstractVariables
<1>3. Trained = [i \in Index |-> [tag |-> 0, last_value |-> 0, stride |-> 0,
                                  confidence |-> 0]]
  BY DEF Init, Trained
<1> QED  BY <1>2, <1>3 DEF Stride!Init, Index

(* Every step is an abstract step or a stutter.                            *)
LEMMA NextRefines ==
  ASSUME confmax > 0, QueueInv, InstanceExact, [Next]_vars
  PROVE  [Stride!Next]_(Stride!vars)
<1>1. CASE UNCHANGED vars
  BY <1>1, AbstractVariables DEF vars, Stride!vars
<1>2. ASSUME NEW pc \in PC, RenameEligible(pc)
      PROVE  Stride!Next
  BY <1>2, PredictRefines DEF Stride!Next
<1>3. CASE RenameBranch
  BY <1>3, BranchRefines DEF Stride!Next
<1>4. CASE \E k \in 1..MaxWindow, v \in Value : Complete(k, v)
  BY <1>4, CompleteStutters
<1>5. CASE \/ \E k \in 1..MaxWindow : ResolveCorrect(k)
           \/ \E k \in 1..MaxWindow : Mispredict(k)
  BY <1>5, ResolveRefines DEF Stride!Next
<1>6. CASE (\E v \in Value : RetireEligible(v)) \/ RetireBranch
  BY <1>6, RetireRefines DEF Stride!Next
<1>7. CASE RetireSquash
  BY <1>7, SquashRefines DEF Stride!Next
<1> QED
  BY <1>1, <1>2, <1>3, <1>4, <1>5, <1>6, <1>7 DEF Next

(* ImplementsStride: queue, counters, checkpoints and squashes together    *)
(* make predictions extrapolate the last retired value over the instances  *)
(* in flight, and train in program order, when no two PCs share index and  *)
(* tag and a miss, with confidence 0, is not confident.                    *)
THEOREM SVPImplementsStride ==
  NoAliases /\ confmax > 0 => (Spec => ImplementsStride)
<1> SUFFICES ASSUME NoAliases, confmax > 0
             PROVE  Spec => ImplementsStride
  OBVIOUS
<1>1. Init => Stride!Init
  BY InitRefines
<1>2. QueueInv /\ InstanceExact /\ [Next]_vars => [Stride!Next]_(Stride!vars)
  BY NextRefines
<1>3. Spec => []InstanceExact
  BY InstancesExact
<1> QED
  BY <1>1, <1>2, <1>3, QueueInvariant, PTL DEF Spec, ImplementsStride, Stride!Spec

-----------------------------------------------------------------------------
(* The assertion that csr and amo instructions break.                      *)

(* The VPQ head holds the value that commits, unless a csr or amo          *)
(* instruction does.                                                       *)
RecordedUnlessLate ==
  [][\A v \in Value :
       RetireEligible(v) /\ Head(window).pc \notin Late => VPQ[VPQ_head].val = v]_vars

(* assert(VPQ[VPQ_head].val == true_value), SVP.cc:159, can fail for csr   *)
(* and amo instructions only: whatever was replayed, rolled back or        *)
(* squashed, the head's entry is the retiring instruction's, written by    *)
(* its last completion.                                                    *)
THEOREM RecordedValue == Spec => RecordedUnlessLate
<1>1. QueueInv => [\A v \in Value :
                     RetireEligible(v) /\ Head(window).pc \notin Late
                       => VPQ[VPQ_head].val = v]_vars
  <2> SUFFICES ASSUME QueueInv, NEW v \in Value, RetireEligible(v),
                      Head(window).pc \notin Late
               PROVE  VPQ[VPQ_head].val = v
    OBVIOUS
  <2>1. /\ window # <<>> /\ Head(window) = window[1] /\ window[1].done
        /\ window[1].pc # NoPC
    BY HeadPlace DEF RetireEligible, HeadDone
  <2>2. v = window[1].value
    BY <2>1 DEF RetireEligible
  <2> QED  BY <2>1, <2>2, HeadPlace
<1> QED  BY <1>1, QueueInvariant, PTL DEF RecordedUnlessLate

=============================================================================
