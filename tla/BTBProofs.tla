----------------------------- MODULE BTBProofs -----------------------------
(***************************************************************************)
(* The branch target buffer for every number of banks, sets and ways,      *)
(* every text and every way in which it changes: a hit is what its         *)
(* instruction was last trained as, the ranks of a set are the order of    *)
(* last use, the assertions of update() and invalidate() hold, and a       *)
(* bundle is misfetched at most once for each of its positions.            *)
(***************************************************************************)
EXTENDS BTB, FiniteSetTheorems, NaturalsInduction, TLAPS

Lookups   == INSTANCE Folding WITH Op <- Look
Trainings == INSTANCE Folding WITH Op <- Train

(* Every set of natural numbers has a least one.                           *)
LEMMA Least ==
  ASSUME NEW T \in SUBSET Nat, T # {}
  PROVE  \E x \in T : \A y \in T : x <= y
<1>1. IsWellFoundedOn(OpToRel(<, Nat), Nat)
  BY NatLessThanWellFounded
<1>2. PICK x \in T : \A y \in T : ~ (<<y, x>> \in OpToRel(<, Nat))
  BY <1>1, WFMin
<1>3. \A y \in T : ~ (y < x)
  BY <1>2 DEF OpToRel
<1> QED  BY <1>3

(* What the theorems of Folding need of the natural numbers.               *)
LEMMA WellOrder ==
  /\ Lookups!WellOrdered
  /\ Trainings!WellOrdered
<1>1. \A T \in SUBSET Nat : T # {} => \E x \in T : \A y \in T : x <= y
  BY Least
<1> QED  BY <1>1 DEF Lookups!WellOrdered, Trainings!WellOrdered

-----------------------------------------------------------------------------
(* The types of the state.                                                 *)
Bank  == 0..(banks - 1)
SetNo == 0..(sets - 1)
Entry == [valid : BOOLEAN, tag : Nat, lru : Ways, type : BranchKinds, target : PC]
Table == [Bank -> [SetNo -> [Ways -> Entry]]]
Uses  == [Bank -> [SetNo -> Seq(Nat)]]

(* The ranks of a set are a permutation, no tag is twice in it, and r has  *)
(* the tags of its valid ways by their ranks.                              *)
Ranked(s) ==
  /\ \A v, w \in Ways : s[v].lru = s[w].lru => v = w
  /\ \A n \in Ways : \E w \in Ways : s[w].lru = n
Distinct(s) ==
  \A v, w \in Ways : s[v].valid /\ s[w].valid /\ s[v].tag = s[w].tag => v = w
Ordered(s, r) ==
  /\ r \in Seq(Nat) /\ Len(r) <= assoc
  /\ \A w \in Ways : IF s[w].valid THEN s[w].lru < Len(r) /\ r[s[w].lru + 1] = s[w].tag
                     ELSE s[w].lru >= Len(r)
SetOK(s, r) == s \in [Ways -> Entry] /\ Ranked(s) /\ Distinct(s) /\ Ordered(s, r)

(* What a set says of a tag.                                               *)
Says(s, t) ==
  IF Hits(s, t) = {} THEN Untrained
  ELSE [type |-> s[Way(s, t)].type, target |-> s[Way(s, t)].target]

-----------------------------------------------------------------------------
(* Numbers.                                                                *)

(* Division with remainder.                                                *)
LEMMA Division ==
  ASSUME NEW a \in Nat, NEW n \in Nat \ {0}
  PROVE  /\ a \div n \in Nat /\ a % n \in 0..(n - 1)
         /\ a = n * (a \div n) + (a % n)
OBVIOUS

(* The positions of a bundle are in banks of their own.                    *)
LEMMA RemaindersDiffer ==
  ASSUME NEW n \in Nat \ {0}, NEW a \in Nat, NEW b \in Nat, a < b, b - a < n
  PROVE  a % n # b % n
<1> DEFINE qa == a \div n
           qb == b \div n
           ra == a % n
           rb == b % n
<1>1. qa \in Nat /\ ra \in 0..(n - 1) /\ a = n * qa + ra
  BY Division
<1>2. qb \in Nat /\ rb \in 0..(n - 1) /\ b = n * qb + rb
  BY Division
<1> HIDE DEF qa, qb, ra, rb
<1>3. ASSUME ra = rb  PROVE FALSE
  <2>1. b - a = n * (qb - qa)
    BY <1>1, <1>2, <1>3
  <2>2. qb - qa \in Int
    BY <1>1, <1>2
  <2>3. CASE qb - qa <= 0
    <3>1. n * (qb - qa) <= 0
      BY <2>2, <2>3
    <3> QED  BY <2>1, <3>1
  <2>4. CASE qb - qa >= 1
    <3>1. n * (qb - qa) >= n
      BY <2>2, <2>4
    <3> QED  BY <2>1, <3>1
  <2> QED  BY <2>2, <2>3, <2>4
<1> QED  BY <1>3 DEF ra, rb

(* An instruction has coordinates of its own.                              *)
LEMMA CoordinatesDiffer ==
  ASSUME NEW p \in Nat, NEW q \in Nat, banks \in Nat \ {0}, sets \in Nat \ {0},
         convert(p).bank = convert(q).bank, index(p) = index(q), tag(p) = tag(q)
  PROVE  p = q
<1>1. p % banks = q % banks
  BY DEF convert
<1> DEFINE x == p \div banks
           y == q \div banks
<1>2. x % sets = y % sets /\ x \div sets = y \div sets
  BY DEF convert, index, tag
<1>3. x \in Nat /\ y \in Nat
  BY Division
<1>4. p = banks * x + (p % banks) /\ q = banks * y + (q % banks)
  BY Division
<1> HIDE DEF x, y
<1>5. x = sets * (x \div sets) + (x % sets) /\ y = sets * (y \div sets) + (y % sets)
  BY <1>3, Division
<1>6. x = y
  BY <1>2, <1>5
<1> QED  BY <1>1, <1>4, <1>6

-----------------------------------------------------------------------------
(* The history of a set.                                                   *)

(* A sequence without its k-th element.                                    *)
IsRemoval(u, r, k) ==
  /\ u \in Seq(Nat) /\ Len(u) = Len(r) - 1
  /\ \A j \in 1..(Len(r) - 1) : u[j] = IF j < k THEN r[j] ELSE r[j + 1]

LEMMA Concat ==
  ASSUME NEW S, NEW a \in Seq(S), NEW b \in Seq(S)
  PROVE  /\ a \o b \in Seq(S) /\ Len(a \o b) = Len(a) + Len(b)
         /\ \A j \in 1..(Len(a) + Len(b)) :
              (a \o b)[j] = IF j <= Len(a) THEN a[j] ELSE b[j - Len(a)]
OBVIOUS

LEMMA Removal ==
  ASSUME NEW r \in Seq(Nat), NEW k \in 1..Len(r)
  PROVE  IsRemoval(RemoveAt(r, k), r, k)
<1> DEFINE a == SubSeq(r, 1, k - 1)
           b == SubSeq(r, k + 1, Len(r))
<1>1. Len(r) \in Nat /\ k \in Nat
  OBVIOUS
<1>2. /\ a \in Seq(Nat) /\ Len(a) = k - 1 /\ \A j \in 1..(k - 1) : a[j] = r[j]
  OBVIOUS
<1>3. /\ b \in Seq(Nat) /\ Len(b) = Len(r) - k
      /\ \A j \in 1..(Len(r) - k) : b[j] = r[k + j]
  OBVIOUS
<1>4. RemoveAt(r, k) = a \o b
  BY DEF RemoveAt
<1> HIDE DEF a, b
<1>5. /\ a \o b \in Seq(Nat) /\ Len(a \o b) = Len(r) - 1
  <2>1. a \o b \in Seq(Nat)
    BY <1>2, <1>3
  <2>2. Len(a \o b) = Len(a) + Len(b)
    BY <1>2, <1>3, Concat
  <2> QED  BY <1>1, <1>2, <1>3, <2>1, <2>2
<1>6. ASSUME NEW j \in 1..(Len(r) - 1)
      PROVE  (a \o b)[j] = IF j < k THEN r[j] ELSE r[j + 1]
  <2>1. CASE j < k
    BY <1>1, <1>2, <1>3, <2>1
  <2>2. CASE ~ (j < k)
    <3>0. j \in (Len(a) + 1)..(Len(a) + Len(b)) /\ Len(a) = k - 1
      BY <1>1, <1>2, <1>3, <2>2
    <3>1. (a \o b)[j] = b[j - (k - 1)]
      <4>1. (a \o b)[j] = IF j <= Len(a) THEN a[j] ELSE b[j - Len(a)]
        <5>1. j \in 1..(Len(a) + Len(b))
          BY <1>1, <1>2, <1>3, <2>2
        <5>2. a \in Seq(Nat) /\ b \in Seq(Nat)
          BY <1>2, <1>3
        <5> QED  BY ONLY <5>1, <5>2, Concat
      <4> QED  BY <1>1, <3>0, <4>1
    <3>2. j - (k - 1) \in 1..(Len(r) - k) /\ k + (j - (k - 1)) = j + 1
      BY <1>1, <2>2
    <3>3. b[j - (k - 1)] = r[j + 1]
      BY <1>3, <3>2
    <3> QED  BY <3>1, <3>3, <2>2
  <2> QED  BY <2>1, <2>2
<1> QED  BY <1>4, <1>5, <1>6 DEF IsRemoval

(* Every place of a set's history is the rank of a valid way.              *)
LEMMA PlaceOf ==
  ASSUME NEW s, NEW r, SetOK(s, r), assoc \in Nat \ {0}, NEW k \in 1..Len(r)
  PROVE  \E w \in Ways : s[w].valid /\ s[w].lru = k - 1 /\ r[k] = s[w].tag
<1>1. Len(r) \in Nat /\ Len(r) <= assoc
  BY DEF SetOK, Ordered
<1>2. k - 1 \in Ways
  BY <1>1 DEF Ways
<1>3. PICK w \in Ways : s[w].lru = k - 1
  BY <1>2 DEF SetOK, Ranked
<1>4. s[w].valid
  BY <1>1, <1>3 DEF SetOK, Ordered
<1>5. r[(k - 1) + 1] = s[w].tag
  BY <1>3, <1>4 DEF SetOK, Ordered
<1> QED  BY <1>3, <1>4, <1>5

(* Without a tag that the set has, the history lacks that way's place.     *)
LEMMA WithoutPresent ==
  ASSUME NEW s, NEW r, SetOK(s, r), assoc \in Nat \ {0}, NEW w \in Ways, s[w].valid
  PROVE  IsRemoval(Without(r, s[w].tag), r, s[w].lru + 1)
<1> DEFINE t == s[w].tag
           k == s[w].lru + 1
<1>1. r \in Seq(Nat) /\ Len(r) \in Nat /\ s[w].lru \in Nat
  <2>1. s[w] \in Entry
    BY DEF SetOK
  <2>2. s[w].lru \in Nat
    BY <2>1 DEF Entry, Ways
  <2>3. r \in Seq(Nat)
    BY DEF SetOK, Ordered
  <2> QED  BY <2>2, <2>3
<1>2. k \in 1..Len(r) /\ r[k] = t
  BY <1>1 DEF SetOK, Ordered
<1>3. ASSUME NEW j \in DOMAIN r, r[j] = t
      PROVE  j = k
  <2>0. j \in 1..Len(r)
    BY <1>1
  <2>a. \E v \in Ways : s[v].valid /\ s[v].lru = j - 1 /\ r[j] = s[v].tag
    BY ONLY <2>0, PlaceOf, SetOK(s, r), assoc \in Nat \ {0}
  <2>1. PICK v \in Ways : s[v].valid /\ s[v].lru = j - 1 /\ r[j] = s[v].tag
    BY <2>a
  <2>2. v = w
    BY <1>3, <2>1 DEF SetOK, Distinct
  <2> QED  BY <2>0, <2>1, <2>2
<1>4. k \in DOMAIN r
  BY <1>1, <1>2
<1> HIDE DEF t, k
<1>5. (CHOOSE j \in DOMAIN r : r[j] = t) = k
  BY <1>2, <1>3, <1>4
<1>6. Without(r, t) = RemoveAt(r, k)
  BY <1>2, <1>4, <1>5 DEF Without
<1>7. IsRemoval(RemoveAt(r, k), r, k)
  BY <1>1, <1>2, Removal
<1> QED  BY <1>6, <1>7 DEF t, k

(* Without a tag that is not in it, a sequence is what it was.             *)
LEMMA WithoutAbsent ==
  ASSUME NEW r \in Seq(Nat), NEW t, \A k \in 1..Len(r) : r[k] # t
  PROVE  Without(r, t) = r
<1>1. DOMAIN r = 1..Len(r)
  OBVIOUS
<1> QED  BY <1>1 DEF Without

-----------------------------------------------------------------------------
(* The ways of a set.                                                      *)

(* The way that search() returns is one of the set's: the one that has the *)
(* tag, or else the one with the highest rank.                             *)
LEMMA WayIs ==
  ASSUME NEW s, NEW r, SetOK(s, r), assoc \in Nat \ {0}, NEW t
  PROVE  /\ Way(s, t) \in Ways
         /\ IF Hits(s, t) # {} THEN s[Way(s, t)].valid /\ s[Way(s, t)].tag = t
            ELSE s[Way(s, t)].lru = assoc - 1
<1>1. CASE Hits(s, t) # {}
  <2>1. Hits(s, t) \in SUBSET Nat
    BY DEF Hits, Ways
  <2>2. \E x \in Hits(s, t) : \A y \in Hits(s, t) : x <= y
    BY <1>1, <2>1, Least
  <2>3. Min(Hits(s, t)) \in Hits(s, t)
    BY <2>2 DEF Min
  <2> QED  BY <1>1, <2>3 DEF Way, Hits
<1>2. CASE Hits(s, t) = {}
  <2>1. assoc - 1 \in Ways
    BY DEF Ways
  <2>2. \E w \in Ways : s[w].lru = assoc - 1
    BY <2>1 DEF SetOK, Ranked
  <2> QED  BY <1>2, <2>2 DEF Way
<1> QED  BY <1>1, <1>2

(* What a set says of a tag that a way has.                                *)
LEMMA SaysIs ==
  ASSUME NEW s, NEW r, SetOK(s, r), assoc \in Nat \ {0}, NEW t, NEW w \in Ways,
         s[w].valid, s[w].tag = t
  PROVE  /\ Hits(s, t) = {w} /\ Way(s, t) = w
         /\ Says(s, t) = [type |-> s[w].type, target |-> s[w].target]
<1>1. Hits(s, t) = {w}
  BY DEF Hits, SetOK, Distinct
<1>2. Way(s, t) \in Ways /\ Way(s, t) \in Hits(s, t)
  BY <1>1, WayIs DEF Hits
<1>3. Way(s, t) = w
  BY <1>1, <1>2
<1> QED  BY <1>1, <1>3 DEF Says

-----------------------------------------------------------------------------
(* What an update and an invalidation do to a set.                         *)

Knowledge == [type : BranchKinds, target : PC]

SameButRank(e, d) ==
  e.valid = d.valid /\ e.tag = d.tag /\ e.type = d.type /\ e.target = d.target

IsUpdated(z, s, w, t, d) ==
  /\ z \in [Ways -> Entry]
  /\ z[w].valid /\ z[w].tag = t /\ z[w].lru = 0 /\ z[w].type = d.type /\ z[w].target = d.target
  /\ \A v \in Ways \ {w} :
       /\ SameButRank(z[v], s[v])
       /\ z[v].lru = IF s[v].lru < s[w].lru THEN s[v].lru + 1 ELSE s[v].lru

IsInvalidated(z, s, w) ==
  /\ z \in [Ways -> Entry]
  /\ ~z[w].valid /\ z[w].lru = assoc - 1
  /\ \A v \in Ways \ {w} :
       /\ SameButRank(z[v], s[v])
       /\ z[v].lru = IF s[v].lru > s[w].lru THEN s[v].lru - 1 ELSE s[v].lru

LEMMA UpdatedIs ==
  ASSUME NEW s \in [Ways -> Entry], assoc \in Nat \ {0},
         NEW w \in Ways, NEW t \in Nat, NEW d \in Knowledge
  PROVE  IsUpdated(Updated(s, w, t, d), s, w, t, d)
<1> DEFINE y == update_lru(s, w)
           e == [valid |-> TRUE, tag |-> t, lru |-> 0, type |-> d.type, target |-> d.target]
           z == [y EXCEPT ![w] = e]
<1>1. Updated(s, w, t, d) = z
  BY DEF Updated
<1>2. e \in Entry
  <2>1. 0 \in Ways
    BY DEF Ways
  <2>2. d.type \in BranchKinds /\ d.target \in PC
    BY DEF Knowledge
  <2> QED  BY <2>1, <2>2 DEF Entry
<1>3. ASSUME NEW v \in Ways
      PROVE  /\ y[v] \in Entry /\ SameButRank(y[v], s[v])
             /\ v # w => y[v].lru = IF s[v].lru < s[w].lru THEN s[v].lru + 1 ELSE s[v].lru
  <2> DEFINE a == s[v]
             n == IF v = w THEN 0 ELSE IF a.lru < s[w].lru THEN a.lru + 1 ELSE a.lru
  <2>1. y[v] = [a EXCEPT !.lru = n]
    BY DEF update_lru
  <2>2. a \in Entry /\ s[w] \in Entry
    OBVIOUS
  <2>3. a.lru \in Ways /\ s[w].lru \in Ways
    BY <2>2 DEF Entry
  <2>4. n \in Ways
    BY <2>3 DEF Ways
  <2> HIDE DEF n, a, y
  <2>5. [a EXCEPT !.lru = n] \in Entry
    BY <2>2, <2>4 DEF Entry
  <2>6. SameButRank([a EXCEPT !.lru = n], a) /\ [a EXCEPT !.lru = n].lru = n
    BY <2>2 DEF Entry, SameButRank
  <2> QED  BY <2>1, <2>5, <2>6 DEF n, a
<1>4. y = [v \in Ways |-> y[v]]
  BY DEF update_lru
<1> HIDE DEF y, e
<1>5. z[w] = e /\ \A v \in Ways \ {w} : z[v] = y[v]
  BY <1>4
<1>6. z \in [Ways -> Entry]
  BY <1>2, <1>3, <1>4
<1> HIDE DEF z
<1> QED  BY <1>1, <1>3, <1>5, <1>6 DEF IsUpdated, e

LEMMA InvalidatedIs ==
  ASSUME NEW s \in [Ways -> Entry], assoc \in Nat \ {0}, NEW w \in Ways
  PROVE  IsInvalidated(Invalidated(s, w), s, w)
<1> DEFINE z == Invalidated(s, w)
<1>1. ASSUME NEW v \in Ways
      PROVE  /\ z[v] \in Entry
             /\ IF v = w THEN ~z[v].valid /\ z[v].lru = assoc - 1
                ELSE /\ SameButRank(z[v], s[v])
                     /\ z[v].lru = IF s[v].lru > s[w].lru THEN s[v].lru - 1 ELSE s[v].lru
  <2> DEFINE a == s[v]
             n == IF a.lru > s[w].lru THEN a.lru - 1 ELSE a.lru
  <2>1. z[v] = IF v = w THEN [a EXCEPT !.valid = FALSE, !.lru = assoc - 1]
               ELSE [a EXCEPT !.lru = n]
    BY DEF Invalidated
  <2>2. a \in Entry /\ s[w] \in Entry
    OBVIOUS
  <2>3. a.lru \in Ways /\ s[w].lru \in Ways
    BY <2>2 DEF Entry
  <2>4. n \in Ways /\ assoc - 1 \in Ways
    BY <2>3 DEF Ways
  <2> HIDE DEF n, a, z
  <2>5. [a EXCEPT !.lru = n] \in Entry /\ [a EXCEPT !.valid = FALSE, !.lru = assoc - 1] \in Entry
    BY <2>2, <2>4 DEF Entry
  <2>6. SameButRank([a EXCEPT !.lru = n], a) /\ [a EXCEPT !.lru = n].lru = n
    BY <2>2 DEF Entry, SameButRank
  <2>7. /\ [a EXCEPT !.valid = FALSE, !.lru = assoc - 1].valid = FALSE
        /\ [a EXCEPT !.valid = FALSE, !.lru = assoc - 1].lru = assoc - 1
    BY <2>2 DEF Entry
  <2> QED  BY <2>1, <2>5, <2>6, <2>7 DEF n, a
<1>2. z = [v \in Ways |-> z[v]]
  BY DEF Invalidated
<1> HIDE DEF z
<1>3. z \in [Ways -> Entry]
  BY <1>1, <1>2
<1> QED  BY <1>1, <1>3 DEF IsInvalidated, z

(* What the histories of a set are in terms of before.                     *)
IsRest(u, r, s, w) ==
  IF s[w].valid THEN IsRemoval(u, r, s[w].lru + 1) ELSE u = r /\ s[w].lru = assoc - 1

LEMMA UpdatedRanks ==
  ASSUME NEW s \in [Ways -> Entry], Ranked(s), assoc \in Nat \ {0}, NEW w \in Ways,
         NEW t, NEW d, NEW z, IsUpdated(z, s, w, t, d)
  PROVE  Ranked(z)
<1>0. \A v \in Ways : s[v].lru \in Ways
  BY DEF Entry
<1>1. ASSUME NEW v \in Ways, NEW x \in Ways, z[v].lru = z[x].lru
      PROVE  v = x
  <2>1. /\ s[v].lru \in 0..(assoc - 1) /\ s[x].lru \in 0..(assoc - 1)
        /\ s[w].lru \in 0..(assoc - 1)
    BY <1>0 DEF Ways
  <2>b. ASSUME NEW u \in Ways \ {w}  PROVE z[u].lru # 0
    <3>1. /\ s[u].lru \in 0..(assoc - 1) /\ s[w].lru \in 0..(assoc - 1)
          /\ s[u].lru # s[w].lru
      BY <1>0 DEF Ways, Ranked
    <3>2. z[u].lru = IF s[u].lru < s[w].lru THEN s[u].lru + 1 ELSE s[u].lru
      BY DEF IsUpdated
    <3> QED  BY <3>1, <3>2
  <2>c. z[w].lru = 0
    BY DEF IsUpdated
  <2>2. CASE v = w \/ x = w
    BY <2>b, <2>c, <2>2, <1>1
  <2>3. CASE v # w /\ x # w
    <3>1. s[v].lru # s[w].lru /\ s[x].lru # s[w].lru
      BY <2>3 DEF Ranked
    <3>2. s[v].lru = s[x].lru
      BY <2>1, <2>3, <3>1, <1>1 DEF IsUpdated
    <3> QED  BY <3>2 DEF Ranked
  <2> QED  BY <2>2, <2>3
<1>2. ASSUME NEW n \in Ways
      PROVE  \E v \in Ways : z[v].lru = n
  <2>1. n \in 0..(assoc - 1) /\ s[w].lru \in 0..(assoc - 1)
    BY <1>0 DEF Ways
  <2>2. CASE n = 0
    BY <2>2 DEF IsUpdated
  <2>3. CASE n # 0 /\ n <= s[w].lru
    <3>1. n - 1 \in Ways
      BY <2>1, <2>3 DEF Ways
    <3>2. PICK v \in Ways : s[v].lru = n - 1
      BY <3>1 DEF Ranked
    <3>3. v # w /\ s[v].lru < s[w].lru
      BY <2>1, <2>3, <3>2
    <3>4. z[v].lru = (n - 1) + 1
      BY <3>2, <3>3 DEF IsUpdated
    <3> QED  BY <2>1, <3>4
  <2>4. CASE n > s[w].lru
    <3>1. PICK v \in Ways : s[v].lru = n
      BY DEF Ranked
    <3>2. v # w /\ ~ (s[v].lru < s[w].lru)
      BY <2>1, <2>4, <3>1
    <3>3. z[v].lru = n
      BY <3>1, <3>2 DEF IsUpdated
    <3> QED  BY <3>3
  <2> QED  BY <2>1, <2>2, <2>3, <2>4
<1> QED  BY <1>1, <1>2 DEF Ranked

LEMMA InvalidatedRanks ==
  ASSUME NEW s \in [Ways -> Entry], Ranked(s), assoc \in Nat \ {0}, NEW w \in Ways,
         NEW z, IsInvalidated(z, s, w)
  PROVE  Ranked(z)
<1>0. \A v \in Ways : s[v].lru \in Ways
  BY DEF Entry
<1>1. ASSUME NEW v \in Ways, NEW x \in Ways, z[v].lru = z[x].lru
      PROVE  v = x
  <2>1. /\ s[v].lru \in 0..(assoc - 1) /\ s[x].lru \in 0..(assoc - 1)
        /\ s[w].lru \in 0..(assoc - 1)
    BY <1>0 DEF Ways
  <2>a. (v # w => s[v].lru # s[w].lru) /\ (x # w => s[x].lru # s[w].lru)
    BY DEF Ranked
  <2>b. ASSUME NEW u \in Ways \ {w}  PROVE z[u].lru # assoc - 1
    <3>1. /\ s[u].lru \in 0..(assoc - 1) /\ s[w].lru \in 0..(assoc - 1)
          /\ s[u].lru # s[w].lru
      BY <1>0 DEF Ways, Ranked
    <3>2. z[u].lru = IF s[u].lru > s[w].lru THEN s[u].lru - 1 ELSE s[u].lru
      BY DEF IsInvalidated
    <3> QED  BY <3>1, <3>2
  <2>c. z[w].lru = assoc - 1
    BY DEF IsInvalidated
  <2>2. CASE v = w \/ x = w
    BY <2>b, <2>c, <2>2, <1>1
  <2>3. CASE v # w /\ x # w
    <3>2. s[v].lru = s[x].lru
      BY <2>1, <2>3, <2>a, <1>1 DEF IsInvalidated
    <3> QED  BY <3>2 DEF Ranked
  <2> QED  BY <2>2, <2>3
<1>2. ASSUME NEW n \in Ways
      PROVE  \E v \in Ways : z[v].lru = n
  <2>1. n \in 0..(assoc - 1) /\ s[w].lru \in 0..(assoc - 1)
    BY <1>0 DEF Ways
  <2>2. CASE n = assoc - 1
    BY <2>2 DEF IsInvalidated
  <2>3. CASE n # assoc - 1 /\ n >= s[w].lru
    <3>1. n + 1 \in Ways
      BY <2>1, <2>3 DEF Ways
    <3>2. PICK v \in Ways : s[v].lru = n + 1
      BY <3>1 DEF Ranked
    <3>3. v # w /\ s[v].lru > s[w].lru
      BY <2>1, <2>3, <3>2
    <3>4. z[v].lru = (n + 1) - 1
      BY <3>2, <3>3 DEF IsInvalidated
    <3> QED  BY <2>1, <3>4
  <2>4. CASE n < s[w].lru
    <3>1. PICK v \in Ways : s[v].lru = n
      BY DEF Ranked
    <3>2. v # w /\ ~ (s[v].lru > s[w].lru)
      BY <2>1, <2>4, <3>1
    <3>3. z[v].lru = n
      BY <3>1, <3>2 DEF IsInvalidated
    <3> QED  BY <3>3
  <2> QED  BY <2>1, <2>2, <2>3, <2>4
<1> QED  BY <1>1, <1>2 DEF Ranked

LEMMA UpdatedSet ==
  ASSUME NEW s, NEW r, SetOK(s, r), assoc \in Nat \ {0}, NEW w \in Ways, NEW t \in Nat,
         NEW d \in Knowledge, \A v \in Ways \ {w} : s[v].valid => s[v].tag # t,
         NEW u, IsRest(u, r, s, w), NEW z, IsUpdated(z, s, w, t, d)
  PROVE  SetOK(z, <<t>> \o u)
<1>0. s \in [Ways -> Entry] /\ Ranked(s) /\ Distinct(s) /\ r \in Seq(Nat) /\ Len(r) <= assoc
      /\ \A v \in Ways : s[v].lru \in 0..(assoc - 1)
  BY DEF SetOK, Ordered, Entry, Ways
<1>1. Ranked(z)
  BY <1>0, UpdatedRanks
<1>2. Distinct(z)
  BY <1>0 DEF Distinct, IsUpdated, SameButRank
<1> DEFINE m == s[w].lru
           q == <<t>> \o u
<1>3. /\ u \in Seq(Nat) /\ Len(u) = IF s[w].valid THEN Len(r) - 1 ELSE Len(r)
      /\ Len(u) < assoc
      /\ \A j \in 1..Len(u) : u[j] = IF j < m + 1 THEN r[j] ELSE r[j + 1]
  <2>a. Len(r) \in Nat /\ Len(r) <= assoc /\ m \in 0..(assoc - 1)
    BY <1>0
  <2>1. CASE s[w].valid
    <3>1. IsRemoval(u, r, m + 1)
      BY <2>1 DEF IsRest
    <3>2. Len(u) = Len(r) - 1 /\ Len(u) < assoc
      BY <2>a, <3>1 DEF IsRemoval
    <3> QED  BY <2>1, <3>1, <3>2 DEF IsRemoval
  <2>2. CASE ~s[w].valid
    <3>1. Len(r) <= m /\ u = r
      BY <2>2 DEF SetOK, Ordered, IsRest
    <3> HIDE DEF m
    <3>2. \A j \in 1..Len(r) : j < m + 1
      BY <2>a, <3>1
    <3>3. Len(r) < assoc
      BY <2>a, <3>1
    <3> QED  BY <2>2, <3>1, <3>2, <3>3, <1>0
  <2> QED  BY <2>1, <2>2
<1>4. /\ q \in Seq(Nat) /\ Len(q) = Len(u) + 1 /\ q[1] = t
      /\ \A j \in 1..Len(u) : q[j + 1] = u[j]
  <2>1. <<t>> \in Seq(Nat) /\ Len(<<t>>) = 1 /\ <<t>>[1] = t
    OBVIOUS
  <2>2. Len(u) \in Nat /\ u \in Seq(Nat)
    BY <1>3
  <2>3. /\ q \in Seq(Nat) /\ Len(q) = 1 + Len(u)
        /\ \A j \in 1..(1 + Len(u)) : q[j] = IF j <= 1 THEN <<t>>[j] ELSE u[j - 1]
    BY <2>1, <2>2, Concat
  <2> HIDE DEF q
  <2>4. q[1] = t
    BY <2>1, <2>2, <2>3
  <2>5. ASSUME NEW j \in 1..Len(u)  PROVE q[j + 1] = u[j]
    <3>1. j + 1 \in 1..(1 + Len(u)) /\ ~ (j + 1 <= 1) /\ (j + 1) - 1 = j
      BY <2>2
    <3> QED  BY <2>3, <3>1
  <2> QED  BY <2>2, <2>3, <2>4, <2>5
<1> HIDE DEF q
<1>5. ASSUME NEW v \in Ways
      PROVE  IF z[v].valid THEN z[v].lru < Len(q) /\ q[z[v].lru + 1] = z[v].tag
             ELSE z[v].lru >= Len(q)
  <2> DEFINE a == s[v].lru
  <2>0. /\ m \in 0..(assoc - 1) /\ a \in 0..(assoc - 1) /\ Len(u) \in Nat /\ Len(r) \in Nat
        /\ Len(q) = Len(u) + 1
    BY <1>0, <1>3, <1>4
  <2>w. IF s[w].valid THEN m < Len(r) ELSE Len(r) <= m /\ m = assoc - 1
    BY DEF SetOK, Ordered, IsRest
  <2>v. IF s[v].valid THEN a < Len(r) /\ r[a + 1] = s[v].tag ELSE a >= Len(r)
    BY DEF SetOK, Ordered
  <2>1. CASE v = w
    <3>1. z[v].valid /\ z[v].lru = 0 /\ z[v].tag = t
      BY <2>1 DEF IsUpdated
    <3> QED  BY <3>1, <1>4, <2>0
  <2>2. CASE v # w
    <3>1. /\ z[v].valid = s[v].valid /\ z[v].tag = s[v].tag
          /\ z[v].lru = IF a < m THEN a + 1 ELSE a
      BY <2>2 DEF IsUpdated, SameButRank
    <3>2. a # m
      BY <1>0, <2>2 DEF Ranked
    <3> HIDE DEF a, m
    <3>3. CASE s[v].valid /\ a < m
      <4>1. a + 1 \in 1..Len(u)
        BY <2>0, <2>w, <2>v, <1>3, <3>3
      <4>2. u[a + 1] = r[a + 1]
        BY <4>1, <1>3, <3>3, <2>0
      <4>3. q[(a + 1) + 1] = u[a + 1]
        BY <4>1, <1>4
      <4> QED  BY <4>1, <4>2, <4>3, <3>1, <3>3, <2>0, <2>v
    <3>4. CASE s[v].valid /\ a > m
      <4>0. s[w].valid
        BY <2>0, <2>w, <3>4
      <4>1. a \in 1..Len(u)
        BY <2>0, <2>w, <2>v, <1>3, <3>4, <4>0
      <4>2. u[a] = r[a + 1]
        BY <4>1, <1>3, <3>4, <2>0
      <4>3. q[a + 1] = u[a]
        BY <4>1, <1>4
      <4> QED  BY <4>1, <4>2, <4>3, <3>1, <3>4, <2>0, <2>v
    <3>5. CASE ~s[v].valid
      <4>1. CASE s[w].valid
        BY <4>1, <3>5, <2>0, <2>w, <2>v, <3>1, <1>3
      <4>2. CASE ~s[w].valid
        BY <4>2, <3>5, <2>0, <2>w, <2>v, <3>1, <3>2, <1>3
      <4> QED  BY <4>1, <4>2
    <3> QED  BY <3>2, <3>3, <3>4, <3>5, <2>0
  <2> QED  BY <2>1, <2>2
<1>6. Ordered(z, q)
  <2>1. Len(q) <= assoc
    BY <1>3, <1>4, assoc \in Nat, Len(u) \in Nat
  <2> QED  BY <1>4, <1>5, <2>1 DEF Ordered
<1>7. z \in [Ways -> Entry]
  BY DEF IsUpdated
<1> QED  BY <1>1, <1>2, <1>6, <1>7 DEF SetOK, q

LEMMA InvalidatedSet ==
  ASSUME NEW s, NEW r, SetOK(s, r), assoc \in Nat \ {0}, NEW w \in Ways, s[w].valid,
         NEW u, IsRemoval(u, r, s[w].lru + 1), NEW z, IsInvalidated(z, s, w)
  PROVE  SetOK(z, u)
<1>0. s \in [Ways -> Entry] /\ Ranked(s) /\ Distinct(s) /\ r \in Seq(Nat) /\ Len(r) <= assoc
      /\ \A v \in Ways : s[v].lru \in 0..(assoc - 1)
  BY DEF SetOK, Ordered, Entry, Ways
<1>1. Ranked(z)
  BY <1>0, InvalidatedRanks
<1>2. Distinct(z)
  BY <1>0 DEF Distinct, IsInvalidated, SameButRank
<1>a. Len(r) \in Nat
  BY <1>0
<1> DEFINE m == s[w].lru
<1>3. /\ u \in Seq(Nat) /\ Len(u) = Len(r) - 1 /\ Len(r) \in Nat
      /\ \A j \in 1..(Len(r) - 1) : u[j] = IF j < m + 1 THEN r[j] ELSE r[j + 1]
  BY <1>a DEF IsRemoval
<1>5. ASSUME NEW v \in Ways
      PROVE  IF z[v].valid THEN z[v].lru < Len(u) /\ u[z[v].lru + 1] = z[v].tag
             ELSE z[v].lru >= Len(u)
  <2> DEFINE a == s[v].lru
  <2>0. m \in 0..(assoc - 1) /\ a \in 0..(assoc - 1) /\ Len(r) <= assoc
    BY <1>0
  <2>w. m < Len(r)
    BY DEF SetOK, Ordered
  <2>v. IF s[v].valid THEN a < Len(r) /\ r[a + 1] = s[v].tag ELSE a >= Len(r)
    BY DEF SetOK, Ordered
  <2>1. CASE v = w
    <3>1. ~z[v].valid /\ z[v].lru = assoc - 1
      BY <2>1 DEF IsInvalidated
    <3> QED  BY <3>1, <1>3, <2>0
  <2>2. CASE v # w
    <3>1. /\ z[v].valid = s[v].valid /\ z[v].tag = s[v].tag
          /\ z[v].lru = IF a > m THEN a - 1 ELSE a
      BY <2>2 DEF IsInvalidated, SameButRank
    <3>2. a # m
      BY <1>0, <2>2 DEF Ranked
    <3> HIDE DEF a, m
    <3>3. CASE s[v].valid /\ a < m
      <4>1. a + 1 \in 1..(Len(r) - 1)
        BY <2>0, <2>w, <1>3, <3>3
      <4>2. u[a + 1] = r[a + 1]
        BY <4>1, <1>3, <3>3, <2>0
      <4> QED  BY <4>1, <4>2, <1>3, <3>1, <3>3, <2>0, <2>v
    <3>4. CASE s[v].valid /\ a > m
      <4>1. a \in 1..(Len(r) - 1) /\ (a - 1) + 1 = a
        BY <2>0, <2>v, <1>3, <3>4
      <4>2. u[a] = r[a + 1]
        BY <4>1, <1>3, <3>4, <2>0
      <4> QED  BY <4>1, <4>2, <1>3, <3>1, <3>4, <2>0, <2>v
    <3>5. CASE ~s[v].valid
      BY <3>5, <2>0, <2>w, <2>v, <3>1, <1>3
    <3> QED  BY <3>2, <3>3, <3>4, <3>5, <2>0
  <2> QED  BY <2>1, <2>2
<1>6. Ordered(z, u)
  <2>1. Len(u) <= assoc
    BY <1>0, <1>3
  <2> QED  BY <1>3, <1>5, <2>1 DEF Ordered
<1>7. z \in [Ways -> Entry]
  BY DEF IsInvalidated
<1> QED  BY <1>1, <1>2, <1>6, <1>7 DEF SetOK

(* No way but the one that search() returns has the tag.                   *)
LEMMA OnlyWay ==
  ASSUME NEW s, NEW r, SetOK(s, r), assoc \in Nat \ {0}, NEW t
  PROVE  /\ \A v \in Ways \ {Way(s, t)} : s[v].valid => s[v].tag # t
         /\ Hits(s, t) = {} => (s[Way(s, t)].valid => s[Way(s, t)].tag # t)
<1>1. Way(s, t) \in Ways
  BY WayIs
<1>2. ASSUME NEW v \in Ways \ {Way(s, t)}, s[v].valid, s[v].tag = t
      PROVE  FALSE
  <2>1. Hits(s, t) # {}
    BY <1>2 DEF Hits
  <2>2. s[Way(s, t)].valid /\ s[Way(s, t)].tag = t
    BY <2>1, WayIs
  <2> QED  BY <1>1, <1>2, <2>2 DEF SetOK, Distinct
<1> QED  BY <1>1, <1>2 DEF Hits

(* What a set says of the other tags after an update.                      *)
LEMMA UpdatedSays ==
  ASSUME NEW s, NEW r, SetOK(s, r), assoc \in Nat \ {0}, NEW t \in Nat,
         NEW d \in Knowledge, NEW z, IsUpdated(z, s, Way(s, t), t, d),
         NEW q, SetOK(z, q)
  PROVE  /\ Hits(z, t) # {} /\ Says(z, t) = d
         /\ \A u \in Nat \ {t} : Says(z, u) \in {Says(s, u), Untrained}
         /\ Hits(s, t) # {} => \A u \in Nat \ {t} : Says(z, u) = Says(s, u)
<1> DEFINE w == Way(s, t)
<1>1. w \in Ways
  BY WayIs
<1>2. z[w].valid /\ z[w].tag = t /\ z[w].type = d.type /\ z[w].target = d.target
  BY <1>1 DEF IsUpdated
<1>3. Hits(z, t) # {} /\ Says(z, t) = [type |-> d.type, target |-> d.target]
  BY <1>1, <1>2, SaysIs
<1>4. d = [type |-> d.type, target |-> d.target]
  BY DEF Knowledge
<1>5. ASSUME NEW u \in Nat \ {t}, NEW v \in Hits(z, u)
      PROVE  Says(z, u) = Says(s, u)
  <2>1. v \in Ways \ {w} /\ z[v].valid /\ z[v].tag = u
    BY <1>2, <1>5 DEF Hits
  <2>2. s[v].valid /\ s[v].tag = u /\ s[v].type = z[v].type /\ s[v].target = z[v].target
    BY <2>1 DEF IsUpdated, SameButRank
  <2>3. Says(s, u) = [type |-> s[v].type, target |-> s[v].target]
    BY <2>1, <2>2, SaysIs
  <2>4. Says(z, u) = [type |-> z[v].type, target |-> z[v].target]
    BY <2>1, SaysIs
  <2> QED  BY <2>2, <2>3, <2>4
<1>6. ASSUME NEW u \in Nat \ {t}, Hits(z, u) = {}
      PROVE  Says(z, u) = Untrained
  BY <1>6 DEF Says
<1>7. ASSUME NEW u \in Nat \ {t}, Hits(s, t) # {}, Hits(z, u) = {}
      PROVE  Says(s, u) = Untrained
  <2>1. s[w].tag = t
    BY <1>7, WayIs
  <2>2. Hits(s, u) = {}
    <3>1. ASSUME NEW v \in Hits(s, u)  PROVE FALSE
      <4>1. v \in Ways \ {w} /\ s[v].valid /\ s[v].tag = u
        BY <2>1, <3>1 DEF Hits
      <4>2. z[v].valid /\ z[v].tag = u
        BY <4>1 DEF IsUpdated, SameButRank
      <4> QED  BY <4>1, <4>2, <1>7 DEF Hits
    <3> QED  BY <3>1
  <2> QED  BY <2>2 DEF Says
<1> QED  BY <1>3, <1>4, <1>5, <1>6, <1>7

(* An update, with what the history of the set becomes.                    *)
LEMMA UpdateSet ==
  ASSUME NEW s, NEW r, SetOK(s, r), assoc \in Nat \ {0}, NEW t \in Nat, NEW d \in Knowledge
  PROVE  LET w == Way(s, t)
             z == Updated(s, w, t, d)
             rest == IF s[w].valid THEN Without(r, s[w].tag) ELSE r
         IN  /\ SetOK(z, <<t>> \o Without(rest, t)) /\ Says(z, t) = d
             /\ \A u \in Nat \ {t} : Says(z, u) \in {Says(s, u), Untrained}
<1> DEFINE w == Way(s, t)
           z == Updated(s, w, t, d)
           rest == IF s[w].valid THEN Without(r, s[w].tag) ELSE r
<1>1. w \in Ways /\ (IF Hits(s, t) # {} THEN s[w].valid /\ s[w].tag = t
                     ELSE s[w].lru = assoc - 1)
  BY WayIs
<1>2. \A v \in Ways \ {w} : s[v].valid => s[v].tag # t
  BY OnlyWay
<1>3. IsUpdated(z, s, w, t, d)
  BY <1>1, UpdatedIs DEF SetOK
<1> HIDE DEF w, z
<1>4. IsRest(rest, r, s, w)
  <2>1. CASE s[w].valid
    BY <1>1, <2>1, WithoutPresent DEF IsRest
  <2>2. CASE ~s[w].valid
    BY <1>1, <2>2 DEF IsRest
  <2> QED  BY <2>1, <2>2
<1>5. r \in Seq(Nat) /\ Len(r) \in Nat
  <2>1. r \in Seq(Nat)
    BY DEF SetOK, Ordered
  <2> QED  BY <2>1
<1>6. ASSUME NEW k \in 1..Len(r), s[w].valid => k # s[w].lru + 1
      PROVE  r[k] # t
  <2>1. \E v \in Ways : s[v].valid /\ s[v].lru = k - 1 /\ r[k] = s[v].tag
    BY ONLY <1>6, PlaceOf, SetOK(s, r), assoc \in Nat \ {0}
  <2>2. PICK v \in Ways : s[v].valid /\ s[v].lru = k - 1 /\ r[k] = s[v].tag
    BY <2>1
  <2>3. v # w
    BY <1>5, <1>6, <2>2
  <2> QED  BY <1>2, <2>2, <2>3
<1>7. rest \in Seq(Nat) /\ Without(rest, t) = rest
  <2>1. CASE s[w].valid
    <3>1. IsRemoval(rest, r, s[w].lru + 1)
      BY <2>1, <1>4 DEF IsRest
    <3>2. s[w].lru \in Nat
      <4>1. s[w] \in Entry
        BY <1>1 DEF SetOK
      <4> QED  BY <4>1 DEF Entry, Ways
    <3> HIDE DEF rest
    <3>3. ASSUME NEW k \in 1..Len(rest)  PROVE rest[k] # t
      <4>1. k \in 1..(Len(r) - 1)
        BY <3>1 DEF IsRemoval
      <4>2. rest[k] = IF k < s[w].lru + 1 THEN r[k] ELSE r[k + 1]
        BY <3>1, <4>1 DEF IsRemoval
      <4>3. CASE k < s[w].lru + 1
        <5>1. k \in 1..Len(r) /\ k # s[w].lru + 1
          BY <4>1, <4>3, <1>5, <3>2
        <5> QED  BY <5>1, <4>2, <4>3, <1>6
      <4>4. CASE ~ (k < s[w].lru + 1)
        <5>1. k + 1 \in 1..Len(r) /\ k + 1 # s[w].lru + 1
          BY <4>1, <4>4, <1>5, <3>2
        <5> QED  BY <5>1, <4>2, <4>4, <1>6
      <4> QED  BY <4>3, <4>4
    <3>4. rest \in Seq(Nat)
      BY <3>1 DEF IsRemoval
    <3> QED  BY <3>3, <3>4, WithoutAbsent
  <2>2. CASE ~s[w].valid
    <3>1. rest = r
      BY <2>2
    <3>2. \A k \in 1..Len(r) : r[k] # t
      BY <2>2, <1>6
    <3> QED  BY <3>1, <3>2, <1>5, WithoutAbsent
  <2> QED  BY <2>1, <2>2
<1> HIDE DEF rest
<1>8. SetOK(z, <<t>> \o rest)
  BY <1>1, <1>2, <1>3, <1>4, UpdatedSet
<1>9. Says(z, t) = d /\ \A u \in Nat \ {t} : Says(z, u) \in {Says(s, u), Untrained}
  BY <1>3, <1>8, UpdatedSays DEF w
<1> QED  BY <1>7, <1>8, <1>9 DEF w, z, rest

(* A use of an entry, with what the history of the set becomes.            *)
LEMMA TouchSet ==
  ASSUME NEW s, NEW r, SetOK(s, r), assoc \in Nat \ {0}, NEW t \in Nat, Hits(s, t) # {}
  PROVE  LET z == update_lru(s, Way(s, t))
         IN  /\ SetOK(z, <<t>> \o Without(r, t))
             /\ \A u \in Nat : Says(z, u) = Says(s, u)
<1> DEFINE w == Way(s, t)
           z == update_lru(s, w)
           d == [type |-> s[w].type, target |-> s[w].target]
<1>1. w \in Ways /\ s[w].valid /\ s[w].tag = t
  BY WayIs
<1>2. s \in [Ways -> Entry] /\ s[w] \in Entry
  BY <1>1 DEF SetOK
<1>3. d \in Knowledge /\ d.type = s[w].type /\ d.target = s[w].target
  BY <1>2 DEF Entry, Knowledge
<1>4. Says(s, t) = d
  BY <1>1, SaysIs
<1>5. IsUpdated(z, s, w, t, d)
  <2>1. ASSUME NEW v \in Ways
        PROVE  /\ z[v] \in Entry /\ SameButRank(z[v], s[v])
               /\ z[v].lru = IF v = w THEN 0
                             ELSE IF s[v].lru < s[w].lru THEN s[v].lru + 1 ELSE s[v].lru
    <3> DEFINE a == s[v]
               n == IF v = w THEN 0 ELSE IF a.lru < s[w].lru THEN a.lru + 1 ELSE a.lru
    <3>1. z[v] = [a EXCEPT !.lru = n]
      BY DEF update_lru
    <3>2. a \in Entry /\ s[w] \in Entry
      BY <1>2
    <3>3. a.lru \in Ways /\ s[w].lru \in Ways
      BY <3>2 DEF Entry
    <3>4. n \in Ways
      BY <3>3 DEF Ways
    <3> HIDE DEF n, a, z
    <3>5. [a EXCEPT !.lru = n] \in Entry
      BY <3>2, <3>4 DEF Entry
    <3>6. SameButRank([a EXCEPT !.lru = n], a) /\ [a EXCEPT !.lru = n].lru = n
      BY <3>2 DEF Entry, SameButRank
    <3> QED  BY <3>1, <3>5, <3>6 DEF n, a
  <2>2. z = [v \in Ways |-> z[v]]
    BY DEF update_lru
  <2> HIDE DEF z, d, w
  <2>3. z \in [Ways -> Entry]
    BY <2>1, <2>2
  <2> QED  BY <1>1, <1>3, <2>1, <2>3 DEF IsUpdated, SameButRank
<1>6. \A v \in Ways \ {w} : s[v].valid => s[v].tag # t
  BY OnlyWay
<1> HIDE DEF z, d
<1>7. IsRest(Without(r, t), r, s, w)
  BY <1>1, WithoutPresent DEF IsRest
<1> HIDE DEF w
<1>8. SetOK(z, <<t>> \o Without(r, t))
  BY <1>1, <1>3, <1>5, <1>6, <1>7, UpdatedSet
<1>9. Says(z, t) = d /\ \A u \in Nat \ {t} : Says(z, u) = Says(s, u)
  BY <1>3, <1>5, <1>8, UpdatedSays DEF w
<1> QED  BY <1>4, <1>8, <1>9 DEF w, z

(* An invalidation, with what the history of the set becomes.              *)
LEMMA InvalidateSet ==
  ASSUME NEW s, NEW r, SetOK(s, r), assoc \in Nat \ {0}, NEW t \in Nat, Hits(s, t) # {}
  PROVE  LET z == Invalidated(s, Way(s, t))
         IN  /\ SetOK(z, Without(r, t)) /\ Says(z, t) = Untrained
             /\ \A u \in Nat \ {t} : Says(z, u) = Says(s, u)
<1> DEFINE w == Way(s, t)
           z == Invalidated(s, w)
<1>1. w \in Ways /\ s[w].valid /\ s[w].tag = t
  BY WayIs
<1>2. s \in [Ways -> Entry]
  BY DEF SetOK
<1>3. IsInvalidated(z, s, w)
  BY <1>1, <1>2, InvalidatedIs
<1>4. \A v \in Ways \ {w} : s[v].valid => s[v].tag # t
  BY OnlyWay
<1> HIDE DEF z
<1>5. IsRemoval(Without(r, t), r, s[w].lru + 1)
  BY <1>1, WithoutPresent
<1> HIDE DEF w
<1>6. SetOK(z, Without(r, t))
  BY <1>1, <1>3, <1>5, InvalidatedSet
<1>7. Hits(z, t) = {}
  BY <1>3, <1>4 DEF Hits, IsInvalidated, SameButRank
<1>8. ASSUME NEW u \in Nat \ {t}
      PROVE  Says(z, u) = Says(s, u)
  <2>1. ASSUME NEW v \in Ways
        PROVE  v \in Hits(z, u) <=> v \in Hits(s, u)
    <3>1. CASE v = w
      BY <3>1, <1>1, <1>3 DEF Hits, IsInvalidated
    <3>2. CASE v # w
      BY <3>2, <1>3 DEF Hits, IsInvalidated, SameButRank
    <3> QED  BY <3>1, <3>2
  <2>2. CASE Hits(s, u) = {}
    <3>1. Hits(z, u) = {}
      BY <2>1, <2>2 DEF Hits
    <3> QED  BY <2>2, <3>1 DEF Says
  <2>3. CASE Hits(s, u) # {}
    <3>1. PICK v \in Ways : s[v].valid /\ s[v].tag = u
      BY <2>3 DEF Hits
    <3>2. v # w
      BY <1>1, <3>1
    <3>3. z[v].valid /\ z[v].tag = u /\ z[v].type = s[v].type /\ z[v].target = s[v].target
      BY <1>3, <3>1, <3>2 DEF IsInvalidated, SameButRank
    <3>4. Says(s, u) = [type |-> s[v].type, target |-> s[v].target]
      BY <3>1, SaysIs
    <3>5. Says(z, u) = [type |-> z[v].type, target |-> z[v].target]
      BY <3>3, <1>6, SaysIs
    <3> QED  BY <3>3, <3>4, <3>5
  <2> QED  BY <2>2, <2>3
<1> QED  BY <1>6, <1>7, <1>8 DEF Says, w, z

-----------------------------------------------------------------------------
(* The tables.                                                             *)

TableOK(b, r) ==
  /\ b \in Table /\ r \in Uses
  /\ \A k \in Bank, i \in SetNo : SetOK(b[k][i], r[k][i])

(* What a table says of an instruction.                                    *)
Known(b, p) == Says(SetOf(b, p), tag(p))

LEMMA Positive ==
  /\ banks \in Nat \ {0} /\ sets \in Nat \ {0} /\ assoc \in Nat \ {0}
  /\ cond_branch_per_cycle \in Nat \ {0}
BY BTBAssumption

LEMMA Addresses == PC \subseteq Nat /\ 0 \in PC /\ Cardinality(PC) \in Nat
<1>1. Cardinality(PC) \in Nat
  BY BTBAssumption, FS_CardinalityType
<1>2. PC = 0..(Cardinality(PC) - 1) /\ 0 \in PC
  BY BTBAssumption
<1> DEFINE n == Cardinality(PC)
           P == PC
<1> HIDE DEF n, P
<1>3. n \in Nat /\ P = 0..(n - 1) /\ 0 \in P
  BY <1>1, <1>2 DEF n, P
<1>4. P \subseteq Nat
  BY <1>3
<1> QED  BY <1>1, <1>3, <1>4 DEF P

LEMMA Coordinates ==
  ASSUME NEW p \in PC
  PROVE  convert(p).bank \in Bank /\ index(p) \in SetNo /\ tag(p) \in Nat
<1>1. p \in Nat
  BY Addresses
<1>2. p % banks \in 0..(banks - 1) /\ p \div banks \in Nat
  BY <1>1, Positive, Division
<1>3. convert(p).bank = p % banks /\ convert(p).btb_pc = p \div banks
  BY DEF convert
<1>4. (p \div banks) % sets \in 0..(sets - 1) /\ (p \div banks) \div sets \in Nat
  BY <1>2, Positive, Division
<1> QED  BY <1>2, <1>3, <1>4 DEF index, tag, Bank, SetNo

SameSet(p, q) == convert(p).bank = convert(q).bank /\ index(p) = index(q)

IsWith(z, V, b, p, s) ==
  /\ z \in [Bank -> [SetNo -> V]]
  /\ \A k \in Bank, i \in SetNo :
       z[k][i] = IF k = convert(p).bank /\ i = index(p) THEN s ELSE b[k][i]
  /\ \A q \in PC : SetOf(z, q) = IF SameSet(p, q) THEN s ELSE SetOf(b, q)

(* A set is replaced alone.                                                *)
LEMMA WithSetIs ==
  ASSUME NEW V, NEW b, b \in [Bank -> [SetNo -> V]], NEW p, p \in PC, NEW s, s \in V
  PROVE  IsWith(WithSet(b, p, s), V, b, p, s)
<1> DEFINE x == convert(p).bank
           y == index(p)
           z == WithSet(b, p, s)
<1>1. x \in Bank /\ y \in SetNo
  BY Coordinates
<1> HIDE DEF x, y
<1>2. z = [b EXCEPT ![x][y] = s]
  BY DEF WithSet, x, y
<1>3. z \in [Bank -> [SetNo -> V]]
  BY <1>1, <1>2
<1>4. \A k \in Bank, i \in SetNo : z[k][i] = IF k = x /\ i = y THEN s ELSE b[k][i]
  BY <1>1, <1>2
<1> HIDE DEF z
<1>5. ASSUME NEW q \in PC
      PROVE  SetOf(z, q) = IF SameSet(p, q) THEN s ELSE SetOf(b, q)
  <2>1. convert(q).bank \in Bank /\ index(q) \in SetNo
    BY Coordinates
  <2> QED  BY <1>4, <2>1 DEF SetOf, SameSet, x, y
<1> QED  BY <1>3, <1>4, <1>5 DEF IsWith, x, y, z

LEMMA SetsOK ==
  ASSUME NEW b, NEW r, TableOK(b, r), NEW p \in PC
  PROVE  SetOK(SetOf(b, p), SetOf(r, p))
BY Coordinates DEF TableOK, SetOf

LEMMA WithSetOK ==
  ASSUME NEW b, NEW r, TableOK(b, r), NEW p \in PC, NEW s, NEW u, SetOK(s, u)
  PROVE  TableOK(WithSet(b, p, s), WithSet(r, p, u))
<1> DEFINE V == [Ways -> Entry]
           H == Seq(Nat)
<1>1. s \in V /\ u \in H
  BY DEF SetOK, Ordered
<1>2. b \in [Bank -> [SetNo -> V]] /\ r \in [Bank -> [SetNo -> H]]
  BY DEF TableOK, Table, Uses
<1> HIDE DEF V, H
<1>3. IsWith(WithSet(b, p, s), V, b, p, s)
  BY ONLY <1>1, <1>2, p \in PC, WithSetIs
<1>4. IsWith(WithSet(r, p, u), H, r, p, u)
  BY ONLY <1>1, <1>2, p \in PC, WithSetIs
<1>5. ASSUME NEW k \in Bank, NEW i \in SetNo
      PROVE  SetOK(WithSet(b, p, s)[k][i], WithSet(r, p, u)[k][i])
  <2>1. SetOK(b[k][i], r[k][i])
    BY DEF TableOK
  <2>2. CASE k = convert(p).bank /\ i = index(p)
    BY <2>2, <1>3, <1>4 DEF IsWith
  <2>3. CASE ~ (k = convert(p).bank /\ i = index(p))
    BY <2>1, <2>3, <1>3, <1>4 DEF IsWith
  <2> QED  BY <2>2, <2>3
<1> QED  BY <1>3, <1>4, <1>5 DEF IsWith, TableOK, Table, Uses, V, H

(* What a table with another set says.                                     *)
LEMMA WithSetKnown ==
  ASSUME NEW b, NEW r, TableOK(b, r), NEW p \in PC, NEW s \in [Ways -> Entry],
         NEW q \in PC
  PROVE  /\ ~SameSet(p, q) => Known(WithSet(b, p, s), q) = Known(b, q)
         /\ SameSet(p, q) => /\ Known(WithSet(b, p, s), q) = Says(s, tag(q))
                             /\ Known(b, q) = Says(SetOf(b, p), tag(q))
                             /\ q # p => tag(q) \in Nat \ {tag(p)}
<1> DEFINE V == [Ways -> Entry]
<1>1. b \in [Bank -> [SetNo -> V]] /\ s \in V
  BY DEF TableOK, Table
<1> HIDE DEF V
<1>a. IsWith(WithSet(b, p, s), V, b, p, s)
  BY ONLY <1>1, p \in PC, WithSetIs
<1>2. SetOf(WithSet(b, p, s), q) = IF SameSet(p, q) THEN s ELSE SetOf(b, q)
  BY <1>a DEF IsWith
<1>3. ASSUME SameSet(p, q), q # p
      PROVE  tag(q) \in Nat \ {tag(p)}
  <2>1. p \in Nat /\ q \in Nat
    BY Addresses
  <2>2. tag(q) \in Nat
    BY Coordinates
  <2>3. tag(q) # tag(p)
    BY <1>3, <2>1, Positive, CoordinatesDiffer DEF SameSet
  <2> QED  BY <2>2, <2>3
<1>4. SameSet(p, q) => SetOf(b, q) = SetOf(b, p)
  BY DEF SetOf, SameSet
<1> QED  BY <1>2, <1>3, <1>4 DEF Known

LEMMA SameSetItself ==
  ASSUME NEW p
  PROVE  SameSet(p, p)
BY DEF SameSet

(* A table knows an instruction exactly when its search hits.              *)
LEMMA HitKnown ==
  ASSUME NEW b, NEW r, TableOK(b, r), NEW p \in PC
  PROVE  /\ search(b, p).hit <=> Hits(SetOf(b, p), tag(p)) # {}
         /\ search(b, p).hit <=> Known(b, p) # Untrained
         /\ search(b, p).way = Way(SetOf(b, p), tag(p))
         /\ search(b, p).way \in Ways /\ SetOf(b, p)[search(b, p).way] \in Entry
         /\ search(b, p).hit =>
              /\ Known(b, p) = [type |-> SetOf(b, p)[search(b, p).way].type,
                                target |-> SetOf(b, p)[search(b, p).way].target]
              /\ Known(b, p) \in Knowledge /\ Known(b, p).type # "none"
<1> DEFINE s == SetOf(b, p)
           w == Way(s, tag(p))
<1>1. search(b, p).hit = (Hits(s, tag(p)) # {}) /\ search(b, p).way = w
  BY DEF search
<1>2. SetOK(s, SetOf(r, p))
  BY SetsOK
<1>3. w \in Ways
  BY <1>2, Positive, WayIs
<1>4. s[w] \in Entry
  BY <1>2, <1>3 DEF SetOK
<1>5. s[w].type \in BranchKinds /\ s[w].target \in PC
  BY <1>4 DEF Entry
<1>6. s[w].type # "none"
  BY <1>5 DEF BranchKinds, Calls, Direct
<1> DEFINE e == [type |-> s[w].type, target |-> s[w].target]
<1>7. e \in Knowledge /\ e.type = s[w].type /\ Untrained.type = "none"
  BY <1>5 DEF Knowledge, Untrained
<1>8. Known(b, p) = IF Hits(s, tag(p)) = {} THEN Untrained ELSE e
  BY DEF Known, Says
<1> HIDE DEF s, w, e
<1>9. Known(b, p) # Untrained <=> Hits(s, tag(p)) # {}
  BY <1>6, <1>7, <1>8
<1> QED  BY <1>1, <1>3, <1>4, <1>6, <1>7, <1>8, <1>9 DEF s, w, e

-----------------------------------------------------------------------------
(* What the operations do to a table.                                      *)

(* y says of p what d is, and of no other instruction anything new: of     *)
(* those in other banks just what x says.                                  *)
Learns(x, y, p, d) ==
  /\ Known(y, p) = d
  /\ \A q \in PC \ {p} : Known(y, q) \in {Known(x, q), Untrained}
  /\ \A q \in PC : convert(q).bank # convert(p).bank => Known(y, q) = Known(x, q)

SaysSame(x, y) == \A q \in PC : Known(y, q) = Known(x, q)

(* A use changes the ranks only.                                           *)
LEMMA TouchTable ==
  ASSUME NEW b, NEW r, TableOK(b, r), NEW p \in PC, search(b, p).hit
  PROVE  LET c == WithSet(b, p, update_lru(SetOf(b, p), search(b, p).way))
         IN  TableOK(c, Touch(r, p)) /\ SaysSame(b, c)
<1> DEFINE s == SetOf(b, p)
           z == update_lru(s, Way(s, tag(p)))
           u == <<tag(p)>> \o Without(SetOf(r, p), tag(p))
<1>1. SetOK(s, SetOf(r, p)) /\ tag(p) \in Nat
  BY SetsOK, Coordinates
<1>2. Hits(s, tag(p)) # {} /\ search(b, p).way = Way(s, tag(p))
  BY HitKnown
<1>3. SetOK(z, u) /\ \A t \in Nat : Says(z, t) = Says(s, t)
  BY <1>1, <1>2, Positive, TouchSet
<1> HIDE DEF z, u
<1>4. TableOK(WithSet(b, p, z), WithSet(r, p, u))
  BY <1>3, WithSetOK
<1>5. z \in [Ways -> Entry]
  BY <1>3 DEF SetOK
<1>6. ASSUME NEW q \in PC
      PROVE  Known(WithSet(b, p, z), q) = Known(b, q)
  <2>1. tag(q) \in Nat
    BY Coordinates
  <2> QED  BY <2>1, <1>3, <1>5, WithSetKnown
<1> QED  BY <1>2, <1>4, <1>6 DEF Touch, SaysSame, z, u

LEMMA InvalidateTable ==
  ASSUME NEW b, NEW r, TableOK(b, r), NEW p \in PC, search(b, p).hit
  PROVE  TableOK(invalidate(b, p), Forget(r, p, tag(p)))
         /\ Learns(b, invalidate(b, p), p, Untrained)
<1> DEFINE s == SetOf(b, p)
           z == Invalidated(s, Way(s, tag(p)))
           u == Without(SetOf(r, p), tag(p))
<1>1. SetOK(s, SetOf(r, p)) /\ tag(p) \in Nat
  BY SetsOK, Coordinates
<1>2. Hits(s, tag(p)) # {} /\ search(b, p).way = Way(s, tag(p))
  BY HitKnown
<1>3. SetOK(z, u) /\ Says(z, tag(p)) = Untrained
      /\ \A t \in Nat \ {tag(p)} : Says(z, t) = Says(s, t)
  BY <1>1, <1>2, Positive, InvalidateSet
<1> HIDE DEF z, u
<1>4. TableOK(WithSet(b, p, z), WithSet(r, p, u))
  BY <1>3, WithSetOK
<1>5. z \in [Ways -> Entry]
  BY <1>3 DEF SetOK
<1>6. ASSUME NEW q \in PC \ {p}
      PROVE  Known(WithSet(b, p, z), q) = Known(b, q)
  BY <1>3, <1>5, WithSetKnown
<1>7. Known(WithSet(b, p, z), p) = Untrained
  BY <1>3, <1>5, WithSetKnown, SameSetItself
<1>8. invalidate(b, p) = WithSet(b, p, z) /\ Forget(r, p, tag(p)) = WithSet(r, p, u)
  BY <1>2 DEF invalidate, Forget, z, u
<1>9. Learns(b, WithSet(b, p, z), p, Untrained)
  BY <1>6, <1>7 DEF Learns
<1> QED  BY <1>4, <1>8, <1>9

LEMMA WithSetTwice ==
  ASSUME NEW V, NEW r \in [Bank -> [SetNo -> V]], NEW p \in PC, NEW x \in V, NEW y \in V
  PROVE  /\ WithSet(WithSet(r, p, x), p, y) = WithSet(r, p, y)
         /\ SetOf(WithSet(r, p, x), p) = x
<1>1. convert(p).bank \in Bank /\ index(p) \in SetNo
  BY Coordinates
<1>2. SetOf(WithSet(r, p, x), p) = x
  BY <1>1 DEF WithSet, SetOf
<1>3. WithSet(WithSet(r, p, x), p, y) = WithSet(r, p, y)
  BY <1>1 DEF WithSet
<1> QED  BY <1>2, <1>3

LEMMA UpdateTable ==
  ASSUME NEW b, NEW r, TableOK(b, r), NEW p \in PC, NEW i, decode(i) \in Knowledge
  PROVE  LET victim == SetOf(b, p)[search(b, p).way]
             rest == IF victim.valid THEN Forget(r, p, victim.tag) ELSE r
         IN  TableOK(update(b, p, i), Touch(rest, p))
             /\ Learns(b, update(b, p, i), p, decode(i))
<1> DEFINE s == SetOf(b, p)
           w == Way(s, tag(p))
           h == SetOf(r, p)
           d == decode(i)
           z == Updated(s, w, tag(p), d)
           g == IF s[w].valid THEN Without(h, s[w].tag) ELSE h
           u == <<tag(p)>> \o Without(g, tag(p))
           rest == IF s[w].valid THEN Forget(r, p, s[w].tag) ELSE r
<1>1. SetOK(s, h) /\ tag(p) \in Nat
  BY SetsOK, Coordinates
<1>2. search(b, p).way = w /\ w \in Ways
  BY HitKnown
<1>3. SetOK(z, u) /\ Says(z, tag(p)) = d
      /\ \A t \in Nat \ {tag(p)} : Says(z, t) \in {Says(s, t), Untrained}
  BY <1>1, Positive, UpdateSet
<1>4. h \in Seq(Nat) /\ g \in Seq(Nat) /\ u \in Seq(Nat)
  <2>1. h \in Seq(Nat)
    BY <1>1 DEF SetOK, Ordered
  <2>2. u \in Seq(Nat)
    BY <1>3 DEF SetOK, Ordered
  <2>3. CASE s[w].valid
    <3>1. IsRemoval(Without(h, s[w].tag), h, s[w].lru + 1)
      BY <1>1, <1>2, <2>3, Positive, WithoutPresent
    <3>2. g \in Seq(Nat)
      BY <2>3, <3>1 DEF IsRemoval
    <3> QED  BY <2>1, <2>2, <3>2
  <2>4. CASE ~s[w].valid
    BY <2>1, <2>2, <2>4
  <2> QED  BY <2>3, <2>4
<1> HIDE DEF z, u
<1>5. TableOK(WithSet(b, p, z), WithSet(r, p, u))
  BY <1>3, WithSetOK
<1>6. z \in [Ways -> Entry]
  BY <1>3 DEF SetOK
<1>7. ASSUME NEW q \in PC \ {p}
      PROVE  /\ Known(WithSet(b, p, z), q) \in {Known(b, q), Untrained}
             /\ convert(q).bank # convert(p).bank => Known(WithSet(b, p, z), q) = Known(b, q)
  <2>1. CASE SameSet(p, q)
    <3>1. /\ Known(WithSet(b, p, z), q) = Says(z, tag(q))
          /\ Known(b, q) = Says(s, tag(q)) /\ tag(q) \in Nat \ {tag(p)}
      BY <2>1, <1>6, WithSetKnown
    <3> QED  BY <3>1, <1>3, <2>1 DEF SameSet
  <2>2. CASE ~SameSet(p, q)
    <3>1. Known(WithSet(b, p, z), q) = Known(b, q)
      BY <2>2, <1>6, WithSetKnown
    <3> QED  BY <3>1
  <2> QED  BY <2>1, <2>2
<1>8. Known(WithSet(b, p, z), p) = d
  BY <1>3, <1>6, WithSetKnown, SameSetItself
<1>9. Touch(rest, p) = WithSet(r, p, u)
  <2> DEFINE H == Seq(Nat)
  <2>1. r \in [Bank -> [SetNo -> H]] /\ g \in H /\ u \in H
    BY <1>4 DEF TableOK, Uses
  <2> HIDE DEF H
  <2>2. CASE s[w].valid
    <3>1. rest = WithSet(r, p, g)
      BY <2>2 DEF Forget
    <3> HIDE DEF g, rest
    <3>2. WithSet(WithSet(r, p, g), p, u) = WithSet(r, p, u) /\ SetOf(WithSet(r, p, g), p) = g
      BY ONLY <2>1, p \in PC, WithSetTwice
    <3>3. Touch(rest, p) = WithSet(rest, p, <<tag(p)>> \o Without(SetOf(rest, p), tag(p)))
      BY DEF Touch
    <3> QED  BY <3>1, <3>2, <3>3 DEF u
  <2>3. CASE ~s[w].valid
    BY <2>3 DEF Touch, u
  <2> QED  BY <2>2, <2>3
<1>10. update(b, p, i) = WithSet(b, p, z)
  BY <1>2 DEF update, z
<1> HIDE DEF d
<1>11. Learns(b, WithSet(b, p, z), p, d)
  BY <1>7, <1>8 DEF Learns
<1> QED  BY <1>2, <1>5, <1>9, <1>10, <1>11 DEF d

-----------------------------------------------------------------------------
(* A bundle is looked up.                                                  *)

Instruction == UNION {Text[p] : p \in PC}
Slots == [pc : PC, insn : Instruction, branch : BOOLEAN,
          type : BranchKinds \cup {"none"}, target : PC, next_pc : Nat]

TextOK == text \in [PC -> Instruction] /\ \A p \in PC : text[p] \in Text[p]

(* What a slot of a bundle has from a table that says what b does.         *)
SlotOK(e, q, b) ==
  /\ e \in Slots /\ q \in PC /\ e.pc = q /\ e.insn \in Text[q]
  /\ e.branch <=> Known(b, q) # Untrained
  /\ e.type = Known(b, q).type /\ e.target = Known(b, q).target

(* The bundle from start on, after k of its positions.                     *)
BundleFrom(bundle, start, b) ==
  /\ bundle \in Seq(Slots) /\ Len(bundle) \in Nat
  /\ \A j \in 1..Len(bundle) :
       /\ SlotOK(bundle[j], start + (j - 1), b)
       /\ bundle[j].insn.kind = "fault" => j = Len(bundle)
       /\ bundle[j].insn.kind # "fault" => bundle[j].next_pc \in PC

LookOK(l, k, start) ==
  /\ TableOK(l.btb, l.recency) /\ SaysSame(btb, l.btb)
  /\ BundleFrom(l.bundle, start, btb)
  /\ \A j \in 1..Len(l.bundle) : l.bundle[j].insn = text[start + (j - 1)]
  /\ Len(l.bundle) <= k /\ (k > 0 \/ l.terminated => Len(l.bundle) > 0)
  /\ ~l.terminated =>
       /\ Len(l.bundle) = k /\ start + k \in PC
       /\ \A j \in 1..Len(l.bundle) : l.bundle[j].insn.kind # "fault"

(* Only a fault has no instruction after it.                               *)
LEMMA NextAddress ==
  ASSUME NEW p \in PC, NEW i \in Text[p]
  PROVE  /\ i \in Instruction /\ p \in Nat /\ p + 1 \in Nat
         /\ i.kind # "fault" => p + 1 \in PC
<1>1. p \in Nat /\ Cardinality(PC) \in Nat
  BY Addresses
<1>2. PC = 0..(Cardinality(PC) - 1)
  BY BTBAssumption
<1>3. Text[Cardinality(PC) - 1] = {[kind |-> "fault", target |-> 0]}
  BY BTBAssumption
<1>4. ASSUME p + 1 \notin PC
      PROVE  i.kind = "fault"
  <2>1. p = Cardinality(PC) - 1
    <3> DEFINE n == Cardinality(PC)
               P == PC
    <3> HIDE DEF n, P
    <3>1. n \in Nat /\ P = 0..(n - 1) /\ p \in P /\ p + 1 \notin P
      BY <1>1, <1>2, <1>4 DEF n, P
    <3>2. p = n - 1
      BY <3>1
    <3> QED  BY <3>2 DEF n
  <2>2. i = [kind |-> "fault", target |-> 0]
    BY <1>3, <2>1
  <2> QED  BY <2>2
<1>5. i \in Instruction
  BY DEF Instruction
<1> QED  BY <1>1, <1>4, <1>5

LEMMA Kinds ==
  ASSUME NEW p \in PC, NEW i \in Text[p]
  PROVE  i.kind \in BranchKinds \cup {"plain", "serialize", "fault"} /\ i.target \in PC
BY BTBAssumption

(* One more position.                                                      *)
LEMMA LookedOK ==
  ASSUME TextOK, NEW start \in PC, NEW k \in Nat, NEW l, LookOK(l, k, start), ~l.terminated,
         NEW cb, NEW target \in PC
  PROVE  LookOK(Looked(l, start + k, cb, target), k + 1, start)
<1> DEFINE p       == start + k
           found   == search(l.btb, p)
           entry   == SetOf(l.btb, p)[found.way]
           cond    == found.hit /\ entry.type = "BTB_BRANCH"
           num_cb  == IF cond THEN l.num_cb + 1 ELSE l.num_cb
           taken   == cond /\ cb[num_cb]
           next_pc == IF ~found.hit \/ (cond /\ ~taken) THEN Inc(p)
                      ELSE IF entry.type \in Direct THEN entry.target ELSE target
           slot    == [pc |-> p, insn |-> text[p], branch |-> found.hit,
                       type |-> IF found.hit THEN entry.type ELSE "none",
                       target |-> IF found.hit THEN entry.target ELSE 0, next_pc |-> next_pc]
           m       == Looked(l, p, cb, target)
<1>1. p \in PC /\ Len(l.bundle) = k /\ start \in Nat
  BY Addresses DEF LookOK
<1>2. TableOK(l.btb, l.recency) /\ SaysSame(btb, l.btb)
  BY DEF LookOK
<1>3. /\ m.bundle = Append(l.bundle, slot)
      /\ m.btb = IF found.hit THEN WithSet(l.btb, p, update_lru(SetOf(l.btb, p), found.way))
                 ELSE l.btb
      /\ m.recency = IF found.hit THEN Touch(l.recency, p) ELSE l.recency
      /\ m.terminated = TerminatesBundle(slot, taken, num_cb)
  BY DEF Looked
<1> HIDE DEF m
<1>4. TableOK(m.btb, m.recency) /\ SaysSame(btb, m.btb)
  <2>1. CASE found.hit
    <3> DEFINE c == WithSet(l.btb, p, update_lru(SetOf(l.btb, p), found.way))
    <3>1. TableOK(c, Touch(l.recency, p)) /\ SaysSame(l.btb, c)
      BY <1>1, <1>2, <2>1, TouchTable
    <3>2. m.btb = c /\ m.recency = Touch(l.recency, p)
      BY <1>3, <2>1
    <3> HIDE DEF c
    <3> QED  BY <1>2, <3>1, <3>2 DEF SaysSame
  <2>2. CASE ~found.hit
    BY <1>2, <1>3, <2>2
  <2> QED  BY <2>1, <2>2
<1>5. /\ entry \in Entry /\ (found.hit <=> Known(btb, p) # Untrained) /\ found.hit \in BOOLEAN
      /\ found.hit => Known(btb, p) = [type |-> entry.type, target |-> entry.target]
  <2>1. Known(l.btb, p) = Known(btb, p)
    BY <1>1, <1>2 DEF SaysSame
  <2>2. found.hit \in BOOLEAN
    BY DEF search
  <2> QED  BY <1>1, <1>2, <2>1, <2>2, HitKnown
<1>6. text[p] \in Text[p] /\ text[p] \in Instruction /\ p \in Nat /\ p + 1 \in Nat
      /\ (text[p].kind # "fault" => p + 1 \in PC)
  BY <1>1, NextAddress DEF TextOK
<1>7. entry.type \in BranchKinds /\ entry.target \in PC /\ entry.target \in Nat /\ target \in Nat
  BY <1>5, Addresses DEF Entry
<1>8. next_pc \in Nat /\ (text[p].kind # "fault" => next_pc \in PC)
  BY <1>6, <1>7 DEF Inc
<1> HIDE DEF entry, found, taken, next_pc, cond, num_cb
<1>9. SlotOK(slot, p, btb)
  <2>1. slot \in Slots
    BY <1>1, <1>5, <1>6, <1>7, <1>8, Addresses DEF Slots
  <2>2. slot.type = Known(btb, p).type /\ slot.target = Known(btb, p).target
    <3>1. CASE found.hit
      BY <3>1, <1>5
    <3>2. CASE ~found.hit
      BY <3>2, <1>5 DEF Untrained
    <3> QED  BY <3>1, <3>2
  <2> QED  BY <1>1, <1>5, <1>6, <2>1, <2>2 DEF SlotOK
<1>10. slot.insn = text[p] /\ slot.next_pc = next_pc
  OBVIOUS
<1> HIDE DEF slot
<1>11. BundleFrom(l.bundle, start, btb)
       /\ \A j \in 1..Len(l.bundle) : /\ l.bundle[j].insn = text[start + (j - 1)]
                                      /\ l.bundle[j].insn.kind # "fault"
  BY DEF LookOK
<1> DEFINE old == l.bundle
           new == m.bundle
<1>12. /\ new \in Seq(Slots) /\ Len(new) = k + 1 /\ new[k + 1] = slot
       /\ \A j \in 1..k : new[j] = old[j]
  <2>1. slot \in Slots /\ old \in Seq(Slots) /\ Len(old) = k
    BY <1>1, <1>9, <1>11 DEF SlotOK, BundleFrom
  <2>2. new = Append(old, slot)
    BY <1>3
  <2> HIDE DEF new, old
  <2> QED  BY <2>1, <2>2
<1>13. ASSUME NEW j \in 1..(k + 1)
       PROVE  /\ SlotOK(new[j], start + (j - 1), btb)
              /\ new[j].insn.kind = "fault" => j = k + 1
              /\ new[j].insn.kind # "fault" => new[j].next_pc \in PC
              /\ new[j].insn = text[start + (j - 1)]
              /\ j <= k => new[j].insn.kind # "fault"
  <2>1. CASE j = k + 1
    <3>1. start + (j - 1) = p /\ new[j] = slot /\ ~ (j <= k)
      BY <1>1, <1>12, <2>1
    <3> QED  BY <3>1, <2>1, <1>8, <1>9, <1>10
  <2>2. CASE j # k + 1
    <3>1. j \in 1..Len(old) /\ new[j] = old[j]
      BY <1>1, <1>12, <2>2
    <3>2. /\ SlotOK(old[j], start + (j - 1), btb)
          /\ old[j].insn.kind # "fault" => old[j].next_pc \in PC
          /\ old[j].insn = text[start + (j - 1)] /\ old[j].insn.kind # "fault"
      BY <3>1, <1>11 DEF BundleFrom
    <3> QED  BY <3>1, <3>2
  <2> QED  BY <2>1, <2>2
<1> HIDE DEF new, old
<1>14. BundleFrom(new, start, btb)
  BY <1>12, <1>13 DEF BundleFrom
<1>15. ASSUME ~m.terminated
       PROVE  /\ start + (k + 1) \in PC
              /\ \A j \in 1..(k + 1) : new[j].insn.kind # "fault"
  <2>1. slot.insn.kind # "fault"
    BY <1>3, <1>15 DEF TerminatesBundle
  <2>2. p + 1 \in PC /\ p + 1 = start + (k + 1)
    BY <2>1, <1>1, <1>6, <1>10
  <2>3. ASSUME NEW j \in 1..(k + 1)  PROVE new[j].insn.kind # "fault"
    BY <2>1, <1>12, <1>13
  <2> QED  BY <2>2, <2>3
<1>16. LookOK(m, k + 1, start)
  <2>1. Len(m.bundle) = k + 1
    BY <1>12 DEF new
  <2> QED  BY <2>1, <1>4, <1>13, <1>14, <1>15 DEF LookOK, new
<1> QED  BY <1>16 DEF m

LEMMA PrefixIs ==
  ASSUME NEW S, NEW w \in Seq(S), NEW n \in 0..Len(w)
  PROVE  /\ SubSeq(w, 1, n) \in Seq(S) /\ Len(SubSeq(w, 1, n)) = n
         /\ \A k \in 1..n : SubSeq(w, 1, n)[k] = w[k]
OBVIOUS

LEMMA FunctionSeq ==
  ASSUME NEW n \in Nat, NEW S, NEW f \in [1..n -> S]
  PROVE  f \in Seq(S) /\ Len(f) = n
OBVIOUS

(* The whole bundle.                                                       *)
LEMMA LookupOK ==
  ASSUME TextOK, TableOK(btb, recency), NEW start \in PC, NEW cb, NEW target \in PC
  PROVE  LookOK(lookup(start, cb, target), banks, start)
<1> DEFINE base == [bundle |-> <<>>, num_cb |-> 0, btb |-> btb, recency |-> recency,
                    terminated |-> FALSE]
           seq == [k \in 1..banks |-> [pc |-> start + (k - 1), cb |-> cb, target |-> target]]
           S == {seq[k] : k \in 1..banks}
<1>1. banks \in Nat \ {0} /\ start \in Nat
  BY Positive, Addresses
<1>2. seq \in Seq(S) /\ Len(seq) = banks
  <2>1. seq \in [1..banks -> S]
    OBVIOUS
  <2> HIDE DEF seq, S
  <2> QED  BY <1>1, <2>1, FunctionSeq
<1>3. \A k \in 1..banks : /\ seq[k].pc = start + (k - 1)
                          /\ seq[k].cb = cb /\ seq[k].target = target
  OBVIOUS
<1>4. lookup(start, cb, target) = FoldLeft(Look, base, seq)
  BY DEF lookup
<1>5. LookOK(base, 0, start)
  <2>1. base.bundle = <<>> /\ base.btb = btb /\ base.recency = recency /\ ~base.terminated
    OBVIOUS
  <2>2. <<>> \in Seq(Slots) /\ Len(<<>>) = 0
    OBVIOUS
  <2> HIDE DEF base
  <2>3. BundleFrom(base.bundle, start, btb)
    BY <2>1, <2>2 DEF BundleFrom
  <2>4. SaysSame(btb, base.btb)
    BY <2>1 DEF SaysSame
  <2> QED  BY <1>1, <2>1, <2>2, <2>3, <2>4 DEF LookOK
<1> HIDE DEF base, seq, S
<1>a. FoldLeft(Look, base, seq) = Lookups!Fold(base, seq)
  BY DEF FoldLeft, MapThenFoldSet, Max,
         Lookups!Fold, Lookups!Latest
<1>6. PICK h : /\ Lookups!Steps(h, base, seq)
               /\ Lookups!Fold(base, seq) = h[Len(seq)]
  BY <1>2, WellOrder, Lookups!FoldSteps
<1>7. h[0] = base /\ \A k \in 1..banks : h[k] = Look(h[k - 1], seq[k])
  BY <1>2, <1>6 DEF Lookups!Steps
<1>8. ASSUME NEW k \in 0..(banks - 1), LookOK(h[k], k, start)
      PROVE  LookOK(h[k + 1], k + 1, start)
  <2>1. k \in Nat /\ k + 1 \in 1..banks /\ (k + 1) - 1 = k
    BY <1>1
  <2>2. h[k + 1] = Look(h[k], seq[k + 1])
    BY <1>7, <2>1
  <2>3. CASE h[k].terminated
    <3>1. h[k + 1] = h[k]
      BY <2>2, <2>3 DEF Look
    <3>2. Len(h[k].bundle) \in Nat /\ Len(h[k].bundle) <= k + 1 /\ Len(h[k].bundle) > 0
      BY <2>1, <2>3, <1>8 DEF LookOK, BundleFrom
    <3> QED  BY <1>8, <2>3, <3>1, <3>2 DEF LookOK
  <2>4. CASE ~h[k].terminated
    <3>1. h[k + 1] = Looked(h[k], start + k, cb, target)
      BY <2>1, <2>2, <2>4, <1>3 DEF Look
    <3> QED  BY <2>1, <2>4, <3>1, <1>8, LookedOK
  <2> QED  BY <2>3, <2>4
<1> DEFINE T == {k \in 0..banks : ~LookOK(h[k], k, start)}
<1>9. T = {}
  <2>1. SUFFICES ASSUME T # {}  PROVE FALSE
    OBVIOUS
  <2>2. T \in SUBSET Nat
    OBVIOUS
  <2>3. PICK k \in T : \A y \in T : k <= y
    BY <2>1, <2>2, Least
  <2>4. k \in 0..banks /\ ~LookOK(h[k], k, start) /\ k # 0
    BY <2>3, <1>5, <1>7
  <2>5. k - 1 \in 0..(banks - 1) /\ (k - 1) + 1 = k /\ ~ (k <= k - 1)
    BY <2>4, <1>1
  <2>6. LookOK(h[k - 1], k - 1, start)
    <3>1. k - 1 \notin T /\ k - 1 \in 0..banks
      BY <2>3, <2>5, <1>1
    <3> QED  BY <3>1
  <2> HIDE DEF T
  <2>7. LookOK(h[(k - 1) + 1], (k - 1) + 1, start)
    BY <2>5, <2>6, <1>8
  <2> QED  BY <2>4, <2>5, <2>7
<1>10. LookOK(h[banks], banks, start)
  BY <1>1, <1>9
<1> QED  BY <1>2, <1>4, <1>a, <1>6, <1>10

-----------------------------------------------------------------------------
(* A bundle is trained.                                                    *)

(* What is in the pipeline register of Fetch2.                             *)
BundleOK ==
  fetch2.valid =>
    /\ BundleFrom(fetch2.bundle, fetch2.pc, btb)
    /\ Len(fetch2.bundle) \in 1..banks /\ fetch2.pc \in PC

(* What the predecode leaves a table knowing of a slot's instruction.      *)
After(s, known) ==
  IF NonBranch(s) THEN Untrained ELSE IF Missed(s) THEN decode(s.insn) ELSE known

Knowledges == Knowledge \cup {Untrained}

(* A table says nothing but what an instruction was last trained as.       *)
TrainedOK(b, t) ==
  /\ t \in [PC -> Knowledges]
  /\ \A p \in PC : Known(b, p) \in {Untrained, t[p]}

TrainOK(t, k) ==
  /\ TableOK(t.btb, t.recency) /\ TrainedOK(t.btb, t.trained)
  /\ \A j \in DOMAIN Predecoded :
       Known(t.btb, Predecoded[j].pc) =
         IF j <= k THEN After(Predecoded[j], Known(btb, Predecoded[j].pc))
         ELSE Known(btb, Predecoded[j].pc)

(* The predecoded part of the bundle.                                      *)
LEMMA PredecodedIs ==
  ASSUME BundleOK, fetch2.valid
  PROVE  /\ Predecoded \in Seq(Slots) /\ Len(Predecoded) \in 1..Len(fetch2.bundle)
         /\ DOMAIN Predecoded = 1..Len(Predecoded) /\ Len(fetch2.bundle) \in 1..banks
         /\ \A j \in DOMAIN Predecoded : /\ Predecoded[j] = fetch2.bundle[j]
                                         /\ SlotOK(Predecoded[j], fetch2.pc + (j - 1), btb)
         /\ Serializers = {} => Predecoded = fetch2.bundle
         /\ Serializers # {} => Predecoded[Len(Predecoded)].insn.kind = "serialize"
<1> DEFINE b == fetch2.bundle
           n == IF Serializers = {} THEN Len(b) ELSE Min(Serializers)
<1>1. b \in Seq(Slots) /\ Len(b) \in 1..banks /\ banks \in Nat /\ Len(b) \in Nat
      /\ DOMAIN b = 1..Len(b)
  BY Positive DEF BundleOK, BundleFrom
<1>2. /\ n \in 1..Len(b)
      /\ Serializers # {} => b[n].insn.kind = "serialize"
      /\ Serializers = {} => n = Len(b)
  <2>1. CASE Serializers = {}
    BY <2>1, <1>1
  <2>2. CASE Serializers # {}
    <3>1. Serializers \in SUBSET Nat
      BY <1>1 DEF Serializers
    <3>2. \E x \in Serializers : \A y \in Serializers : x <= y
      BY <2>2, <3>1, Least
    <3>3. Min(Serializers) \in Serializers
      BY <3>2 DEF Min
    <3> QED  BY <1>1, <2>2, <3>3 DEF Serializers
  <2> QED  BY <2>1, <2>2
<1>3. Predecoded = SubSeq(b, 1, n)
  BY DEF Predecoded
<1> HIDE DEF n
<1>4. /\ SubSeq(b, 1, n) \in Seq(Slots) /\ Len(SubSeq(b, 1, n)) = n
      /\ \A j \in 1..n : SubSeq(b, 1, n)[j] = b[j]
      /\ n = Len(b) => SubSeq(b, 1, n) = b
  <2> HIDE DEF b
  <2>1. /\ SubSeq(b, 1, n) \in Seq(Slots) /\ Len(SubSeq(b, 1, n)) = n
        /\ \A j \in 1..n : SubSeq(b, 1, n)[j] = b[j]
    <3>1. b \in Seq(Slots) /\ Len(b) \in Nat
      BY <1>1
    <3>2. n \in 0..Len(b)
      BY ONLY <1>2, <3>1
    <3> QED  BY ONLY <3>1, <3>2, PrefixIs
  <2>2. n = Len(b) => SubSeq(b, 1, n) = b
    BY <1>1
  <2> QED  BY <2>1, <2>2
<1>5. DOMAIN Predecoded = 1..n
  BY <1>3, <1>4
<1>6. ASSUME NEW j \in 1..n
      PROVE  Predecoded[j] = b[j] /\ SlotOK(Predecoded[j], fetch2.pc + (j - 1), btb)
  <2>1. j \in 1..Len(b)
    BY <1>1, <1>2
  <2>2. Predecoded[j] = b[j]
    BY <1>3, <1>4
  <2> QED  BY <2>1, <2>2 DEF BundleOK, BundleFrom
<1>7. n \in 1..n
  BY <1>1, <1>2
<1> QED  BY <1>1, <1>2, <1>3, <1>4, <1>5, <1>6, <1>7

(* The positions of a bundle have banks of their own.                      *)
LEMMA BanksDiffer ==
  ASSUME BundleOK, fetch2.valid, NEW i \in DOMAIN Predecoded, NEW j \in DOMAIN Predecoded,
         i # j
  PROVE  convert(Predecoded[i].pc).bank # convert(Predecoded[j].pc).bank
<1>1. /\ i \in 1..banks /\ j \in 1..banks
      /\ Predecoded[i].pc = fetch2.pc + (i - 1) /\ Predecoded[j].pc = fetch2.pc + (j - 1)
  BY PredecodedIs, Positive DEF SlotOK
<1>2. fetch2.pc \in Nat /\ banks \in Nat \ {0}
  BY Addresses, Positive DEF BundleOK
<1> DEFINE x == fetch2.pc + (i - 1)
           y == fetch2.pc + (j - 1)
<1>3. x \in Nat /\ y \in Nat /\ (x < y => y - x < banks) /\ (y < x => x - y < banks) /\ x # y
  BY <1>1, <1>2
<1> HIDE DEF x, y
<1>4. x % banks # y % banks
  <2>1. CASE x < y
    BY <2>1, <1>2, <1>3, RemaindersDiffer
  <2>2. CASE y < x
    BY <2>2, <1>2, <1>3, RemaindersDiffer
  <2> QED  BY <1>3, <2>1, <2>2
<1> QED  BY <1>1, <1>4 DEF convert, x, y

(* What an instruction is decoded as is what a table may know.             *)
LEMMA Decoded ==
  ASSUME NEW p \in PC, NEW i \in Text[p], i.kind \in BranchKinds
  PROVE  /\ decode(i) \in Knowledge /\ decode(i).type = i.kind
         /\ i.kind \in Direct => decode(i).target = i.target
<1>1. i.target \in PC /\ 0 \in PC
  BY Kinds, Addresses
<1> QED  BY <1>1 DEF decode, Knowledge

(* One instruction is trained, or forgotten, or left alone.                *)
LEMMA LearnedOK ==
  ASSUME BundleOK, fetch2.valid, NEW t, NEW k \in Nat, TrainOK(t, k),
         k + 1 \in DOMAIN Predecoded, NEW x, NEW r, NEW d \in Knowledges,
         TableOK(x, r), Learns(t.btb, x, Predecoded[k + 1].pc, d),
         d = After(Predecoded[k + 1], Known(btb, Predecoded[k + 1].pc))
  PROVE  TrainOK([btb |-> x, trained |-> [t.trained EXCEPT ![Predecoded[k + 1].pc] = d],
                  recency |-> r], k + 1)
<1> DEFINE p == Predecoded[k + 1].pc
           tr == [t.trained EXCEPT ![p] = d]
           u == [btb |-> x, trained |-> tr, recency |-> r]
<1>1. p \in PC
  BY PredecodedIs DEF SlotOK
<1>2. /\ t.trained \in [PC -> Knowledges]
      /\ \A q \in PC : Known(t.btb, q) \in {Untrained, t.trained[q]}
  BY DEF TrainOK, TrainedOK
<1>a. Learns(t.btb, x, p, d)
  OBVIOUS
<1> HIDE DEF p
<1>3. TrainedOK(x, tr)
  <2>1. tr \in [PC -> Knowledges]
    BY <1>1, <1>2
  <2>2. ASSUME NEW q \in PC  PROVE Known(x, q) \in {Untrained, tr[q]}
    <3>1. CASE q = p
      BY <1>1, <1>2, <1>a, <3>1 DEF Learns
    <3>2. CASE q # p
      <4>1. Known(x, q) \in {Known(t.btb, q), Untrained}
        BY <1>a, <3>2 DEF Learns
      <4>2. tr[q] = t.trained[q]
        BY <1>1, <1>2, <3>2
      <4> QED  BY <4>1, <4>2, <1>2
    <3> QED  BY <3>1, <3>2
  <2> QED  BY <2>1, <2>2 DEF TrainedOK
<1>4. ASSUME NEW j \in DOMAIN Predecoded
      PROVE  Known(x, Predecoded[j].pc) =
               IF j <= k + 1 THEN After(Predecoded[j], Known(btb, Predecoded[j].pc))
               ELSE Known(btb, Predecoded[j].pc)
  <2>0. j \in Nat /\ Predecoded[j].pc \in PC
    BY PredecodedIs DEF SlotOK
  <2>1. CASE j = k + 1
    BY <2>1, <1>a DEF Learns, p
  <2>2. CASE j # k + 1
    <3>1. convert(Predecoded[j].pc).bank # convert(p).bank
      BY <2>2, BanksDiffer DEF p
    <3>2. Known(x, Predecoded[j].pc) = Known(t.btb, Predecoded[j].pc)
      BY <2>0, <3>1, <1>a DEF Learns
    <3>3. Known(t.btb, Predecoded[j].pc) =
            IF j <= k THEN After(Predecoded[j], Known(btb, Predecoded[j].pc))
            ELSE Known(btb, Predecoded[j].pc)
      BY DEF TrainOK
    <3>4. j <= k + 1 <=> j <= k
      BY <2>0, <2>2
    <3> QED  BY <3>2, <3>3, <3>4
  <2> QED  BY <2>1, <2>2
<1>5. u.btb = x /\ u.trained = tr /\ u.recency = r
  OBVIOUS
<1> HIDE DEF u, tr
<1>6. TrainOK(u, k + 1)
  BY <1>3, <1>4, <1>5 DEF TrainOK
<1> QED  BY <1>6 DEF u, tr, p

LEMMA TrainStep ==
  ASSUME BundleOK, fetch2.valid, NEW t, NEW k \in Nat, TrainOK(t, k),
         k + 1 \in DOMAIN Predecoded
  PROVE  TrainOK(Train(t, Predecoded[k + 1]), k + 1)
<1> DEFINE s == Predecoded[k + 1]
           p == s.pc
<1>1. SlotOK(s, p, btb) /\ p \in PC /\ s.insn \in Text[p]
  BY PredecodedIs DEF SlotOK
<1>2. Known(t.btb, p) = Known(btb, p) /\ TableOK(t.btb, t.recency)
  BY DEF TrainOK
<1>3. CASE NonBranch(s)
  <2>1. s.branch
    BY <1>3 DEF NonBranch
  <2>2. search(t.btb, p).hit
    BY <1>1, <1>2, <2>1, HitKnown DEF SlotOK
  <2>3. TableOK(invalidate(t.btb, p), Forget(t.recency, p, tag(p)))
        /\ Learns(t.btb, invalidate(t.btb, p), p, Untrained)
    BY <1>1, <1>2, <2>2, InvalidateTable
  <2>4. After(s, Known(btb, p)) = Untrained /\ Untrained \in Knowledges
    BY <1>3 DEF After, Knowledges
  <2>5. Train(t, s) = [btb |-> invalidate(t.btb, p),
                       trained |-> [t.trained EXCEPT ![p] = Untrained],
                       recency |-> Forget(t.recency, p, tag(p))]
    BY <1>3 DEF Train, Invalidate
  <2> QED  BY <2>3, <2>4, <2>5, LearnedOK
<1>4. CASE ~NonBranch(s) /\ Missed(s)
  <2> DEFINE i == s.insn
             victim == SetOf(t.btb, p)[search(t.btb, p).way]
             rest == IF victim.valid THEN Forget(t.recency, p, victim.tag) ELSE t.recency
  <2>1. decode(i) \in Knowledge
    BY <1>1, <1>4, Decoded DEF Missed
  <2>2. TableOK(update(t.btb, p, i), Touch(rest, p))
        /\ Learns(t.btb, update(t.btb, p, i), p, decode(i))
    BY <1>1, <1>2, <2>1, UpdateTable
  <2>3. After(s, Known(btb, p)) = decode(i) /\ decode(i) \in Knowledges
    BY <1>4, <2>1 DEF After, Knowledges
  <2>4. Train(t, s) = [btb |-> update(t.btb, p, i),
                       trained |-> [t.trained EXCEPT ![p] = decode(i)],
                       recency |-> Touch(rest, p)]
    BY <1>4 DEF Train, Update
  <2> HIDE DEF rest, victim
  <2> QED  BY <2>2, <2>3, <2>4, LearnedOK
<1>5. CASE ~NonBranch(s) /\ ~Missed(s)
  <2>1. Train(t, s) = t
    BY <1>5 DEF Train
  <2>2. After(s, Known(btb, p)) = Known(btb, p)
    BY <1>5 DEF After
  <2>3. ASSUME NEW j \in DOMAIN Predecoded
        PROVE  Known(t.btb, Predecoded[j].pc) =
                 IF j <= k + 1 THEN After(Predecoded[j], Known(btb, Predecoded[j].pc))
                 ELSE Known(btb, Predecoded[j].pc)
    <3>0. j \in Nat
      BY PredecodedIs
    <3>1. CASE j = k + 1
      BY <3>1, <1>2, <2>2
    <3>2. CASE j # k + 1
      <4>1. j <= k + 1 <=> j <= k
        BY <3>0, <3>2
      <4> QED  BY <4>1 DEF TrainOK
    <3> QED  BY <3>1, <3>2
  <2> QED  BY <2>1, <2>3 DEF TrainOK
<1> QED  BY <1>3, <1>4, <1>5

(* The positions up to k are trained.                                      *)
LEMMA TrainedUpTo ==
  ASSUME BundleOK, fetch2.valid, TableOK(btb, recency), TrainedOK(btb, trained),
         NEW n \in 0..Len(Predecoded)
  PROVE  TrainOK(Trained(n), n)
<1> DEFINE base == [btb |-> btb, trained |-> trained, recency |-> recency]
           seq == SubSeq(Predecoded, 1, n)
<1>1. Predecoded \in Seq(Slots) /\ Len(Predecoded) \in Nat
      /\ DOMAIN Predecoded = 1..Len(Predecoded)
  BY PredecodedIs
<1>2. seq \in Seq(Slots) /\ Len(seq) = n /\ \A k \in 1..n : seq[k] = Predecoded[k]
  BY <1>1, PrefixIs
<1>3. Trained(n) = FoldLeft(Train, base, seq)
  BY DEF Trained
<1>4. TrainOK(base, 0)
  <2>1. base.btb = btb /\ base.trained = trained /\ base.recency = recency
    OBVIOUS
  <2> HIDE DEF base
  <2>2. \A j \in DOMAIN Predecoded : ~ (j <= 0)
    BY <1>1
  <2> QED  BY <2>1, <2>2 DEF TrainOK
<1> HIDE DEF base, seq
<1>5. FoldLeft(Train, base, seq) = Trainings!Fold(base, seq)
  BY DEF FoldLeft, MapThenFoldSet, Max,
         Trainings!Fold, Trainings!Latest
<1>6. PICK h : /\ Trainings!Steps(h, base, seq)
               /\ Trainings!Fold(base, seq) = h[Len(seq)]
  BY <1>2, WellOrder, Trainings!FoldSteps
<1>7. h[0] = base /\ \A k \in 1..n : h[k] = Train(h[k - 1], Predecoded[k])
  BY <1>2, <1>6 DEF Trainings!Steps
<1>8. ASSUME NEW k \in 0..(n - 1), TrainOK(h[k], k)
      PROVE  TrainOK(h[k + 1], k + 1)
  <2>1. k \in Nat /\ k + 1 \in 1..n /\ (k + 1) - 1 = k /\ k + 1 \in DOMAIN Predecoded
    BY <1>1
  <2>2. h[k + 1] = Train(h[k], Predecoded[k + 1])
    BY <1>7, <2>1
  <2> QED  BY <2>1, <2>2, <1>8, TrainStep
<1> DEFINE T == {k \in 0..n : ~TrainOK(h[k], k)}
<1>9. T = {}
  <2>1. SUFFICES ASSUME T # {}  PROVE FALSE
    OBVIOUS
  <2>2. T \in SUBSET Nat
    OBVIOUS
  <2>3. PICK k \in T : \A y \in T : k <= y
    BY <2>1, <2>2, Least
  <2>4. k \in 0..n /\ ~TrainOK(h[k], k) /\ k # 0
    BY <2>3, <1>4, <1>7
  <2>5. k - 1 \in 0..(n - 1) /\ (k - 1) + 1 = k /\ ~ (k <= k - 1)
    BY <2>4
  <2>6. TrainOK(h[k - 1], k - 1)
    <3>1. k - 1 \notin T /\ k - 1 \in 0..n
      BY <2>3, <2>5
    <3> QED  BY <3>1
  <2> HIDE DEF T
  <2>7. TrainOK(h[(k - 1) + 1], (k - 1) + 1)
    BY <2>5, <2>6, <1>8
  <2> QED  BY <2>4, <2>5, <2>7
<1>10. TrainOK(h[n], n)
  BY <1>1, <1>9
<1> QED  BY <1>2, <1>3, <1>5, <1>6, <1>10

-----------------------------------------------------------------------------
(* What is right for an instruction.                                       *)

RightFor(known, i) ==
  IF i.kind \in BranchKinds
  THEN known.type = i.kind /\ (i.kind \in Direct => known.target = i.target)
  ELSE known = Untrained

(* The predecode leaves nothing wrong.                                     *)
LEMMA AfterIsRight ==
  ASSUME NEW b, NEW s, NEW q, SlotOK(s, q, b)
  PROVE  RightFor(After(s, Known(b, q)), s.insn)
<1>1. q \in PC /\ s.insn \in Text[q] /\ (s.branch <=> Known(b, q) # Untrained)
      /\ s.type = Known(b, q).type /\ s.target = Known(b, q).target
  BY DEF SlotOK
<1>2. CASE NonBranch(s)
  BY <1>2 DEF NonBranch, After, RightFor
<1>3. CASE ~NonBranch(s) /\ Missed(s)
  <2>1. s.insn.kind \in BranchKinds /\ After(s, Known(b, q)) = decode(s.insn)
    BY <1>3 DEF Missed, After
  <2> QED  BY <2>1, <1>1, Decoded DEF RightFor
<1>4. CASE ~NonBranch(s) /\ ~Missed(s)
  BY <1>1, <1>4 DEF NonBranch, Missed, After, RightFor
<1> QED  BY <1>2, <1>3, <1>4

(* Nothing that is right is trained again.                                 *)
LEMMA RightIsNotWrong ==
  ASSUME NEW b, NEW s, NEW q, SlotOK(s, q, b), RightFor(Known(b, q), s.insn)
  PROVE  ~Missed(s) /\ ~NonBranch(s)
<1>1. /\ s.branch <=> Known(b, q) # Untrained
      /\ s.type = Known(b, q).type /\ s.target = Known(b, q).target
  BY DEF SlotOK
<1>2. CASE s.insn.kind \in BranchKinds
  <2>1. s.type # "none"
    BY <1>1, <1>2 DEF RightFor, BranchKinds, Calls, Direct
  <2>2. s.branch
    BY <1>1, <2>1 DEF Untrained
  <2> QED  BY <1>1, <1>2, <2>2 DEF RightFor, Missed, NonBranch
<1>3. CASE s.insn.kind \notin BranchKinds
  BY <1>1, <1>3 DEF RightFor, Missed, NonBranch
<1> QED  BY <1>2, <1>3

-----------------------------------------------------------------------------
(* The invariant.                                                          *)

Start == IF fetch2.valid THEN fetch2.pc ELSE pc

(* Fetch goes on at an instruction unless it has met a fault.              *)
PcOK ==
  IF fetch2.valid
  THEN (\A j \in 1..Len(fetch2.bundle) : fetch2.bundle[j].insn.kind # "fault") => pc \in PC
  ELSE fetch_active => pc \in PC

(* After so many misfetches of a pc so many positions from it on are right.*)
Converging ==
  /\ misfetches \in -1..banks /\ (~fetch2.valid => misfetches >= 0)
  /\ fetch2.valid /\ misfetches >= 0 =>
       \A j \in 1..Len(fetch2.bundle) : fetch2.bundle[j].insn = text[fetch2.pc + (j - 1)]
  /\ \A j \in 1..misfetches :
       /\ Start + (j - 1) \in PC
       /\ RightFor(Known(btb, Start + (j - 1)), text[Start + (j - 1)])

BTBInv ==
  /\ TextOK /\ fetch2.valid \in BOOLEAN /\ TableOK(btb, recency) /\ TrainedOK(btb, trained)
  /\ BundleOK /\ PcOK /\ Converging

LEMMA InitInv == Init => BTBInv
<1> SUFFICES ASSUME Init PROVE BTBInv
  OBVIOUS
<1>1. TextOK
  <2>1. ASSUME NEW p \in PC  PROVE text[p] \in Text[p]
    <3>1. Text[p] # {}
      BY BTBAssumption
    <3>2. text[p] = CHOOSE i \in Text[p] : TRUE
      BY DEF Init
    <3> QED  BY <3>1, <3>2
  <2>2. \A p \in PC : text[p] \in Instruction
    BY <2>1 DEF Instruction
  <2>3. text = [p \in PC |-> text[p]]
    BY DEF Init
  <2>4. text \in [PC -> Instruction]
    BY <2>2, <2>3
  <2> QED  BY <2>1, <2>4 DEF TextOK
<1> DEFINE s == [w \in Ways |-> Empty(w)]
<1>2. s \in [Ways -> Entry] /\ \A w \in Ways : s[w].lru = w /\ s[w].valid = FALSE
  <2>1. \A w \in Ways : Empty(w) \in Entry
    BY Addresses DEF Empty, Entry, BranchKinds, Direct
  <2>2. \A w \in Ways : Empty(w).lru = w /\ Empty(w).valid = FALSE
    BY DEF Empty
  <2> QED  BY <2>1, <2>2
<1>3. SetOK(s, <<>>)
  <2> HIDE DEF s
  <2>1. Ranked(s)
    BY <1>2 DEF Ranked
  <2>2. Distinct(s)
    BY <1>2 DEF Distinct
  <2>3. Ordered(s, <<>>)
    <3>1. <<>> \in Seq(Nat) /\ Len(<<>>) = 0
      OBVIOUS
    <3>2. \A w \in Ways : w >= 0
      BY DEF Ways
    <3> QED  BY <1>2, <3>1, <3>2, Positive DEF Ordered
  <2> QED  BY <1>2, <2>1, <2>2, <2>3 DEF SetOK
<1>4. \A p \in PC : Known(btb, p) = Untrained
  <2>1. ASSUME NEW p \in PC  PROVE Known(btb, p) = Untrained
    <3>1. SetOf(btb, p) = s
      BY Coordinates DEF Init, SetOf, Bank, SetNo
    <3> HIDE DEF s
    <3>2. Hits(s, tag(p)) = {}
      BY <1>2 DEF Hits
    <3> QED  BY <3>1, <3>2 DEF Known, Says
  <2> QED  BY <2>1
<1>5. TableOK(btb, recency)
  <2>1. btb = [b \in Bank |-> [i \in SetNo |-> s]]
    BY DEF Init, Bank, SetNo
  <2>2. recency = [b \in Bank |-> [i \in SetNo |-> <<>>]]
    BY DEF Init, Bank, SetNo
  <2>3. <<>> \in Seq(Nat)
    OBVIOUS
  <2> HIDE DEF s
  <2>4. btb \in Table /\ \A b \in Bank, i \in SetNo : btb[b][i] = s
    BY <1>2, <2>1 DEF Table
  <2>5. recency \in Uses /\ \A b \in Bank, i \in SetNo : recency[b][i] = <<>>
    BY <2>2, <2>3 DEF Uses
  <2> QED  BY <1>3, <2>4, <2>5 DEF TableOK
<1>6. TrainedOK(btb, trained)
  <2>1. trained \in [PC -> Knowledges]
    BY DEF Init, Knowledges
  <2> QED  BY <1>4, <2>1 DEF TrainedOK
<1>7. fetch2.valid = FALSE /\ pc = 0 /\ misfetches = 0
  BY DEF Init
<1>8. BundleOK /\ PcOK
  BY <1>7, Addresses DEF BundleOK, PcOK
<1>9. Converging
  <2>1. 0 \in -1..banks /\ 1..0 = {}
    BY Positive
  <2> QED  BY <1>7, <2>1 DEF Converging
<1> QED  BY <1>1, <1>5, <1>6, <1>7, <1>8, <1>9 DEF BTBInv

LEMMA FetchInv ==
  ASSUME BTBInv, Fetch1
  PROVE  BTBInv'
<1>1. TextOK /\ TableOK(btb, recency) /\ TrainedOK(btb, trained) /\ PcOK /\ Converging
  BY DEF BTBInv
<1>2. ~fetch2.valid /\ pc \in PC
  BY <1>1 DEF Fetch1, PcOK
<1>3. PICK cb \in [1..cond_branch_per_cycle -> BOOLEAN], target \in PC :
         LET l == lookup(pc, cb, target)
         IN  /\ btb' = l.btb /\ recency' = l.recency
             /\ fetch2' = [valid |-> TRUE, pc |-> pc, bundle |-> l.bundle]
             /\ pc' = Last(l.bundle).next_pc
  BY DEF Fetch1
<1>4. PICK l : l = lookup(pc, cb, target)
  OBVIOUS
<1>5. LookOK(l, banks, pc)
  BY <1>1, <1>2, <1>4, LookupOK
<1>6. /\ btb' = l.btb /\ recency' = l.recency /\ pc' = Last(l.bundle).next_pc
      /\ fetch2'.valid = TRUE /\ fetch2'.pc = pc /\ fetch2'.bundle = l.bundle
      /\ text' = text /\ trained' = trained /\ misfetches' = misfetches
  BY <1>3, <1>4 DEF Fetch1
<1>7. /\ TableOK(l.btb, l.recency) /\ SaysSame(btb, l.btb)
      /\ BundleFrom(l.bundle, pc, btb) /\ Len(l.bundle) \in 1..banks
      /\ \A j \in 1..Len(l.bundle) : l.bundle[j].insn = text[pc + (j - 1)]
  <2>1. banks \in Nat /\ banks > 0
    BY Positive
  <2>2. Len(l.bundle) \in Nat
    BY <1>5 DEF LookOK, BundleFrom
  <2> QED  BY <1>5, <2>1, <2>2 DEF LookOK
<1>8. BundleFrom(l.bundle, pc, l.btb)
  BY <1>7 DEF BundleFrom, SlotOK, SaysSame
<1>9. TrainedOK(l.btb, trained)
  BY <1>1, <1>7 DEF TrainedOK, SaysSame
<1>10. ASSUME \A j \in 1..Len(l.bundle) : l.bundle[j].insn.kind # "fault"
       PROVE  Last(l.bundle).next_pc \in PC
  <2>1. Len(l.bundle) \in 1..Len(l.bundle)
    BY <1>7, Positive
  <2> QED  BY <2>1, <1>7, <1>10 DEF BundleFrom, Last
<1>11. Converging'
  <2>1. Start = pc /\ Start' = pc
    BY <1>2, <1>6 DEF Start
  <2>2. ASSUME NEW j \in 1..misfetches
        PROVE  /\ pc + (j - 1) \in PC
               /\ RightFor(Known(l.btb, pc + (j - 1)), text[pc + (j - 1)])
    <3>1. /\ pc + (j - 1) \in PC
          /\ RightFor(Known(btb, pc + (j - 1)), text[pc + (j - 1)])
      BY <1>1, <2>1 DEF Converging
    <3> QED  BY <3>1, <1>7 DEF SaysSame
  <2>3. misfetches \in -1..banks
    BY <1>1 DEF Converging
  <2> QED  BY <1>6, <1>7, <2>1, <2>2, <2>3 DEF Converging
<1>12. TextOK' /\ TableOK(btb, recency)' /\ TrainedOK(btb, trained)'
  BY <1>1, <1>6, <1>7, <1>9 DEF TextOK
<1>13. BundleOK' /\ PcOK'
  BY <1>2, <1>6, <1>7, <1>8, <1>10 DEF BundleOK, PcOK
<1> QED  BY <1>6, <1>11, <1>12, <1>13 DEF BTBInv

LEMMA MisfetchInv ==
  ASSUME BTBInv, Fetch2Misfetch
  PROVE  BTBInv'
<1>1. /\ TextOK /\ TableOK(btb, recency) /\ TrainedOK(btb, trained)
      /\ BundleOK /\ Converging /\ fetch2.valid /\ Wrong # {}
  BY DEF BTBInv, Fetch2Misfetch
<1> DEFINE n == Len(Predecoded)
<1>2. /\ Predecoded \in Seq(Slots) /\ n \in Nat /\ DOMAIN Predecoded = 1..n
      /\ n <= Len(fetch2.bundle) /\ Len(fetch2.bundle) \in 1..banks
      /\ \A j \in 1..n : /\ Predecoded[j] = fetch2.bundle[j]
                         /\ SlotOK(Predecoded[j], fetch2.pc + (j - 1), btb)
  BY <1>1, PredecodedIs
<1>3. TrainOK(Trained(n), n)
  BY <1>1, <1>2, TrainedUpTo
<1>4. PICK t : t = Trained(n)
  OBVIOUS
<1>5. /\ btb' = t.btb /\ trained' = t.trained /\ recency' = t.recency
      /\ fetch_active' = TRUE /\ pc' = fetch2.pc /\ fetch2'.valid = FALSE
      /\ misfetches' = misfetches + 1 /\ text' = text
  BY <1>4 DEF Fetch2Misfetch, Nothing
<1>6. TableOK(t.btb, t.recency) /\ TrainedOK(t.btb, t.trained)
  BY <1>3, <1>4 DEF TrainOK
<1>7. ASSUME NEW j \in 1..n
      PROVE  /\ fetch2.pc + (j - 1) \in PC
             /\ RightFor(Known(t.btb, fetch2.pc + (j - 1)), fetch2.bundle[j].insn)
  <2> DEFINE q == fetch2.pc + (j - 1)
             s == Predecoded[j]
  <2>1. SlotOK(s, q, btb) /\ s = fetch2.bundle[j]
    BY <1>2
  <2>2. s.pc = q /\ q \in PC
    BY <2>1 DEF SlotOK
  <2>3. j <= n /\ j \in DOMAIN Predecoded
    BY <1>2
  <2>4. Known(t.btb, s.pc) = After(s, Known(btb, s.pc))
    BY <1>3, <1>4, <2>3 DEF TrainOK
  <2>5. RightFor(After(s, Known(btb, q)), s.insn)
    BY <2>1, AfterIsRight
  <2> QED  BY <2>1, <2>2, <2>4, <2>5
<1> HIDE DEF n
<1>8. misfetches \in -1..banks /\ misfetches + 1 <= n
  <2>1. misfetches \in -1..banks
    BY <1>1 DEF Converging
  <2>2. CASE misfetches < 0
    BY <1>2, <2>1, <2>2, <1>1 DEF Wrong, n
  <2>3. CASE misfetches >= 0
    <3>1. PICK k \in 1..n : Missed(Predecoded[k]) \/ NonBranch(Predecoded[k])
      BY <1>1, <1>2 DEF Wrong, n
    <3>2. SUFFICES ASSUME k <= misfetches  PROVE FALSE
      BY <1>2, <2>1, <3>1
    <3> DEFINE q == fetch2.pc + (k - 1)
    <3>3. k \in 1..misfetches /\ k \in 1..Len(fetch2.bundle)
      BY <1>2, <2>1, <3>2
    <3>4. RightFor(Known(btb, q), text[q])
      BY <1>1, <3>3 DEF Converging, Start
    <3>5. Predecoded[k].insn = text[q]
      BY <1>1, <1>2, <2>3, <3>3 DEF Converging
    <3>6. SlotOK(Predecoded[k], q, btb)
      BY <1>2
    <3> QED  BY <3>1, <3>4, <3>5, <3>6, RightIsNotWrong
  <2> QED  BY <2>1, <2>2, <2>3
<1>9. ASSUME NEW j \in 1..(misfetches + 1)
      PROVE  /\ fetch2.pc + (j - 1) \in PC
             /\ RightFor(Known(t.btb, fetch2.pc + (j - 1)), text[fetch2.pc + (j - 1)])
  <2>1. j \in 1..n /\ j \in 1..Len(fetch2.bundle) /\ misfetches >= 0
    BY <1>2, <1>8
  <2>2. fetch2.bundle[j].insn = text[fetch2.pc + (j - 1)]
    BY <1>1, <2>1 DEF Converging
  <2> QED  BY <2>1, <2>2, <1>7
<1>10. misfetches + 1 \in -1..banks /\ misfetches + 1 >= 0
  BY <1>2, <1>8, Positive
<1>11. Converging'
  <2>1. Start' = fetch2.pc
    BY <1>5 DEF Start
  <2> QED  BY <1>5, <1>9, <1>10, <2>1 DEF Converging
<1>12. fetch2.pc \in PC
  BY <1>1 DEF BundleOK
<1>13. TextOK' /\ TableOK(btb, recency)' /\ TrainedOK(btb, trained)'
  BY <1>1, <1>5, <1>6 DEF TextOK
<1>14. BundleOK' /\ PcOK'
  BY <1>5, <1>12 DEF BundleOK, PcOK
<1> QED  BY <1>5, <1>11, <1>13, <1>14 DEF BTBInv

(* When nothing follows, nothing to fetch is left behind a fault.          *)
LEMMA AdvanceInv ==
  ASSUME BTBInv, Fetch2Advance
  PROVE  BTBInv'
<1>1. /\ TextOK /\ TableOK(btb, recency) /\ TrainedOK(btb, trained)
      /\ BundleOK /\ PcOK /\ fetch2.valid
  BY DEF BTBInv, Fetch2Advance
<1>2. /\ fetch2'.valid = FALSE /\ misfetches' = 0 /\ text' = text /\ btb' = btb
      /\ pc' = pc /\ trained' = trained /\ recency' = recency
      /\ fetch_active' = (fetch_active /\ ~Idles)
  BY DEF Fetch2Advance, Nothing
<1>3. ASSUME ~Idles
      PROVE  pc \in PC
  <2>1. /\ Len(Predecoded) \in 1..Len(fetch2.bundle)
        /\ DOMAIN Predecoded = 1..Len(Predecoded)
        /\ Serializers = {} => Predecoded = fetch2.bundle
        /\ Serializers # {} => Predecoded[Len(Predecoded)].insn.kind = "serialize"
    BY <1>1, PredecodedIs
  <2>2. Len(Predecoded) \in DOMAIN Predecoded
    BY <2>1
  <2>3. Predecoded = fetch2.bundle
    BY <2>1, <2>2, <1>3 DEF Idles
  <2>4. \A j \in 1..Len(fetch2.bundle) : fetch2.bundle[j].insn.kind # "fault"
    BY <2>1, <2>3, <1>3 DEF Idles
  <2> QED  BY <2>4, <1>1 DEF PcOK
<1>4. Converging'
  <2>1. 0 \in -1..banks /\ 1..0 = {}
    BY Positive
  <2> QED  BY <1>2, <2>1 DEF Converging
<1>5. BundleOK' /\ PcOK'
  BY <1>2, <1>3 DEF BundleOK, PcOK
<1>6. TextOK' /\ TableOK(btb, recency)' /\ TrainedOK(btb, trained)'
  BY <1>1, <1>2 DEF TextOK
<1> QED  BY <1>2, <1>4, <1>5, <1>6 DEF BTBInv

LEMMA RedirectInv ==
  ASSUME BTBInv, Redirect
  PROVE  BTBInv'
<1>1. TextOK /\ TableOK(btb, recency) /\ TrainedOK(btb, trained)
  BY DEF BTBInv
<1>2. /\ fetch2'.valid = FALSE /\ misfetches' = 0 /\ text' = text /\ btb' = btb
      /\ pc' \in PC /\ trained' = trained /\ recency' = recency
  BY DEF Redirect, Nothing
<1>3. Converging'
  <2>1. 0 \in -1..banks /\ 1..0 = {}
    BY Positive
  <2> QED  BY <1>2, <2>1 DEF Converging
<1>4. BundleOK' /\ PcOK'
  BY <1>2 DEF BundleOK, PcOK
<1>5. TextOK' /\ TableOK(btb, recency)' /\ TrainedOK(btb, trained)'
  BY <1>1, <1>2 DEF TextOK
<1> QED  BY <1>2, <1>3, <1>4, <1>5 DEF BTBInv

LEMMA StoreInv ==
  ASSUME BTBInv, NEW p \in PC, Store(p)
  PROVE  BTBInv'
<1>1. /\ TextOK /\ TableOK(btb, recency) /\ TrainedOK(btb, trained) /\ BundleOK /\ PcOK
      /\ fetch2.valid \in BOOLEAN
  BY DEF BTBInv
<1>2. /\ misfetches' = (IF fetch2.valid THEN -1 ELSE 0) /\ btb' = btb /\ fetch2' = fetch2
      /\ pc' = pc /\ trained' = trained /\ recency' = recency /\ fetch_active' = fetch_active
  BY DEF Store
<1>3. PICK i \in Text[p] : text' = [text EXCEPT ![p] = i]
  BY DEF Store
<1>4. TextOK'
  BY <1>1, <1>3, NextAddress DEF TextOK
<1>5. Converging'
  <2>1. 0 \in -1..banks /\ -1 \in -1..banks /\ ~ (-1 >= 0) /\ 1..0 = {} /\ 1..(-1) = {}
    BY Positive
  <2> QED  BY <1>2, <2>1 DEF Converging
<1>6. BundleOK' /\ PcOK'
  BY <1>1, <1>2 DEF BundleOK, PcOK
<1>7. TableOK(btb, recency)' /\ TrainedOK(btb, trained)'
  BY <1>1, <1>2
<1> QED  BY <1>1, <1>2, <1>4, <1>5, <1>6, <1>7 DEF BTBInv

LEMMA StutterInv ==
  ASSUME BTBInv, UNCHANGED vars
  PROVE  BTBInv'
<1>1. /\ text' = text /\ btb' = btb /\ pc' = pc /\ fetch_active' = fetch_active
      /\ fetch2' = fetch2 /\ trained' = trained /\ recency' = recency
      /\ misfetches' = misfetches
  BY DEF vars
<1>2. TextOK' /\ TableOK(btb, recency)' /\ TrainedOK(btb, trained)' /\ BundleOK'
  BY <1>1 DEF BTBInv, TextOK, BundleOK
<1>3. PcOK' /\ Converging'
  BY <1>1 DEF BTBInv, PcOK, Converging, Start
<1> QED  BY <1>1, <1>2, <1>3 DEF BTBInv

-----------------------------------------------------------------------------
(* The theorems.                                                           *)

(* The state keeps its types, every set of the buffer keeps a rank for each*)
(* way and no tag twice, the bundle in Fetch2 says what the buffer does,   *)
(* and what a misfetch has trained stays right until the bundle passes     *)
(* (btb_t, and fetchunit_t::fetch2).                                       *)
THEOREM BTBInvariant == Spec => []BTBInv
<1>1. Init => BTBInv
  BY InitInv
<1>2. ASSUME BTBInv, [Next]_vars
      PROVE  BTBInv'
  <2>1. CASE Fetch1
    BY <1>2, <2>1, FetchInv
  <2>2. CASE Fetch2Misfetch
    BY <1>2, <2>2, MisfetchInv
  <2>3. CASE Fetch2Advance
    BY <1>2, <2>3, AdvanceInv
  <2>4. CASE Redirect
    BY <1>2, <2>4, RedirectInv
  <2>5. CASE \E p \in PC : Store(p)
    BY <1>2, <2>5, StoreInv
  <2>6. CASE UNCHANGED vars
    BY <1>2, <2>6, StutterInv
  <2> QED  BY <1>2, <2>1, <2>2, <2>3, <2>4, <2>5, <2>6 DEF Next
<1> QED  BY <1>1, <1>2, PTL DEF Spec

(* A hit returns what that very instruction was last trained as, whatever  *)
(* the arithmetic of banks, sets and tags puts beside it in its set        *)
(* (btb_t::search, update and invalidate).                                 *)
THEOREM HitsAreLastTrained == Spec => []HitIsLastTrained
<1>1. BTBInv => HitIsLastTrained
  <2>1. SUFFICES ASSUME BTBInv, NEW p \in PC, search(btb, p).hit
                 PROVE  trained[p] = [type |-> SetOf(btb, p)[search(btb, p).way].type,
                                      target |-> SetOf(btb, p)[search(btb, p).way].target]
    BY DEF HitIsLastTrained
  <2>2. TableOK(btb, recency) /\ Known(btb, p) \in {Untrained, trained[p]}
    BY <2>1 DEF BTBInv, TrainedOK
  <2>3. /\ Known(btb, p) # Untrained
        /\ Known(btb, p) = [type |-> SetOf(btb, p)[search(btb, p).way].type,
                            target |-> SetOf(btb, p)[search(btb, p).way].target]
    BY <2>1, <2>2, HitKnown
  <2> QED  BY <2>2, <2>3
<1> QED  BY <1>1, BTBInvariant, PTL

(* The ranks of a set order its entries by their last use, and the way of  *)
(* an invalidated entry comes before all of them in replacement            *)
(* (btb_t::update_lru and invalidate).                                     *)
THEOREM OldestIsReplaced == Spec => []ReplacesOldest
<1>1. BTBInv => ReplacesOldest
  <2>1. SUFFICES ASSUME BTBInv, NEW b \in Bank, NEW s \in SetNo, NEW w \in Ways
                 PROVE  IF btb[b][s][w].valid
                        THEN /\ btb[b][s][w].lru < Len(recency[b][s])
                             /\ recency[b][s][btb[b][s][w].lru + 1] = btb[b][s][w].tag
                        ELSE btb[b][s][w].lru >= Len(recency[b][s])
    BY DEF ReplacesOldest, Bank, SetNo
  <2>2. SetOK(btb[b][s], recency[b][s])
    BY <2>1 DEF BTBInv, TableOK
  <2> QED  BY <2>2 DEF SetOK, Ordered
<1> QED  BY <1>1, BTBInvariant, PTL

(* The assertions of btb_t::update and invalidate hold at each position's  *)
(* turn, after the positions before it have been trained.                  *)
THEOREM AssertionsHold == Spec => []TrainingAsserts
<1>1. ASSUME BTBInv, fetch2.valid, NEW k \in Wrong
      PROVE  LET s == Predecoded[k]
                 b == Trained(k - 1).btb
                 e == SetOf(b, s.pc)[search(b, s.pc).way]
             IN  IF NonBranch(s) THEN search(b, s.pc).hit
                 ELSE search(b, s.pc).hit =>
                        \/ e.type # decode(s.insn).type
                        \/ s.insn.kind \in Direct /\ e.target # decode(s.insn).target
  <2> DEFINE s == Predecoded[k]
             p == s.pc
             e == SetOf(Trained(k - 1).btb, p)[search(Trained(k - 1).btb, p).way]
  <2>1. TableOK(btb, recency) /\ TrainedOK(btb, trained) /\ BundleOK
    BY <1>1 DEF BTBInv
  <2>2. k \in DOMAIN Predecoded /\ (Missed(s) \/ NonBranch(s))
    BY DEF Wrong
  <2>3. SlotOK(s, p, btb) /\ p \in PC /\ s.insn \in Text[p]
        /\ k - 1 \in 0..Len(Predecoded) /\ ~ (k <= k - 1)
    BY <1>1, <2>1, <2>2, PredecodedIs DEF SlotOK
  <2>4. PICK t : t = Trained(k - 1)
    OBVIOUS
  <2>5. TrainOK(t, k - 1)
    BY <1>1, <2>1, <2>3, <2>4, TrainedUpTo
  <2>6. Known(t.btb, p) = Known(btb, p) /\ TableOK(t.btb, t.recency)
    BY <2>2, <2>3, <2>5 DEF TrainOK
  <2>7. /\ s.branch <=> search(t.btb, p).hit
        /\ search(t.btb, p).hit =>
             /\ s.type = SetOf(t.btb, p)[search(t.btb, p).way].type
             /\ s.target = SetOf(t.btb, p)[search(t.btb, p).way].target
    BY <2>3, <2>6, HitKnown DEF SlotOK
  <2>8. CASE NonBranch(s)
    BY <2>4, <2>7, <2>8 DEF NonBranch
  <2>9. CASE ~NonBranch(s)
    <3>1. /\ decode(s.insn).type = s.insn.kind
          /\ s.insn.kind \in Direct => decode(s.insn).target = s.insn.target
      BY <2>2, <2>3, <2>9, Decoded DEF Missed
    <3> HIDE DEF s, p
    <3>2. ASSUME search(t.btb, p).hit
          PROVE  \/ e.type # decode(s.insn).type
                 \/ s.insn.kind \in Direct /\ e.target # decode(s.insn).target
      BY <2>2, <2>4, <2>7, <2>9, <3>1, <3>2 DEF Missed
    <3> QED  BY <2>4, <2>9, <3>2 DEF s, p
  <2> QED  BY <2>8, <2>9
<1>2. BTBInv => TrainingAsserts
  BY <1>1 DEF TrainingAsserts
<1> QED  BY <1>2, BTBInvariant, PTL

(* While memory does not change under it, a bundle is misfetched at most   *)
(* once for each of its positions (fetchunit_t::fetch2).                   *)
THEOREM MisfetchesEnd == Spec => []MisfetchesConverge
<1>1. BTBInv => MisfetchesConverge
  BY Positive DEF BTBInv, Converging, MisfetchesConverge
<1> QED  BY <1>1, BTBInvariant, PTL

=============================================================================
