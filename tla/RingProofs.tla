----------------------------- MODULE RingProofs -----------------------------
(***************************************************************************)
(* Lemmas about the circular buffers of Ring: how the occupancy and the    *)
(* distances change when a pointer advances, and how a buffer follows the  *)
(* window of instructions in flight, for buffers of every size.            *)
(***************************************************************************)
EXTENDS Ring, FiniteSetTheorems, NaturalsInduction, TLAPS

(* The occupancy lies between empty and full. *)
LEMMA OccupancyRange ==
  ASSUME NEW size \in Nat \ {0},
         NEW head \in 0..(size - 1), NEW tail \in 0..(size - 1),
         NEW hph \in BOOLEAN, NEW tph \in BOOLEAN,
         RingOK(head, hph, tail, tph)
  PROVE  Occupancy(head, hph, tail, tph, size) \in 0..size
BY DEF RingOK, Occupancy

(* A pointer that advances stays in the buffer. *)
LEMMA AdvanceType ==
  ASSUME NEW size \in Nat \ {0}, NEW i \in 0..(size - 1), NEW ph \in BOOLEAN
  PROVE  /\ Next1(i, size) \in 0..(size - 1)
         /\ NextPhase(i, ph, size) \in BOOLEAN
<1>1. Next1(i, size) \in 0..(size - 1)
  BY DEF Next1
<1>2. NextPhase(i, ph, size) \in BOOLEAN
  BY ZenonT(20) DEF NextPhase
<1> QED  BY <1>1, <1>2

(* Advancing the tail of a buffer that is not full adds an entry. *)
LEMMA AdvanceTail ==
  ASSUME NEW size \in Nat \ {0},
         NEW head \in 0..(size - 1), NEW tail \in 0..(size - 1),
         NEW hph \in BOOLEAN, NEW tph \in BOOLEAN,
         RingOK(head, hph, tail, tph),
         Occupancy(head, hph, tail, tph, size) < size
  PROVE  /\ RingOK(head, hph, Next1(tail, size), NextPhase(tail, tph, size))
         /\ Occupancy(head, hph, Next1(tail, size), NextPhase(tail, tph, size), size)
              = Occupancy(head, hph, tail, tph, size) + 1
BY DEF RingOK, Occupancy, Next1, NextPhase

(* Advancing the head of a buffer that is not empty removes an entry. *)
LEMMA AdvanceHead ==
  ASSUME NEW size \in Nat \ {0},
         NEW head \in 0..(size - 1), NEW tail \in 0..(size - 1),
         NEW hph \in BOOLEAN, NEW tph \in BOOLEAN,
         RingOK(head, hph, tail, tph),
         Occupancy(head, hph, tail, tph, size) > 0
  PROVE  /\ RingOK(Next1(head, size), NextPhase(head, hph, size), tail, tph)
         /\ Occupancy(Next1(head, size), NextPhase(head, hph, size), tail, tph, size)
              = Occupancy(head, hph, tail, tph, size) - 1
BY DEF RingOK, Occupancy, Next1, NextPhase

(* Distance and Ahead are inverse to each other. *)
LEMMA DistanceAhead ==
  ASSUME NEW size \in Nat \ {0}, NEW head \in 0..(size - 1),
         NEW i \in 0..(size - 1)
  PROVE  /\ Distance(i, head, size) \in 0..(size - 1)
         /\ Ahead(i, head, size) \in 0..(size - 1)
         /\ Ahead(Distance(i, head, size), head, size) = i
         /\ Distance(Ahead(i, head, size), head, size) = i
BY DEF Distance, Ahead

(* Seen from the tail, the slots out of use come first. *)
LEMMA UsedFromTail ==
  ASSUME NEW size \in Nat \ {0},
         NEW head \in 0..(size - 1), NEW tail \in 0..(size - 1),
         NEW hph \in BOOLEAN, NEW tph \in BOOLEAN,
         RingOK(head, hph, tail, tph),
         NEW s \in 0..(size - 1)
  PROVE  Distance(s, head, size) < Occupancy(head, hph, tail, tph, size)
           <=> Distance(s, tail, size) >=
                 size - Occupancy(head, hph, tail, tph, size)
BY DEF RingOK, Occupancy, Distance

(* The head is the first slot in use, the tail the first one out of use. *)
LEMMA EndsFromTail ==
  ASSUME NEW size \in Nat \ {0},
         NEW head \in 0..(size - 1), NEW tail \in 0..(size - 1),
         NEW hph \in BOOLEAN, NEW tph \in BOOLEAN,
         RingOK(head, hph, tail, tph)
  PROVE  /\ Occupancy(head, hph, tail, tph, size) > 0 =>
              Distance(head, tail, size) =
                size - Occupancy(head, hph, tail, tph, size)
         /\ Distance(tail, tail, size) = 0
         /\ Occupancy(head, hph, tail, tph, size) < size =>
              Ahead(Occupancy(head, hph, tail, tph, size), head, size) = tail
BY DEF RingOK, Occupancy, Distance, Ahead

(* Every slot comes one step closer when the pointer advances, except the  *)
(* one it leaves, which becomes the farthest.                              *)
LEMMA AdvanceDistance ==
  ASSUME NEW size \in Nat \ {0}, NEW i \in 0..(size - 1),
         NEW s \in 0..(size - 1)
  PROVE  /\ s # i => /\ Distance(s, i, size) > 0
                     /\ Distance(s, Next1(i, size), size) = Distance(s, i, size) - 1
         /\ Distance(i, Next1(i, size), size) = size - 1
BY DEF Distance, Next1

(* The entry at distance d + 1 of the head is at distance d of the next.  *)
LEMMA AdvanceAhead ==
  ASSUME NEW size \in Nat \ {0}, NEW head \in 0..(size - 1),
         NEW d \in 0..(size - 2)
  PROVE  Ahead(d, Next1(head, size), size) = Ahead(d + 1, head, size)
BY DEF Ahead, Next1

(* The slot after the last one of a full queue is the head's.              *)
LEMMA FullAhead ==
  ASSUME NEW size \in Nat \ {0},
         NEW head \in 0..(size - 1), NEW tail \in 0..(size - 1),
         NEW hph \in BOOLEAN, NEW tph \in BOOLEAN,
         RingOK(head, hph, tail, tph),
         Occupancy(head, hph, tail, tph, size) = size
  PROVE  Ahead(Occupancy(head, hph, tail, tph, size), head, size) = tail
BY DEF RingOK, Occupancy, Ahead

(* Any slot is one closer to the next slot.                                *)
LEMMA NextAhead ==
  ASSUME NEW size \in Nat \ {0}, NEW head \in 0..(size - 1),
         NEW d \in 0..(size - 1)
  PROVE  Ahead(d, Next1(head, size), size) = Ahead(d + 1, head, size)
BY DEF Ahead, Next1

-----------------------------------------------------------------------------
(* Counting the members of a queue among the positions of a window.        *)

(* Every set of natural numbers has a least one.                           *)
LEMMA LeastNumber ==
  ASSUME NEW T \in SUBSET Nat, T # {}
  PROVE  \E x \in T : \A y \in T : x <= y
<1>1. IsWellFoundedOn(OpToRel(<, Nat), Nat)
  BY NatLessThanWellFounded
<1>2. PICK x \in T : \A y \in T : ~ (<<y, x>> \in OpToRel(<, Nat))
  BY <1>1, WFMin
<1>3. \A y \in T : ~ (y < x)
  BY <1>2 DEF OpToRel
<1> QED  BY <1>3

(* A bounded one has a greatest.                                           *)
LEMMA GreatestNumber ==
  ASSUME NEW n \in Nat, NEW T \in SUBSET (1..n), T # {}
  PROVE  \E x \in T : \A y \in T : y <= x
<1> DEFINE U == {u \in 0..n : n - u \in T}
<1>1. \A t \in T : t \in 1..n
  OBVIOUS
<1>2. U \in SUBSET Nat /\ U # {}
  <2>1. PICK t \in T : TRUE
    OBVIOUS
  <2>2. n - t \in 0..n /\ n - (n - t) = t
    BY <1>1
  <2>3. n - t \in U
    BY <2>2
  <2>4. \A u \in U : u \in Nat
    OBVIOUS
  <2> QED  BY <2>3, <2>4
<1>3. PICK u \in U : \A y \in U : u <= y
  BY <1>2, LeastNumber
<1>4. n - u \in T
  OBVIOUS
<1>5. ASSUME NEW y \in T
      PROVE  y <= n - u
  <2>1. y \in 1..n
    BY <1>1
  <2>2. n - y \in 0..n /\ n - (n - y) = y
    BY <2>1
  <2>3. n - y \in U
    BY <2>2
  <2>4. u <= n - y /\ u \in 0..n
    BY <2>3, <1>3
  <2> QED  BY <2>1, <2>4
<1> QED  BY <1>4, <1>5

(* Moving a set of positions down by one loses the first.                  *)
LEMMA ShiftCount ==
  ASSUME NEW n \in Nat, NEW S \in SUBSET (1..(n + 1))
  PROVE  Cardinality({k \in 1..n : k + 1 \in S}) = Cardinality(S \ {1})
<1> DEFINE T == {k \in 1..n : k + 1 \in S}
           f == [k \in T |-> k + 1]
<1>1. IsFiniteSet(T)
  <2>1. IsFiniteSet(1..n) /\ T \in SUBSET (1..n)
    BY FS_Interval
  <2> QED  BY <2>1, FS_Subset
<1>2. f \in Bijection(T, S \ {1})
  <2>1. \A k \in T : f[k] \in S \ {1}
    OBVIOUS
  <2>2. \A a, b \in T : f[a] = f[b] => a = b
    OBVIOUS
  <2>3. ASSUME NEW t \in S \ {1}
        PROVE  \E k \in T : f[k] = t
    <3>1. t - 1 \in T /\ f[t - 1] = t
      OBVIOUS
    <3> QED  BY <3>1
  <2> QED  BY <2>1, <2>2, <2>3 DEF Bijection, Injection, Surjection, IsInjective
<1>3. ExistsBijection(T, S \ {1})
  BY <1>2 DEF ExistsBijection
<1> HIDE DEF T
<1>4. Cardinality(T) = Cardinality(S \ {1})
  BY <1>1, <1>3, FS_Bijection
<1> QED  BY <1>4 DEF T

(* The members of M before position k.                                     *)
Before(M, k) == {j \in 1..(k - 1) : j \in M}
Elders(M, k) == Cardinality(Before(M, k))

(* They are finitely many.                                                 *)
LEMMA EldersFinite ==
  ASSUME NEW M, NEW k \in Int
  PROVE  IsFiniteSet(Before(M, k)) /\ Elders(M, k) \in Nat
<1>1. k - 1 \in Int
  OBVIOUS
<1>2. IsFiniteSet(1..(k - 1)) /\ Before(M, k) \in SUBSET (1..(k - 1))
  BY <1>1, FS_Interval DEF Before
<1> QED  BY <1>2, FS_Subset, FS_CardinalityType DEF Elders

(* The first position has no elders.                                       *)
LEMMA EldersFirst ==
  ASSUME NEW M
  PROVE  Elders(M, 1) = 0
<1>1. Before(M, 1) = {}
  BY DEF Before
<1> QED  BY <1>1, FS_EmptySet DEF Elders

(* One more position adds an elder if it is a member.                      *)
LEMMA EldersStep ==
  ASSUME NEW M, NEW k \in Nat \ {0}
  PROVE  Elders(M, k + 1) = IF k \in M THEN Elders(M, k) + 1 ELSE Elders(M, k)
<1>1. IsFiniteSet(Before(M, k))
  BY EldersFinite
<1>2. CASE k \in M
  <2>1. Before(M, k + 1) = Before(M, k) \cup {k} /\ k \notin Before(M, k)
    BY <1>2 DEF Before
  <2> QED  BY <2>1, <1>1, <1>2, FS_AddElement DEF Elders
<1>3. CASE k \notin M
  <2>1. Before(M, k + 1) = Before(M, k)
    BY <1>3 DEF Before
  <2> QED  BY <2>1, <1>3 DEF Elders
<1> QED  BY <1>2, <1>3

(* Later positions have no fewer elders.                                   *)
LEMMA EldersMonotone ==
  ASSUME NEW M, NEW j \in Int, NEW k \in Int, j <= k
  PROVE  Elders(M, j) <= Elders(M, k)
<1>1. IsFiniteSet(Before(M, k)) /\ Before(M, j) \in SUBSET Before(M, k)
  BY EldersFinite DEF Before
<1> QED  BY <1>1, FS_Subset DEF Elders

(* A member is an elder of everything after it.                            *)
LEMMA EldersStrict ==
  ASSUME NEW M, NEW j \in Nat \ {0}, j \in M, NEW k \in Int, j < k
  PROVE  Elders(M, j) + 1 <= Elders(M, k)
<1>1. j + 1 \in Int /\ j + 1 <= k
  OBVIOUS
<1>2. Elders(M, j + 1) = Elders(M, j) + 1
  BY EldersStep
<1> QED  BY <1>1, <1>2, EldersMonotone

(* Positions from k on do not count before k.                              *)
LEMMA EldersSame ==
  ASSUME NEW M, NEW N, NEW k \in Int, \A j \in 1..(k - 1) : j \in M <=> j \in N
  PROVE  Elders(M, k) = Elders(N, k)
<1>1. Before(M, k) = Before(N, k)
  BY DEF Before
<1> QED  BY <1>1 DEF Elders

(* There are at most as many elders as positions before.                   *)
LEMMA EldersAtMost ==
  ASSUME NEW M, NEW k \in Nat \ {0}
  PROVE  Elders(M, k) <= k - 1
<1>1. k - 1 \in Nat /\ IsFiniteSet(1..(k - 1)) /\ Cardinality(1..(k - 1)) = k - 1
  BY FS_Interval
<1>2. Before(M, k) \in SUBSET (1..(k - 1))
  BY DEF Before
<1>3. Cardinality(Before(M, k)) <= Cardinality(1..(k - 1))
  BY <1>1, <1>2, FS_Subset
<1> QED  BY <1>1, <1>3 DEF Elders

(* Removing the first position takes one elder from every other one, if    *)
(* the first was a member.                                                 *)
LEMMA EldersShift ==
  ASSUME NEW M, NEW N, NEW k \in Nat \ {0},
         \A j \in 1..(k - 1) : j \in N <=> j + 1 \in M
  PROVE  Elders(N, k) = IF 1 \in M THEN Elders(M, k + 1) - 1 ELSE Elders(M, k + 1)
<1>1. PICK n \in Nat : n + 1 = k
  <2>1. k - 1 \in Nat /\ (k - 1) + 1 = k
    OBVIOUS
  <2> QED  BY <2>1
<1> DEFINE A == Before(M, k + 1)
<1>2. IsFiniteSet(A) /\ Cardinality(A) = Elders(M, k + 1)
  <2>1. k + 1 \in Int
    OBVIOUS
  <2> QED  BY <2>1, EldersFinite DEF Elders
<1>3. A \in SUBSET (1..(n + 1)) /\ (1 \in A <=> 1 \in M)
  BY <1>1 DEF Before
<1>4. Before(N, k) = {j \in 1..n : j + 1 \in A}
  BY <1>1 DEF Before
<1> HIDE DEF A
<1>5. Elders(N, k) = Cardinality(A \ {1})
  BY <1>3, <1>4, ShiftCount DEF Elders
<1>6. CASE 1 \in A
  BY <1>2, <1>3, <1>5, <1>6, FS_RemoveElement
<1>7. CASE 1 \notin A
  <2>1. A \ {1} = A
    BY <1>7
  <2> QED  BY <2>1, <1>2, <1>3, <1>5, <1>7
<1> QED  BY <1>6, <1>7

-----------------------------------------------------------------------------
(* A queue that follows the window of instructions in flight.  The members *)
(* M are the positions 1..n of the window that own an entry; at[k] is the  *)
(* tail when the instruction at position k was dispatched, so it leaves    *)
(* that instruction's elders between the head and itself; V is the set of  *)
(* slots in use.                                                           *)
Place(x, d, head, hph, size) ==
  /\ x[1] \in 0..(size - 1) /\ x[2] \in BOOLEAN
  /\ RingOK(head, hph, x[1], x[2])
  /\ Occupancy(head, hph, x[1], x[2], size) = d

Queued(n, M, at, V, head, hph, tail, tph, size) ==
  /\ head \in 0..(size - 1) /\ hph \in BOOLEAN
  /\ M \in SUBSET (1..n) /\ V \in SUBSET (0..(size - 1))
  /\ Place(<<tail, tph>>, Elders(M, n + 1), head, hph, size)
  /\ \A k \in 1..n : Place(at[k], Elders(M, k), head, hph, size)
  /\ \A s \in 0..(size - 1) : s \in V <=> Distance(s, head, size) < Elders(M, n + 1)
  /\ \A s \in V : \E k \in M : at[k][1] = s

(* The members of the window without its first instruction, and the slots  *)
(* without one.                                                            *)
Shifted(M, n) == {k \in 1..n : k + 1 \in M}
Without(V, s) == V \ {s}

(* A place that leaves d entries is d slots ahead of the head.             *)
LEMMA PlaceAhead ==
  ASSUME NEW size \in Nat \ {0}, NEW head \in 0..(size - 1), NEW hph \in BOOLEAN,
         NEW d, NEW x, Place(x, d, head, hph, size)
  PROVE  /\ d \in 0..size
         /\ d < size => /\ x[1] = Ahead(d, head, size)
                        /\ Distance(x[1], head, size) = d
<1>1. PICK t \in 0..(size - 1), ph \in BOOLEAN :
        /\ t = x[1] /\ ph = x[2] /\ RingOK(head, hph, t, ph)
        /\ Occupancy(head, hph, t, ph, size) = d
  BY DEF Place
<1>2. d \in 0..size
  BY <1>1, OccupancyRange
<1>3. d < size => Ahead(d, head, size) = t
  BY <1>1, EndsFromTail
<1>4. d < size => Distance(t, head, size) = d
  <2>1. d < size => d \in 0..(size - 1)
    BY <1>2
  <2> QED  BY <2>1, <1>3, DistanceAhead
<1> QED  BY <1>1, <1>2, <1>3, <1>4

(* The place behind one that is not full leaves one entry more.            *)
LEMMA PlaceNext ==
  ASSUME NEW size \in Nat \ {0}, NEW head \in 0..(size - 1), NEW hph \in BOOLEAN,
         NEW d, NEW t, NEW ph, Place(<<t, ph>>, d, head, hph, size), d < size
  PROVE  Place(<<Next1(t, size), NextPhase(t, ph, size)>>, d + 1, head, hph, size)
<1>1. /\ t \in 0..(size - 1) /\ ph \in BOOLEAN
      /\ RingOK(head, hph, t, ph) /\ Occupancy(head, hph, t, ph, size) = d
  BY DEF Place
<1>2. /\ Next1(t, size) \in 0..(size - 1) /\ NextPhase(t, ph, size) \in BOOLEAN
  BY <1>1, AdvanceType
<1>3. /\ RingOK(head, hph, Next1(t, size), NextPhase(t, ph, size))
      /\ Occupancy(head, hph, Next1(t, size), NextPhase(t, ph, size), size) = d + 1
  BY <1>1, AdvanceTail
<1> QED  BY <1>2, <1>3 DEF Place

(* When the head moves on, every place behind it leaves one entry less.    *)
LEMMA PlacePop ==
  ASSUME NEW size \in Nat \ {0}, NEW head \in 0..(size - 1), NEW hph \in BOOLEAN,
         NEW d, NEW x, Place(x, d, head, hph, size), d > 0
  PROVE  Place(x, d - 1, Next1(head, size), NextPhase(head, hph, size), size)
<1>1. PICK t \in 0..(size - 1), ph \in BOOLEAN :
        /\ t = x[1] /\ ph = x[2] /\ RingOK(head, hph, t, ph)
        /\ Occupancy(head, hph, t, ph, size) = d
  BY DEF Place
<1>2. /\ RingOK(Next1(head, size), NextPhase(head, hph, size), t, ph)
      /\ Occupancy(Next1(head, size), NextPhase(head, hph, size), t, ph, size) = d - 1
  BY <1>1, AdvanceHead
<1> QED  BY <1>1, <1>2 DEF Place

(* The members own the slots in use, each its own, in window order.        *)
LEMMA QueuedSlots ==
  ASSUME NEW size \in Nat \ {0}, NEW n \in Nat, NEW M, NEW at, NEW V,
         NEW head, NEW hph, NEW tail, NEW tph,
         Queued(n, M, at, V, head, hph, tail, tph, size)
  PROVE  /\ Elders(M, n + 1) \in 0..size
         /\ \A k \in M : /\ Elders(M, k) \in 0..(size - 1)
                         /\ Elders(M, k) < Elders(M, n + 1)
                         /\ at[k][1] \in V
                         /\ at[k][1] = Ahead(Elders(M, k), head, size)
                         /\ Distance(at[k][1], head, size) = Elders(M, k)
         /\ \A j, k \in M : at[j][1] = at[k][1] => j = k
         /\ V = {at[k][1] : k \in M}
<1>1. /\ head \in 0..(size - 1) /\ hph \in BOOLEAN
      /\ Place(<<tail, tph>>, Elders(M, n + 1), head, hph, size)
      /\ \A k \in M : k \in 1..n
  BY DEF Queued
<1>2. Elders(M, n + 1) \in 0..size
  BY <1>1, PlaceAhead
<1>3. ASSUME NEW k \in M
      PROVE  /\ Elders(M, k) \in 0..(size - 1) /\ Elders(M, k) < Elders(M, n + 1)
             /\ at[k][1] \in V
             /\ at[k][1] = Ahead(Elders(M, k), head, size)
             /\ Distance(at[k][1], head, size) = Elders(M, k)
  <2>1. k \in Nat \ {0} /\ n + 1 \in Int /\ k < n + 1 /\ k \in 1..n
    BY <1>1
  <2>2. Elders(M, k) + 1 <= Elders(M, n + 1)
    BY <2>1, EldersStrict
  <2>3. Elders(M, k) \in Nat
    BY <2>1, EldersFinite
  <2>4. Place(at[k], Elders(M, k), head, hph, size)
    BY <2>1 DEF Queued
  <2>5. Elders(M, k) \in 0..(size - 1) /\ Elders(M, k) < size
    BY <2>2, <2>3, <1>2
  <2>6. /\ at[k][1] = Ahead(Elders(M, k), head, size)
        /\ Distance(at[k][1], head, size) = Elders(M, k)
    BY <2>4, <2>5, <1>1, PlaceAhead
  <2>7. Elders(M, k) < Elders(M, n + 1)
    BY <2>2, <2>3, <1>2
  <2>8. at[k][1] \in V
    BY <2>4, <2>6, <2>7 DEF Queued, Place
  <2> QED  BY <2>5, <2>6, <2>7, <2>8
<1>4. ASSUME NEW j \in M, NEW k \in M, j < k
      PROVE  at[j][1] # at[k][1]
  <2>1. j \in Nat \ {0} /\ k \in Int
    BY <1>1
  <2>2. Elders(M, j) + 1 <= Elders(M, k)
    BY <2>1, <1>4, EldersStrict
  <2>3. Elders(M, j) # Elders(M, k)
    BY <2>2, <1>3
  <2> QED  BY <2>3, <1>3
<1>5. \A j, k \in M : at[j][1] = at[k][1] => j = k
  <2>1. \A j \in M : j \in Int
    BY <1>1
  <2> QED  BY <2>1, <1>4
<1>6. V = {at[k][1] : k \in M}
  <2>1. \A s \in V : \E k \in M : at[k][1] = s
    BY DEF Queued
  <2> QED  BY <2>1, <1>3
<1> QED  BY <1>2, <1>3, <1>5, <1>6

(* Equal pointers and an empty window.                                     *)
LEMMA QueuedEmpty ==
  ASSUME NEW size \in Nat \ {0}, NEW at,
         NEW head \in 0..(size - 1), NEW hph \in BOOLEAN
  PROVE  Queued(0, {}, at, {}, head, hph, head, hph, size)
<1>1. Elders({}, 1) = 0
  BY EldersFirst
<1>2. 0 + 1 = 1
  OBVIOUS
<1>3. Place(<<head, hph>>, 0, head, hph, size)
  BY DEF Place, RingOK, Occupancy
<1>4. \A s \in 0..(size - 1) : ~(Distance(s, head, size) < 0)
  BY DEF Distance
<1> QED  BY <1>1, <1>2, <1>3, <1>4 DEF Queued

(* Two windows that agree on the members and the tails.                    *)
LEMMA QueuedSame ==
  ASSUME NEW size \in Nat \ {0}, NEW n \in Nat, NEW M, NEW at, NEW V,
         NEW head, NEW hph, NEW tail, NEW tph,
         Queued(n, M, at, V, head, hph, tail, tph, size),
         NEW bt, \A k \in 1..n : bt[k] = at[k]
  PROVE  Queued(n, M, bt, V, head, hph, tail, tph, size)
<1>1. \A k \in M : bt[k] = at[k]
  BY DEF Queued
<1> QED  BY <1>1 DEF Queued

(* An instruction that needs no entry enters the window.                   *)
LEMMA QueuedPass ==
  ASSUME NEW size \in Nat \ {0}, NEW n \in Nat, NEW M, NEW at, NEW V,
         NEW head, NEW hph, NEW tail, NEW tph,
         Queued(n, M, at, V, head, hph, tail, tph, size),
         NEW bt, \A k \in 1..n : bt[k] = at[k], bt[n + 1] = <<tail, tph>>
  PROVE  Queued(n + 1, M, bt, V, head, hph, tail, tph, size)
<1>1. n + 1 \notin M /\ n + 1 \in Nat \ {0} /\ \A k \in M : k \in 1..n
  BY DEF Queued
<1>2. Elders(M, (n + 1) + 1) = Elders(M, n + 1)
  BY <1>1, EldersStep
<1>3. \A k \in 1..(n + 1) : Place(bt[k], Elders(M, k), head, hph, size)
  <2>1. \A k \in 1..(n + 1) : k = n + 1 \/ k \in 1..n
    OBVIOUS
  <2> QED  BY <2>1 DEF Queued
<1>4. M \in SUBSET (1..(n + 1)) /\ \A k \in M : bt[k] = at[k]
  <2>1. \A k \in M : k \in 1..(n + 1)
    BY <1>1
  <2> QED  BY <1>1, <2>1
<1> QED  BY <1>2, <1>3, <1>4 DEF Queued

(* An instruction that needs one takes the slot at the tail.               *)
LEMMA QueuedEnter ==
  ASSUME NEW size \in Nat \ {0}, NEW n \in Nat, NEW M, NEW at, NEW V,
         NEW head, NEW hph, NEW tail, NEW tph,
         Queued(n, M, at, V, head, hph, tail, tph, size),
         Elders(M, n + 1) < size,
         NEW bt, \A k \in 1..n : bt[k] = at[k], bt[n + 1] = <<tail, tph>>
  PROVE  Queued(n + 1, M \cup {n + 1}, bt, V \cup {tail}, head, hph,
                Next1(tail, size), NextPhase(tail, tph, size), size)
<1> DEFINE N == M \cup {n + 1}
           W == V \cup {tail}
           d == Elders(M, n + 1)
<1>1. /\ n + 1 \notin M /\ n + 1 \in Nat \ {0} /\ \A k \in M : k \in 1..n
      /\ head \in 0..(size - 1) /\ hph \in BOOLEAN
      /\ Place(<<tail, tph>>, d, head, hph, size)
  BY DEF Queued
<1>2. d \in 0..size /\ tail \in 0..(size - 1) /\ Distance(tail, head, size) = d
  <2>1. d \in 0..size /\ Distance(<<tail, tph>>[1], head, size) = d
    BY <1>1, PlaceAhead
  <2> QED  BY <2>1, <1>1 DEF Place
<1>3. \A k \in 1..(n + 1) : Elders(N, k) = Elders(M, k)
  <2> SUFFICES ASSUME NEW k \in 1..(n + 1)
               PROVE  Elders(N, k) = Elders(M, k)
    OBVIOUS
  <2>1. \A j \in 1..(k - 1) : j \in M <=> j \in N
    OBVIOUS
  <2>2. k \in Int
    OBVIOUS
  <2> QED  BY <2>1, <2>2, EldersSame
<1>4. Elders(N, (n + 1) + 1) = d + 1
  <2>1. n + 1 \in N /\ n + 1 \in 1..(n + 1)
    OBVIOUS
  <2>2. Elders(N, (n + 1) + 1) = Elders(N, n + 1) + 1
    BY <1>1, <2>1, EldersStep
  <2> QED  BY <2>1, <2>2, <1>3
<1>5. Place(<<Next1(tail, size), NextPhase(tail, tph, size)>>, d + 1, head, hph, size)
  BY <1>1, PlaceNext
<1>6. \A k \in 1..(n + 1) : Place(bt[k], Elders(N, k), head, hph, size)
  <2>1. \A k \in 1..(n + 1) : k = n + 1 \/ k \in 1..n
    OBVIOUS
  <2> QED  BY <2>1, <1>1, <1>3 DEF Queued
<1>7. N \in SUBSET (1..(n + 1)) /\ W \in SUBSET (0..(size - 1))
  <2>1. \A k \in N : k \in 1..(n + 1)
    BY <1>1
  <2>2. \A s \in W : s \in 0..(size - 1)
    BY <1>2 DEF Queued
  <2> QED  BY <2>1, <2>2
<1>8. ASSUME NEW s \in 0..(size - 1)
      PROVE  s \in W <=> Distance(s, head, size) < d + 1
  <2>1. s \in V <=> Distance(s, head, size) < d
    BY DEF Queued
  <2>2. Distance(s, head, size) = d => s = tail
    BY <1>1, <1>2 DEF Distance
  <2>3. Distance(s, head, size) \in Int
    BY <1>1, DistanceAhead
  <2> QED  BY <2>1, <2>2, <2>3, <1>2
<1>9. \A s \in W : \E k \in N : bt[k][1] = s
  <2>1. \A s \in V : \E k \in M : at[k][1] = s /\ bt[k] = at[k]
    BY <1>1 DEF Queued
  <2>2. bt[n + 1][1] = tail /\ n + 1 \in N
    OBVIOUS
  <2> QED  BY <2>1, <2>2
<1> HIDE DEF N, W, d
<1>10. Queued(n + 1, N, bt, W, head, hph,
              Next1(tail, size), NextPhase(tail, tph, size), size)
  BY <1>1, <1>4, <1>5, <1>6, <1>7, <1>8, <1>9 DEF Queued
<1> QED  BY <1>10 DEF N, W

(* The oldest instruction, which owns no entry, leaves the window.         *)
LEMMA QueuedSkip ==
  ASSUME NEW size \in Nat \ {0}, NEW n \in Nat, NEW M, NEW at, NEW V,
         NEW head, NEW hph, NEW tail, NEW tph,
         Queued(n + 1, M, at, V, head, hph, tail, tph, size), 1 \notin M,
         NEW bt, \A k \in 1..n : bt[k] = at[k + 1]
  PROVE  Queued(n, Shifted(M, n), bt, V, head, hph, tail, tph, size)
<1>0. PICK N : N = Shifted(M, n)
  OBVIOUS
<1> USE DEF Shifted
<1>1. \A k \in 1..(n + 1) : Elders(N, k) = Elders(M, k + 1)
  <2> SUFFICES ASSUME NEW k \in 1..(n + 1)
               PROVE  Elders(N, k) = Elders(M, k + 1)
    OBVIOUS
  <2>1. k \in Nat \ {0} /\ \A j \in 1..(k - 1) : j \in N <=> j + 1 \in M
    BY <1>0
  <2> QED  BY <2>1, EldersShift
<1>2. Elders(N, n + 1) = Elders(M, (n + 1) + 1)
  <2>1. n + 1 \in 1..(n + 1)
    OBVIOUS
  <2> QED  BY <2>1, <1>1
<1>3. \A k \in 1..n : Place(bt[k], Elders(N, k), head, hph, size)
  <2>1. \A k \in 1..n : k \in 1..(n + 1) /\ k + 1 \in 1..(n + 1)
    OBVIOUS
  <2> QED  BY <2>1, <1>1 DEF Queued
<1>4. \A s \in V : \E k \in N : bt[k][1] = s
  <2> SUFFICES ASSUME NEW s \in V
               PROVE  \E k \in N : bt[k][1] = s
    OBVIOUS
  <2>1. PICK j \in M : at[j][1] = s
    BY DEF Queued
  <2>2. j \in 1..(n + 1) /\ j # 1
    BY DEF Queued
  <2>3. j - 1 \in 1..n /\ (j - 1) + 1 = j
    BY <2>2
  <2>4. j - 1 \in N /\ bt[j - 1] = at[j]
    BY <2>3, <1>0
  <2> QED  BY <2>1, <2>4
<1>5. N \in SUBSET (1..n)
  BY <1>0
<1> HIDE DEF Shifted
<1> QED  BY <1>0, <1>5, <1>2, <1>3, <1>4 DEF Queued

(* The oldest instruction leaves with the entry at the head.               *)
LEMMA QueuedLeave ==
  ASSUME NEW size \in Nat \ {0}, NEW n \in Nat, NEW M, NEW at, NEW V,
         NEW head, NEW hph, NEW tail, NEW tph,
         Queued(n + 1, M, at, V, head, hph, tail, tph, size), 1 \in M,
         NEW bt, \A k \in 1..n : bt[k] = at[k + 1]
  PROVE  /\ at[1][1] = head
         /\ Queued(n, Shifted(M, n), bt, Without(V, head),
                   Next1(head, size), NextPhase(head, hph, size), tail, tph, size)
<1> DEFINE d == Elders(M, (n + 1) + 1)
           head1 == Next1(head, size)
           hph1 == NextPhase(head, hph, size)
<1>0. PICK N, W : N = Shifted(M, n) /\ W = Without(V, head)
  OBVIOUS
<1> USE DEF Shifted, Without
<1>1. /\ n + 1 \in Nat /\ head \in 0..(size - 1) /\ hph \in BOOLEAN
      /\ Place(<<tail, tph>>, d, head, hph, size)
  BY DEF Queued
<1>2. head1 \in 0..(size - 1) /\ hph1 \in BOOLEAN
  BY <1>1, AdvanceType
<1>3. \A k \in 1..(n + 1) : Elders(N, k) = Elders(M, k + 1) - 1
  <2> SUFFICES ASSUME NEW k \in 1..(n + 1)
               PROVE  Elders(N, k) = Elders(M, k + 1) - 1
    OBVIOUS
  <2>1. k \in Nat \ {0} /\ \A j \in 1..(k - 1) : j \in N <=> j + 1 \in M
    BY <1>0
  <2> QED  BY <2>1, EldersShift
<1>4. \A k \in 1..(n + 1) : Elders(M, k + 1) > 0 /\ Elders(M, k + 1) \in Nat
  <2> SUFFICES ASSUME NEW k \in 1..(n + 1)
               PROVE  Elders(M, k + 1) > 0 /\ Elders(M, k + 1) \in Nat
    OBVIOUS
  <2>1. k + 1 \in Int /\ 1 < k + 1 /\ 1 \in Nat \ {0}
    OBVIOUS
  <2>2. Elders(M, 1) + 1 <= Elders(M, k + 1)
    BY <2>1, EldersStrict
  <2>3. Elders(M, k + 1) \in Nat /\ Elders(M, 1) = 0
    BY <2>1, EldersFinite, EldersFirst
  <2> QED  BY <2>2, <2>3
<1>5. Elders(N, n + 1) = d - 1 /\ d > 0 /\ d \in 0..size
  <2>1. n + 1 \in 1..(n + 1)
    OBVIOUS
  <2>2. d \in 0..size
    BY <1>1, PlaceAhead
  <2> QED  BY <2>1, <2>2, <1>3, <1>4
<1>6. Place(<<tail, tph>>, d - 1, head1, hph1, size)
  BY <1>1, <1>5, PlacePop
<1>7. \A k \in 1..n : Place(bt[k], Elders(N, k), head1, hph1, size)
  <2> SUFFICES ASSUME NEW k \in 1..n
               PROVE  Place(bt[k], Elders(N, k), head1, hph1, size)
    OBVIOUS
  <2>1. k \in 1..(n + 1) /\ k + 1 \in 1..(n + 1)
    OBVIOUS
  <2>2. Place(bt[k], Elders(M, k + 1), head, hph, size)
    BY <2>1 DEF Queued
  <2>3. Elders(N, k) = Elders(M, k + 1) - 1 /\ Elders(M, k + 1) > 0
    BY <2>1, <1>3, <1>4
  <2> QED  BY <2>2, <2>3, <1>1, PlacePop
<1>8. at[1][1] = head
  <2>1. at[1][1] = Ahead(Elders(M, 1), head, size)
    BY <1>1, QueuedSlots
  <2>2. Ahead(0, head, size) = head
    BY <1>1 DEF Ahead
  <2> QED  BY <2>1, <2>2, EldersFirst
<1>9. \A s \in 0..(size - 1) :
        s \in W <=> Distance(s, head1, size) < d - 1
  <2> SUFFICES ASSUME NEW s \in 0..(size - 1)
               PROVE  s \in W <=> Distance(s, head1, size) < d - 1
    OBVIOUS
  <2>1. s \in V <=> Distance(s, head, size) < d
    BY DEF Queued
  <2>2. s # head => Distance(s, head1, size) = Distance(s, head, size) - 1
    BY <1>1, AdvanceDistance
  <2>3. Distance(head, head1, size) = size - 1
    BY <1>1, AdvanceDistance
  <2>4. Distance(s, head, size) \in Int
    BY <1>1, DistanceAhead
  <2> QED  BY <2>1, <2>2, <2>3, <2>4, <1>0, <1>5
<1>10. \A s \in W : \E k \in N : bt[k][1] = s
  <2> SUFFICES ASSUME NEW s \in W
               PROVE  \E k \in N : bt[k][1] = s
    OBVIOUS
  <2>1. PICK j \in M : at[j][1] = s
    BY <1>0 DEF Queued
  <2>2. j \in 1..(n + 1) /\ j # 1
    BY <2>1, <1>0, <1>8 DEF Queued
  <2>3. j - 1 \in 1..n /\ (j - 1) + 1 = j
    BY <2>2
  <2>4. j - 1 \in N /\ bt[j - 1] = at[j]
    BY <2>3, <1>0
  <2> QED  BY <2>1, <2>4
<1>11. N \in SUBSET (1..n) /\ W \in SUBSET (0..(size - 1))
  BY <1>0 DEF Queued
<1> HIDE DEF Shifted, Without, d, head1, hph1
<1>12. Queued(n, N, bt, W, head1, hph1, tail, tph, size)
  BY <1>2, <1>5, <1>6, <1>7, <1>9, <1>10, <1>11 DEF Queued
<1> QED  BY <1>0, <1>8, <1>12 DEF head1, hph1

(* Everything behind position c is squashed: the tail returns to c's, and  *)
(* the slots in use are found from it.                                     *)
LEMMA QueuedCut ==
  ASSUME NEW size \in Nat \ {0}, NEW n \in Nat, NEW M, NEW at, NEW V,
         NEW head, NEW hph, NEW tail, NEW tph,
         Queued(n, M, at, V, head, hph, tail, tph, size),
         NEW c \in 1..n, c \notin M,
         NEW N, N = {k \in 1..c : k \in M},
         NEW W, W = {s \in 0..(size - 1) : Distance(s, head, size) < Elders(M, c)}
  PROVE  Queued(c, N, at, W, head, hph, at[c][1], at[c][2], size)
<1>1. \A k \in 1..(c + 1) : Elders(N, k) = Elders(M, k)
  <2> SUFFICES ASSUME NEW k \in 1..(c + 1)
               PROVE  Elders(N, k) = Elders(M, k)
    OBVIOUS
  <2>1. k \in Int /\ \A j \in 1..(k - 1) : j \in M <=> j \in N
    OBVIOUS
  <2> QED  BY <2>1, EldersSame
<1>2. Elders(N, c + 1) = Elders(M, c)
  <2>1. c + 1 \in 1..(c + 1) /\ c \in Nat \ {0}
    OBVIOUS
  <2> QED  BY <2>1, <1>1, EldersStep
<1>3. \A k \in 1..c : Place(at[k], Elders(N, k), head, hph, size)
  <2>1. \A k \in 1..c : k \in 1..n /\ k \in 1..(c + 1)
    OBVIOUS
  <2> QED  BY <2>1, <1>1 DEF Queued
<1>4. Place(<<at[c][1], at[c][2]>>, Elders(M, c), head, hph, size)
  <2>1. Place(at[c], Elders(M, c), head, hph, size)
    BY DEF Queued
  <2> QED  BY <2>1 DEF Place
<1>5. \A s \in W : \E k \in N : at[k][1] = s
  <2> SUFFICES ASSUME NEW s \in W
               PROVE  \E k \in N : at[k][1] = s
    OBVIOUS
  <2>1. s \in 0..(size - 1) /\ Distance(s, head, size) < Elders(M, c)
    OBVIOUS
  <2>2. c \in Int /\ n + 1 \in Int /\ c <= n + 1
    OBVIOUS
  <2>3. Elders(M, c) <= Elders(M, n + 1) /\ Elders(M, c) \in Nat /\ Elders(M, n + 1) \in Nat
    BY <2>2, EldersMonotone, EldersFinite
  <2>4. Distance(s, head, size) \in Int
    BY <2>1, DistanceAhead DEF Queued
  <2>5. s \in V
    BY <2>1, <2>3, <2>4 DEF Queued
  <2>6. PICK k \in M : at[k][1] = s
    BY <2>5 DEF Queued
  <2>7. Distance(at[k][1], head, size) = Elders(M, k) /\ k \in 1..n
    <3>1. Distance(at[k][1], head, size) = Elders(M, k)
      BY QueuedSlots
    <3>2. k \in 1..n
      BY DEF Queued
    <3> QED  BY <3>1, <3>2
  <2>8. ASSUME c <= k PROVE FALSE
    <3>1. Elders(M, c) <= Elders(M, k)
      BY <2>7, <2>8, EldersMonotone
    <3> QED  BY <3>1, <2>1, <2>3, <2>6, <2>7, <2>4
  <2>9. k \in 1..c
    BY <2>7, <2>8
  <2> QED  BY <2>6, <2>9
<1>6. head \in 0..(size - 1) /\ hph \in BOOLEAN
  BY DEF Queued
<1> QED  BY <1>2, <1>3, <1>4, <1>5, <1>6 DEF Queued

(* The entries between two places are those the second leaves and the      *)
(* first does not.                                                         *)
LEMMA PlaceBetween ==
  ASSUME NEW size \in Nat \ {0}, NEW head \in 0..(size - 1), NEW hph \in BOOLEAN,
         NEW d, NEW x, Place(x, d, head, hph, size),
         NEW e, NEW y, Place(y, e, head, hph, size), d <= e
  PROVE  Occupancy(x[1], x[2], y[1], y[2], size) = e - d
<1>1. PICK f \in 0..(size - 1), fph \in BOOLEAN :
        /\ f = x[1] /\ fph = x[2] /\ RingOK(head, hph, f, fph)
        /\ Occupancy(head, hph, f, fph, size) = d
  BY DEF Place
<1>2. PICK t \in 0..(size - 1), tph \in BOOLEAN :
        /\ t = y[1] /\ tph = y[2] /\ RingOK(head, hph, t, tph)
        /\ Occupancy(head, hph, t, tph, size) = e
  BY DEF Place
<1>3. Occupancy(f, fph, t, tph, size) = e - d
  BY <1>1, <1>2 DEF RingOK, Occupancy
<1> QED  BY <1>1, <1>2, <1>3

(* An entry some slots behind a place is as many slots farther from the    *)
(* head.                                                                   *)
LEMMA AheadAhead ==
  ASSUME NEW size \in Nat \ {0}, NEW head \in 0..(size - 1),
         NEW c \in Nat, NEW d \in Nat, c + d < size
  PROVE  Ahead(c, Ahead(d, head, size), size) = Ahead(d + c, head, size)
BY DEF Ahead

=============================================================================
