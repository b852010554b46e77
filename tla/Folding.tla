------------------------------ MODULE Folding ------------------------------
(***************************************************************************)
(* What FoldLeft of the community modules computes, for an operator Op     *)
(* that a module that uses these theorems gives: an instance of this       *)
(* module stands for the induction over the sequence.  The module extends  *)
(* as little as it can, since each instance carries all that it extends.   *)
(***************************************************************************)
EXTENDS Integers, Sequences

CONSTANT Op(_, _)

(* The results after each element, from the base on.                       *)
Steps(h, base, seq) ==
  /\ h[0] = base
  /\ \A k \in 1..Len(seq) : h[k] = Op(h[k - 1], seq[k])

(* The last position of a set.                                             *)
Latest(s) == CHOOSE x \in s : \A y \in s : x >= y

(* FoldLeft(Op, base, seq), with its definition in full.                   *)
Fold(base, seq) ==
  LET it[s \in SUBSET DOMAIN seq] ==
        IF s = {} THEN base
        ELSE LET x == Latest(s) IN Op(it[s \ {x}], seq[x])
  IN  it[DOMAIN seq]

(* The function of the sets of positions by which Fold is defined.         *)
Iterates(it, base, seq, n) ==
  it = [s \in SUBSET (1..n) |->
          IF s = {} THEN base ELSE Op(it[s \ {Latest(s)}], seq[Latest(s)])]

(* Every set of natural numbers has a least one: what the theorems below   *)
(* need of the natural numbers, proved where they are used.                *)
WellOrdered == \A T \in SUBSET Nat : T # {} => \E x \in T : \A y \in T : x <= y

(* A set of positions has a last one.                                      *)
LEMMA LastPosition ==
  ASSUME WellOrdered, NEW n \in Nat, NEW s \in SUBSET (1..n), s # {}
  PROVE  Latest(s) \in s /\ \A y \in s : y <= Latest(s)
<1> DEFINE U == {u \in 0..n : \A y \in s : y <= u}
<1>1. U \in SUBSET Nat /\ n \in U
  OBVIOUS
<1>2. PICK u \in U : \A y \in U : u <= y
  BY <1>1, WellOrdered DEF WellOrdered
<1>3. u \in s
  <2>1. SUFFICES ASSUME u \notin s  PROVE FALSE
    OBVIOUS
  <2>2. PICK z \in s : z <= u
    OBVIOUS
  <2>3. u - 1 \in 0..n /\ \A y \in s : y <= u - 1
    BY <2>1, <2>2
  <2>4. u - 1 \in U
    BY <2>3
  <2> QED  BY <2>4, <1>2
<1>4. \E x \in s : \A y \in s : x >= y
  BY <1>3
<1> QED  BY <1>4 DEF Latest

(* The last of the positions, when it is known.                            *)
LEMMA LastIs ==
  ASSUME WellOrdered, NEW n \in Nat, NEW s \in SUBSET (1..n), NEW x \in s, \A y \in s : y <= x
  PROVE  Latest(s) = x
<1>1. Latest(s) \in s /\ \A y \in s : y <= Latest(s)
  BY LastPosition
<1> DEFINE m == Latest(s)
<1> HIDE DEF m
<1>2. m \in 1..n /\ x \in 1..n
  BY <1>1 DEF m
<1>3. m <= x /\ x <= m
  BY <1>1 DEF m
<1> QED  BY <1>2, <1>3 DEF m

(* The definition of Fold has a function to choose.                        *)
LEMMA IteratesExtend ==
  ASSUME WellOrdered, NEW base, NEW seq, NEW n \in Nat, NEW it, Iterates(it, base, seq, n)
  PROVE  \E jt : Iterates(jt, base, seq, n + 1)
<1> DEFINE jt == [s \in SUBSET (1..(n + 1)) |->
                    IF s = {} THEN base
                    ELSE IF n + 1 \in s THEN Op(it[s \ {n + 1}], seq[n + 1])
                    ELSE it[s]]
<1>1. ASSUME NEW s \in SUBSET (1..(n + 1)), s # {}
      PROVE  jt[s] = Op(jt[s \ {Latest(s)}], seq[Latest(s)])
  <2>1. CASE n + 1 \in s
    <3>1. n + 1 \in Nat /\ \A y \in s : y <= n + 1
      OBVIOUS
    <3>2. Latest(s) = n + 1
      BY <3>1, <2>1, LastIs
    <3>3. s \ {n + 1} \in SUBSET (1..n)
      OBVIOUS
    <3>4. jt[s \ {n + 1}] = it[s \ {n + 1}]
      <4>1. s \ {n + 1} \in SUBSET (1..(n + 1)) /\ n + 1 \notin s \ {n + 1}
        OBVIOUS
      <4>2. CASE s \ {n + 1} = {}
        BY <4>1, <4>2, <3>3 DEF Iterates
      <4> QED  BY <4>1, <4>2
    <3> QED  BY <3>2, <3>4, <2>1
  <2>2. CASE n + 1 \notin s
    <3>1. s \in SUBSET (1..n)
      BY <2>2
    <3>2. Latest(s) \in s
      BY <3>1, <1>1, LastPosition
    <3>3. it[s] = Op(it[s \ {Latest(s)}], seq[Latest(s)])
      BY <3>1, <1>1 DEF Iterates
    <3>4. s \ {Latest(s)} \in SUBSET (1..n) /\ s \ {Latest(s)} \in SUBSET (1..(n + 1))
          /\ n + 1 \notin s \ {Latest(s)}
      BY <3>1, <2>2
    <3>5. jt[s \ {Latest(s)}] = it[s \ {Latest(s)}]
      <4>1. CASE s \ {Latest(s)} = {}
        BY <4>1, <3>4 DEF Iterates
      <4> QED  BY <4>1, <3>4
    <3>6. jt[s] = it[s]
      BY <1>1, <2>2
    <3> HIDE DEF jt
    <3> QED  BY <3>3, <3>5, <3>6
  <2> QED  BY <2>1, <2>2
<1>2. jt[{}] = base
  OBVIOUS
<1>3. jt = [s \in SUBSET (1..(n + 1)) |-> jt[s]]
  OBVIOUS
<1> HIDE DEF jt
<1>4. jt = [s \in SUBSET (1..(n + 1)) |->
              IF s = {} THEN base ELSE Op(jt[s \ {Latest(s)}], seq[Latest(s)])]
  BY <1>1, <1>2, <1>3
<1> QED  BY <1>4 DEF Iterates

LEMMA IteratesExist ==
  ASSUME WellOrdered, NEW base, NEW seq, NEW n \in Nat
  PROVE  \E it : Iterates(it, base, seq, n)
<1> DEFINE T == {m \in Nat : ~ \E it : Iterates(it, base, seq, m)}
<1>1. SUFFICES ASSUME T # {}  PROVE FALSE
  OBVIOUS
<1>2. T \in SUBSET Nat
  OBVIOUS
<1>3. PICK m \in T : \A y \in T : m <= y
  BY <1>1, <1>2, WellOrdered DEF WellOrdered
<1>4. m # 0
  <2>1. SUFFICES \E it : Iterates(it, base, seq, 0)
    BY <1>3
  <2> DEFINE it == [s \in SUBSET (1..0) |-> base]
  <2>2. SUBSET (1..0) = {{}}
    OBVIOUS
  <2>3. Iterates(it, base, seq, 0)
    BY <2>2 DEF Iterates
  <2> QED  BY <2>3
<1>5. m - 1 \in Nat /\ m - 1 \notin T /\ (m - 1) + 1 = m
  BY <1>3, <1>4
<1>6. PICK it : Iterates(it, base, seq, m - 1)
  BY <1>5
<1>7. \E jt : Iterates(jt, base, seq, (m - 1) + 1)
  BY <1>5, <1>6, IteratesExtend
<1> QED  BY <1>3, <1>5, <1>7

-----------------------------------------------------------------------------
(* The fold applies Op to the elements from the first to the last.         *)
THEOREM FoldSteps ==
  ASSUME WellOrdered, NEW base, NEW S, NEW seq \in Seq(S)
  PROVE  \E h : Steps(h, base, seq) /\ Fold(base, seq) = h[Len(seq)]
<1> DEFINE n == Len(seq)
           it == CHOOSE it : Iterates(it, base, seq, n)
<1>1. n \in Nat /\ DOMAIN seq = 1..n
  OBVIOUS
<1>2. Iterates(it, base, seq, n)
  BY <1>1, IteratesExist
<1>3. Fold(base, seq) = it[1..n]
  BY <1>1 DEF Fold, Iterates
<1> DEFINE h == [k \in 0..n |-> it[1..k]]
<1> HIDE DEF it
<1>4. h[0] = base
  <2>1. 1..0 = {} /\ {} \in SUBSET (1..n)
    OBVIOUS
  <2>2. it[{}] = base
    BY <1>2, <2>1 DEF Iterates
  <2> QED  BY <2>1, <2>2
<1>5. ASSUME NEW k \in 1..n
      PROVE  h[k] = Op(h[k - 1], seq[k])
  <2>0. k \in 1..k /\ k \in Nat /\ \A y \in 1..k : y <= k
    BY <1>1
  <2>1. 1..k \in SUBSET (1..n) /\ 1..k # {}
    <3>1. \A y \in 1..k : y \in 1..n
      BY <1>1
    <3> QED  BY <3>1, <2>0
  <2>2. Latest(1..k) = k
    BY <2>0, <2>1, LastIs
  <2>3. (1..k) \ {k} = 1..(k - 1)
    OBVIOUS
  <2>4. it[1..k] = Op(it[(1..k) \ {Latest(1..k)}], seq[Latest(1..k)])
    BY <1>2, <2>1 DEF Iterates
  <2>5. h[k] = it[1..k] /\ h[k - 1] = it[1..(k - 1)]
    OBVIOUS
  <2> QED  BY <2>2, <2>3, <2>4, <2>5
<1>6. h[n] = it[1..n]
  OBVIOUS
<1> HIDE DEF h
<1> QED  BY <1>3, <1>4, <1>5, <1>6 DEF Steps

(* The results after the elements that two sequences share are the same.   *)
THEOREM StepsUnique ==
  ASSUME WellOrdered, NEW g, NEW h, NEW b, NEW s, NEW t, Steps(g, b, s), Steps(h, b, t),
         NEW n \in Nat, n <= Len(s), n <= Len(t), Len(s) \in Nat, Len(t) \in Nat,
         \A k \in 1..n : s[k] = t[k]
  PROVE  g[n] = h[n]
<1> DEFINE T == {k \in 0..n : g[k] # h[k]}
<1>1. SUFFICES ASSUME T # {}  PROVE FALSE
  OBVIOUS
<1>2. T \in SUBSET Nat
  OBVIOUS
<1>3. PICK m \in T : \A y \in T : m <= y
  BY <1>1, <1>2, WellOrdered DEF WellOrdered
<1>4. m # 0
  BY DEF Steps
<1>5. m \in 1..n /\ m - 1 \in 0..n /\ m - 1 \notin T
  BY <1>3, <1>4
<1>6. g[m - 1] = h[m - 1] /\ m \in 1..Len(s) /\ m \in 1..Len(t) /\ s[m] = t[m]
  BY <1>5
<1>7. g[m] = Op(g[m - 1], s[m]) /\ h[m] = Op(h[m - 1], t[m])
  BY <1>6 DEF Steps
<1> QED  BY <1>3, <1>6, <1>7

=============================================================================
