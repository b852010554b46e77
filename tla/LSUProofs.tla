------------------------------ MODULE LSUProofs ------------------------------
(***************************************************************************)
(* The load-store unit for every size of its queues, every memory and      *)
(* every set of access sizes: the LQ and the SQ mirror the window, and     *)
(* loads see memory in program order.                                      *)
(***************************************************************************)
EXTENDS LSU, RingProofs, SequenceTheorems

(* Addresses are aligned, and the value of a store has the size of its     *)
(* access.  (The value of a load that faults means nothing.)               *)
LoadEntry  == {e \in Entry : e.addr \in Aligned(e.size)}
StoreEntry == {e \in LoadEntry : e.value_avail => e.value \in Bytes(e.size)}

TypeOK ==
  /\ LQ \in [LSlot -> LoadEntry] /\ SQ \in [SSlot -> StoreEntry]
  /\ lq_head \in LSlot /\ lq_tail \in LSlot
  /\ sq_head \in SSlot /\ sq_tail \in SSlot
  /\ lq_head_phase \in BOOLEAN /\ lq_tail_phase \in BOOLEAN
  /\ sq_head_phase \in BOOLEAN /\ sq_tail_phase \in BOOLEAN
  /\ load_reservation \in Addr \cup {NoAddr}
  /\ mem \in [Addr -> Byte]
  /\ window \in Seq(Inst)

(* The two queues have the same life: the positions of the window that own *)
(* an entry, the tail that each instruction keeps, and the size.           *)
Members(w, type) == {k \in 1..Len(w) : w[k].type = type}
TailOf(x, type)  == IF type = "load" THEN x.lq ELSE x.sq
At(w, type)      == [k \in 1..Len(w) |-> TailOf(w[k], type)]
QSize(type)      == IF type = "load" THEN lq_size ELSE sq_size
Valid(Q)         == {i \in DOMAIN Q : Q[i].valid}

Mirrors(type, w, V, head, hph, tail, tph, len) ==
  /\ Queued(Len(w), Members(w, type), At(w, type), V, head, hph, tail, tph, QSize(type))
  /\ len = Elders(Members(w, type), Len(w) + 1)

QueueInv ==
  /\ TypeOK
  /\ Mirrors("load", window, Valid(LQ), lq_head, lq_head_phase,
             lq_tail, lq_tail_phase, lq_length)
  /\ Mirrors("store", window, Valid(SQ), sq_head, sq_head_phase,
             sq_tail, sq_tail_phase, sq_length)

-----------------------------------------------------------------------------
(* A queue and the window, step by step.                                   *)

(* What the assumptions say of the sizes.                                  *)
LEMMA Constants ==
  /\ lq_size \in Nat \ {0} /\ sq_size \in Nat \ {0}
  /\ LSlot = 0..(lq_size - 1) /\ SSlot = 0..(sq_size - 1)
  /\ \A type : QSize(type) \in Nat \ {0}
BY LSUAssumption DEF LSlot, SSlot, QSize

(* Two windows with the same instructions in the same places.              *)
Alike(v, w) ==
  /\ v \in Seq(Inst) /\ Len(v) = Len(w)
  /\ \A k \in 1..Len(w) :
       v[k].type = w[k].type /\ v[k].lq = w[k].lq /\ v[k].sq = w[k].sq

(* The queue does not depend on anything else of an instruction.           *)
LEMMA MirrorsAlike ==
  ASSUME NEW w \in Seq(Inst), NEW v, Alike(v, w), NEW type, NEW V,
         NEW head, NEW hph, NEW tail, NEW tph, NEW len,
         Mirrors(type, w, V, head, hph, tail, tph, len)
  PROVE  Mirrors(type, v, V, head, hph, tail, tph, len)
<1>1. Members(v, type) = Members(w, type)
  BY DEF Alike, Members
<1>2. At(v, type) = At(w, type)
  BY DEF Alike, At, TailOf
<1> QED  BY <1>1, <1>2 DEF Mirrors, Alike

(* An instruction that owns no entry enters the window.                    *)
LEMMA MirrorsPass ==
  ASSUME NEW w \in Seq(Inst), NEW type, NEW V,
         NEW head, NEW hph, NEW tail, NEW tph, NEW len,
         Mirrors(type, w, V, head, hph, tail, tph, len),
         NEW x \in Inst, x.type # type, TailOf(x, type) = <<tail, tph>>
  PROVE  Mirrors(type, Append(w, x), V, head, hph, tail, tph, len)
<1> DEFINE v == Append(w, x)
           n == Len(w)
<1>1. /\ Len(v) = n + 1 /\ n \in Nat /\ n + 1 \in Nat \ {0}
      /\ v[n + 1] = x /\ \A k \in 1..n : v[k] = w[k]
  BY AppendProperties, LenProperties
<1> HIDE DEF v, n
<1>2. Members(v, type) = Members(w, type)
  BY <1>1 DEF Members, n
<1>3. /\ \A k \in 1..n : At(v, type)[k] = At(w, type)[k]
      /\ At(v, type)[n + 1] = <<tail, tph>>
  BY <1>1 DEF At, n
<1>4. Queued(n, Members(w, type), At(w, type), V, head, hph, tail, tph, QSize(type))
  BY DEF Mirrors, n
<1>5. Queued(n + 1, Members(w, type), At(v, type), V, head, hph, tail, tph, QSize(type))
  BY <1>1, <1>3, <1>4, Constants, QueuedPass
<1>6. Elders(Members(w, type), (n + 1) + 1) = Elders(Members(w, type), n + 1)
  <2>1. n + 1 \notin Members(w, type)
    BY <1>1 DEF Members, n
  <2> QED  BY <2>1, <1>1, EldersStep
<1> QED  BY <1>1, <1>2, <1>5, <1>6 DEF Mirrors, n, v

(* One that does takes the slot at the tail.                               *)
LEMMA MirrorsEnter ==
  ASSUME NEW w \in Seq(Inst), NEW type, NEW V,
         NEW head, NEW hph, NEW tail, NEW tph, NEW len,
         Mirrors(type, w, V, head, hph, tail, tph, len), len < QSize(type),
         NEW x \in Inst, x.type = type, TailOf(x, type) = <<tail, tph>>
  PROVE  Mirrors(type, Append(w, x), V \cup {tail}, head, hph,
                 Next1(tail, QSize(type)), NextPhase(tail, tph, QSize(type)), len + 1)
<1> DEFINE v == Append(w, x)
           n == Len(w)
           M == Members(w, type)
<1>1. /\ Len(v) = n + 1 /\ n \in Nat /\ n + 1 \in Nat \ {0}
      /\ v[n + 1] = x /\ \A k \in 1..n : v[k] = w[k]
  BY AppendProperties, LenProperties
<1> HIDE DEF v, n, M
<1>2. Members(v, type) = M \cup {n + 1}
  BY <1>1 DEF Members, n, M
<1>3. /\ \A k \in 1..n : At(v, type)[k] = At(w, type)[k]
      /\ At(v, type)[n + 1] = <<tail, tph>>
  BY <1>1 DEF At, n
<1>4. /\ Queued(n, M, At(w, type), V, head, hph, tail, tph, QSize(type))
      /\ len = Elders(M, n + 1)
  BY DEF Mirrors, n, M
<1>5. Queued(n + 1, M \cup {n + 1}, At(v, type), V \cup {tail}, head, hph,
             Next1(tail, QSize(type)), NextPhase(tail, tph, QSize(type)), QSize(type))
  BY <1>1, <1>3, <1>4, Constants, QueuedEnter
<1>6. Elders(M \cup {n + 1}, (n + 1) + 1) = len + 1
  <2>1. Elders(M \cup {n + 1}, (n + 1) + 1) = Elders(M \cup {n + 1}, n + 1) + 1
    BY <1>1, EldersStep
  <2>2. n + 1 \in Int /\ \A j \in 1..((n + 1) - 1) : j \in M <=> j \in M \cup {n + 1}
    BY <1>1
  <2>3. Elders(M, n + 1) = Elders(M \cup {n + 1}, n + 1)
    BY <2>2, EldersSame
  <2> QED  BY <2>1, <2>3, <1>4
<1> QED  BY <1>1, <1>2, <1>5, <1>6 DEF Mirrors, n, v

(* The oldest instruction owns no entry and leaves.                        *)
LEMMA MirrorsSkip ==
  ASSUME NEW w \in Seq(Inst), w # <<>>, NEW type, NEW V,
         NEW head, NEW hph, NEW tail, NEW tph, NEW len,
         Mirrors(type, w, V, head, hph, tail, tph, len), w[1].type # type
  PROVE  Mirrors(type, Tail(w), V, head, hph, tail, tph, len)
<1>1. PICK n \in Nat : n + 1 = Len(w)
  <2>1. Len(w) \in Nat \ {0}
    BY LenProperties, EmptySeq
  <2>2. Len(w) - 1 \in Nat /\ (Len(w) - 1) + 1 = Len(w)
    BY <2>1
  <2> QED  BY <2>2
<1> DEFINE v == Tail(w)
           M == Members(w, type)
           N == Members(v, type)
<1>2. Len(v) = n /\ \A k \in 1..n : v[k] = w[k + 1]
  BY <1>1, HeadTailProperties
<1> HIDE DEF v
<1>3. N = Shifted(M, n) /\ 1 \notin M
  BY <1>1, <1>2 DEF Members, Shifted
<1>4. \A k \in 1..n : At(v, type)[k] = At(w, type)[k + 1]
  BY <1>1, <1>2 DEF At
<1> HIDE DEF M, N
<1>5. /\ Queued(n + 1, M, At(w, type), V, head, hph, tail, tph, QSize(type))
      /\ len = Elders(M, (n + 1) + 1)
  BY <1>1 DEF Mirrors, M
<1>6. Queued(n, N, At(v, type), V, head, hph, tail, tph, QSize(type))
  BY <1>3, <1>4, <1>5, Constants, QueuedSkip
<1>7. Elders(N, n + 1) = len
  <2>1. n + 1 \in Nat \ {0} /\ \A j \in 1..((n + 1) - 1) : j \in N <=> j + 1 \in M
    BY <1>3 DEF Shifted
  <2> QED  BY <2>1, <1>3, <1>5, EldersShift
<1> QED  BY <1>2, <1>6, <1>7 DEF Mirrors, v, N

(* The oldest instruction leaves with the entry at the head.               *)
LEMMA MirrorsLeave ==
  ASSUME NEW w \in Seq(Inst), w # <<>>, NEW type, NEW V,
         NEW head, NEW hph, NEW tail, NEW tph, NEW len,
         Mirrors(type, w, V, head, hph, tail, tph, len), w[1].type = type
  PROVE  /\ TailOf(w[1], type)[1] = head
         /\ Mirrors(type, Tail(w), Without(V, head), Next1(head, QSize(type)),
                    NextPhase(head, hph, QSize(type)), tail, tph, len - 1)
<1>1. PICK n \in Nat : n + 1 = Len(w)
  <2>1. Len(w) \in Nat \ {0}
    BY LenProperties, EmptySeq
  <2>2. Len(w) - 1 \in Nat /\ (Len(w) - 1) + 1 = Len(w)
    BY <2>1
  <2> QED  BY <2>2
<1> DEFINE v == Tail(w)
           M == Members(w, type)
           N == Members(v, type)
<1>2. Len(v) = n /\ \A k \in 1..n : v[k] = w[k + 1]
  BY <1>1, HeadTailProperties
<1> HIDE DEF v
<1>3. N = Shifted(M, n) /\ 1 \in M
  BY <1>1, <1>2 DEF Members, Shifted
<1>4. /\ \A k \in 1..n : At(v, type)[k] = At(w, type)[k + 1]
      /\ At(w, type)[1] = TailOf(w[1], type)
  BY <1>1, <1>2 DEF At
<1> HIDE DEF M, N
<1>5. /\ Queued(n + 1, M, At(w, type), V, head, hph, tail, tph, QSize(type))
      /\ len = Elders(M, (n + 1) + 1)
  BY <1>1 DEF Mirrors, M
<1>6. /\ At(w, type)[1][1] = head
      /\ Queued(n, N, At(v, type), Without(V, head), Next1(head, QSize(type)),
                NextPhase(head, hph, QSize(type)), tail, tph, QSize(type))
  <2>1. QSize(type) \in Nat \ {0} /\ 1 \in M
    BY <1>3, Constants
  <2>2. \A k \in 1..n : At(v, type)[k] = At(w, type)[k + 1]
    BY <1>4
  <2>3. Queued(n + 1, M, At(w, type), V, head, hph, tail, tph, QSize(type))
    BY <1>5
  <2> HIDE <1>3, <1>4, <1>5
  <2>4. /\ At(w, type)[1][1] = head
        /\ Queued(n, Shifted(M, n), At(v, type), Without(V, head),
                  Next1(head, QSize(type)), NextPhase(head, hph, QSize(type)),
                  tail, tph, QSize(type))
    BY <2>1, <2>2, <2>3, QueuedLeave, Zenon
  <2> QED  BY <2>4, <1>3
<1>7. Elders(N, n + 1) = len - 1
  <2>1. n + 1 \in Nat \ {0} /\ \A j \in 1..((n + 1) - 1) : j \in N <=> j + 1 \in M
    BY <1>3 DEF Shifted
  <2> QED  BY <2>1, <1>3, <1>5, EldersShift
<1> QED  BY <1>2, <1>4, <1>6, <1>7 DEF Mirrors, v, N

(* The computed length of a restored queue is its occupancy.               *)
LEMMA RestoredOccupancy ==
  ASSUME NEW size \in Nat \ {0},
         NEW head \in 0..(size - 1), NEW tail \in 0..(size - 1),
         NEW hph \in BOOLEAN, NEW tph \in BOOLEAN,
         RingOK(head, hph, tail, tph)
  PROVE  RestoredLength(head, hph, tail, tph, size) = Occupancy(head, hph, tail, tph, size)
<1>1. CASE tail >= head
  <2>1. (size + tail - head) % size = tail - head
    <3>1. PICK r \in 0..(size - 1) : r = tail - head
      BY <1>1
    <3>2. size + tail - head = size + r
      BY <3>1
    <3>3. (size + r) % size = r
      OBVIOUS
    <3> QED  BY <3>1, <3>2, <3>3
  <2> QED  BY <2>1, <1>1 DEF RestoredLength, Occupancy, RingOK
<1>2. CASE tail < head
  <2>1. (size + tail - head) % size = size + tail - head
    <3>1. PICK r \in 0..(size - 1) : r = size + tail - head
      BY <1>2
    <3>2. r % size = r
      OBVIOUS
    <3> QED  BY <3>1, <3>2
  <2> QED  BY <2>1, <1>2 DEF RestoredLength, Occupancy, RingOK
<1> QED  BY <1>1, <1>2

(* The slots of the first entries of a queue.                              *)
Leading(size, head, len) == {s \in 0..(size - 1) : Distance(s, head, size) < len}

(* A branch restores the queue: what is behind it is gone, and the length  *)
(* and the valid bits are those of what is left.                           *)
LEMMA MirrorsCut ==
  ASSUME NEW w \in Seq(Inst), NEW type, NEW V,
         NEW head, NEW hph, NEW tail, NEW tph, NEW len,
         Mirrors(type, w, V, head, hph, tail, tph, len),
         NEW c \in 1..Len(w), w[c].type # type,
         NEW t, NEW ph, TailOf(w[c], type) = <<t, ph>>,
         NEW rest, rest = RestoredLength(head, hph, t, ph, QSize(type)),
         NEW W, W = Leading(QSize(type), head, rest),
         NEW v \in Seq(Inst), Len(v) = c,
         \A k \in 1..c : /\ v[k].type = w[k].type
                         /\ v[k].lq = w[k].lq /\ v[k].sq = w[k].sq
  PROVE  Mirrors(type, v, W, head, hph, t, ph, rest)
<1> DEFINE n == Len(w)
           M == Members(w, type)
           N == Members(v, type)
           size == QSize(type)
<1>1. n \in Nat /\ c \in 1..n /\ c \in Nat \ {0} /\ size \in Nat \ {0}
  BY LenProperties, Constants
<1>2. /\ Queued(n, M, At(w, type), V, head, hph, tail, tph, size)
      /\ At(w, type)[c] = <<t, ph>>
  BY DEF Mirrors, At
<1>3. N = {k \in 1..c : k \in M} /\ c \notin M
  BY <1>1 DEF Members
<1>4. \A k \in 1..c : At(v, type)[k] = At(w, type)[k]
  BY <1>1 DEF At, TailOf
<1> HIDE DEF n, M, N, size
<1>5. Place(<<t, ph>>, Elders(M, c), head, hph, size)
  BY <1>1, <1>2 DEF Queued
<1>6. rest = Elders(M, c)
  <2>1. head \in 0..(size - 1) /\ hph \in BOOLEAN
    BY <1>2 DEF Queued
  <2>2. /\ t \in 0..(size - 1) /\ ph \in BOOLEAN /\ RingOK(head, hph, t, ph)
        /\ Occupancy(head, hph, t, ph, size) = Elders(M, c)
    BY <1>5 DEF Place
  <2> QED  BY <2>1, <2>2, <1>1, RestoredOccupancy DEF size
<1>7. W = {s \in 0..(size - 1) : Distance(s, head, size) < Elders(M, c)}
  BY <1>6 DEF size, Leading
<1>8. Queued(c, N, At(w, type), W, head, hph, At(w, type)[c][1], At(w, type)[c][2], size)
  BY <1>1, <1>2, <1>3, <1>7, QueuedCut
<1>9. Queued(c, N, At(w, type), W, head, hph, t, ph, size)
  BY <1>2, <1>8
<1>10. Queued(c, N, At(v, type), W, head, hph, t, ph, size)
  BY <1>1, <1>4, <1>9, QueuedSame
<1>11. Elders(N, c + 1) = rest
  <2>1. c + 1 \in Int /\ \A j \in 1..((c + 1) - 1) : j \in N <=> j \in M
    BY <1>1, <1>3
  <2>2. Elders(N, c + 1) = Elders(M, c + 1)
    BY <2>1, EldersSame
  <2> QED  BY <2>2, <1>1, <1>3, <1>6, EldersStep
<1> QED  BY <1>10, <1>11 DEF Mirrors, N, size

-----------------------------------------------------------------------------
(* The types.                                                              *)

(* The fields of a queue entry.                                            *)
LEMMA EntryFields ==
  ASSUME NEW e \in LoadEntry
  PROVE  /\ e \in Entry
         /\ e.valid \in BOOLEAN /\ e.size \in Sizes /\ e.amo \in BOOLEAN
         /\ e.addr_avail \in BOOLEAN /\ e.addr \in Aligned(e.size) /\ e.addr \in Addr
         /\ e.value_avail \in BOOLEAN /\ e.value \in Value /\ e.mdp_stall \in BOOLEAN
<1>1. e \in Entry /\ e.addr \in Aligned(e.size)
  BY DEF LoadEntry
<1> QED  BY <1>1 DEF Entry

(* Some value has the size of some access.                                 *)
LEMMA ZeroType == Zero \in Value /\ 0 \in Addr
<1>1. PICK n \in Sizes, b \in Byte : TRUE
  BY LSUAssumption
<1>2. [i \in 0..(n - 1) |-> b] \in Bytes(n)
  BY DEF Bytes
<1>3. \E v : v \in Value
  BY <1>1, <1>2 DEF Value
<1>4. 0 \in Addr
  BY LSUAssumption DEF Addr
<1> QED  BY <1>3, <1>4 DEF Zero

(* A free entry is well-formed.                                            *)
LEMMA BlankType ==
  /\ Blank \in LoadEntry /\ Blank \in StoreEntry /\ ~Blank.valid
  /\ ~Blank.addr_avail /\ ~Blank.value_avail /\ Blank.addr = 0
<1>1. PICK n \in Sizes : n = CHOOSE m \in Sizes : TRUE
  BY LSUAssumption
<1>2. Blank = [valid |-> FALSE, size |-> n, amo |-> FALSE, addr_avail |-> FALSE,
               addr |-> 0, value_avail |-> FALSE, value |-> Zero, mdp_stall |-> FALSE]
  BY <1>1 DEF Blank
<1>3. 0 \in Aligned(n)
  <2>1. n \in Nat \ {0}
    BY LSUAssumption
  <2>2. 0 % n = 0
    BY <2>1
  <2> QED  BY <2>2, ZeroType DEF Aligned
<1>4. Blank \in Entry
  BY <1>2, ZeroType DEF Entry
<1> QED  BY <1>2, <1>3, <1>4 DEF StoreEntry, LoadEntry

(* A new entry has nothing but its kind.                                   *)
LEMMA FreshType ==
  ASSUME NEW n \in Sizes, NEW amo \in BOOLEAN, NEW mdp_stall \in BOOLEAN
  PROVE  /\ Fresh(n, amo, mdp_stall) \in StoreEntry
         /\ Fresh(n, amo, mdp_stall) \in LoadEntry
         /\ Fresh(n, amo, mdp_stall).valid
         /\ Fresh(n, amo, mdp_stall).size = n /\ Fresh(n, amo, mdp_stall).amo = amo
         /\ ~Fresh(n, amo, mdp_stall).addr_avail
         /\ ~Fresh(n, amo, mdp_stall).value_avail
<1>1. /\ Blank \in Entry /\ ~Blank.addr_avail /\ ~Blank.value_avail
      /\ Blank.addr = 0
  BY BlankType, EntryFields
<1>2. 0 \in Aligned(n)
  <2>1. n \in Nat \ {0}
    BY LSUAssumption
  <2>2. 0 % n = 0
    BY <2>1
  <2> QED  BY <2>2, ZeroType DEF Aligned
<1>3. PICK f : f = Fresh(n, amo, mdp_stall)
  OBVIOUS
<1>4. /\ f \in Entry /\ f.valid /\ f.size = n /\ f.amo = amo
      /\ ~f.addr_avail /\ ~f.value_avail /\ f.addr = 0
  BY <1>1, <1>3 DEF Fresh, Entry
<1>5. f \in LoadEntry
  BY <1>2, <1>4 DEF LoadEntry
<1>6. f \in StoreEntry
  BY <1>4, <1>5 DEF StoreEntry
<1> QED  BY <1>3, <1>4, <1>5, <1>6

(* What changes of an entry when its address becomes known.                *)
Addressed(f, e, a) ==
  /\ f.valid = e.valid /\ f.size = e.size /\ f.amo = e.amo
  /\ f.addr_avail /\ f.addr = a
  /\ f.value_avail = e.value_avail /\ f.value = e.value

(* A generated address fills its fields and leaves the others alone. *)
LEMMA WithAddrType ==
  ASSUME NEW e \in LoadEntry, NEW a \in Aligned(e.size)
  PROVE  /\ WithAddr(e, a) \in LoadEntry
         /\ e \in StoreEntry => WithAddr(e, a) \in StoreEntry
         /\ Addressed(WithAddr(e, a), e, a)
<1>1. e \in Entry /\ a \in Addr
  BY DEF LoadEntry, Aligned
<1>2. WithAddr(e, a) \in Entry /\ Addressed(WithAddr(e, a), e, a)
  BY <1>1 DEF WithAddr, Entry, Addressed
<1>3. WithAddr(e, a) \in LoadEntry
  BY <1>2 DEF LoadEntry, Addressed
<1> QED  BY <1>2, <1>3 DEF StoreEntry, Addressed

(* What changes when its value does.                                       *)
Valued(f, e, v) ==
  /\ f.valid = e.valid /\ f.size = e.size /\ f.amo = e.amo
  /\ f.addr_avail = e.addr_avail /\ f.addr = e.addr
  /\ f.value_avail /\ f.value = v

(* A value fills its fields and leaves the others alone. *)
LEMMA WithValueType ==
  ASSUME NEW e \in LoadEntry, NEW v \in Value
  PROVE  /\ WithValue(e, v) \in LoadEntry
         /\ v \in Bytes(e.size) => WithValue(e, v) \in StoreEntry
         /\ Valued(WithValue(e, v), e, v)
<1>1. e \in Entry /\ e.addr \in Aligned(e.size)
  BY DEF LoadEntry
<1>2. WithValue(e, v) \in Entry /\ Valued(WithValue(e, v), e, v)
  BY <1>1 DEF WithValue, Entry, Valued
<1>3. WithValue(e, v) \in LoadEntry
  BY <1>1, <1>2 DEF LoadEntry, Valued
<1> QED  BY <1>2, <1>3 DEF StoreEntry, Valued

(* What stays when only the valid bit changes.                             *)
Same(f, e) ==
  /\ f.size = e.size /\ f.amo = e.amo
  /\ f.addr_avail = e.addr_avail /\ f.addr = e.addr
  /\ f.value_avail = e.value_avail /\ f.value = e.value

(* Clearing the valid bit leaves the other fields alone. *)
LEMMA WithValidType ==
  ASSUME NEW e \in LoadEntry, NEW b \in BOOLEAN
  PROVE  /\ [e EXCEPT !.valid = b] \in LoadEntry
         /\ e \in StoreEntry => [e EXCEPT !.valid = b] \in StoreEntry
         /\ [e EXCEPT !.valid = b].valid = b
         /\ Same([e EXCEPT !.valid = b], e)
<1>1. e \in Entry /\ e.addr \in Aligned(e.size)
  BY DEF LoadEntry
<1>2. [e EXCEPT !.valid = b] \in Entry /\ Same([e EXCEPT !.valid = b], e)
  BY <1>1 DEF Entry, Same
<1>3. [e EXCEPT !.valid = b] \in LoadEntry
  BY <1>1, <1>2 DEF LoadEntry, Same
<1>4. [e EXCEPT !.valid = b].valid = b
  BY <1>1 DEF Entry
<1> QED  BY <1>2, <1>3, <1>4 DEF StoreEntry, Same

-----------------------------------------------------------------------------
(* Instructions in flight.                                                 *)

(* The fields of an instruction in flight.                                 *)
LEMMA InstFields ==
  ASSUME NEW x \in Inst
  PROVE  /\ x.type \in {"load", "store", "branch"}
         /\ x.lq \in LSlot \X BOOLEAN /\ x.lq[1] \in LSlot /\ x.lq[2] \in BOOLEAN
         /\ x.sq \in SSlot \X BOOLEAN /\ x.sq[1] \in SSlot /\ x.sq[2] \in BOOLEAN
         /\ x.lq = <<x.lq[1], x.lq[2]>> /\ x.sq = <<x.sq[1], x.sq[2]>>
         /\ x.done \in BOOLEAN /\ x.exception \in BOOLEAN /\ x.load_viol \in BOOLEAN
<1>1. x.lq \in LSlot \X BOOLEAN /\ x.sq \in SSlot \X BOOLEAN
  BY DEF Inst
<1> QED  BY <1>1 DEF Inst

(* What an instruction is, apart from its progress.                        *)
Twin(y, x) == y \in Inst /\ y.type = x.type /\ y.lq = x.lq /\ y.sq = x.sq

(* Its progress changes one flag at a time.                                *)
LEMMA DoneFlag ==
  ASSUME NEW x \in Inst, NEW b \in BOOLEAN, NEW y, y = [x EXCEPT !.done = b]
  PROVE  Twin(y, x) /\ y.done = b /\ y.exception = x.exception /\ y.load_viol = x.load_viol
BY DEF Twin, Inst

(* Setting the exception bit changes nothing else of an instruction. *)
LEMMA ExceptionFlag ==
  ASSUME NEW x \in Inst, NEW b \in BOOLEAN, NEW y, y = [x EXCEPT !.exception = b]
  PROVE  Twin(y, x) /\ y.done = x.done /\ y.exception = b /\ y.load_viol = x.load_viol
BY DEF Twin, Inst

(* Setting the violation bit changes nothing else of an instruction. *)
LEMMA ViolationFlag ==
  ASSUME NEW x \in Inst, NEW b \in BOOLEAN, NEW y, y = [x EXCEPT !.load_viol = b]
  PROVE  Twin(y, x) /\ y.done = x.done /\ y.exception = x.exception /\ y.load_viol = b
BY DEF Twin, Inst

(* A window is a function on the positions up to its length.               *)
LEMMA WindowFields ==
  ASSUME NEW w \in Seq(Inst)
  PROVE  /\ Len(w) \in Nat /\ DOMAIN w = 1..Len(w)
         /\ \A k \in 1..Len(w) : w[k] \in Inst
BY LenProperties, ElementOfSeq

(* One instruction makes progress.                                         *)
LEMMA WindowUpdate ==
  ASSUME NEW w \in Seq(Inst), NEW k \in 1..Len(w), NEW y, Twin(y, w[k])
  PROVE  /\ Alike([w EXCEPT ![k] = y], w)
         /\ [w EXCEPT ![k] = y] \in Seq(Inst)
         /\ DOMAIN [w EXCEPT ![k] = y] = 1..Len(w)
         /\ [w EXCEPT ![k] = y][k] = y
         /\ \A j \in 1..Len(w) : j # k => [w EXCEPT ![k] = y][j] = w[j]
<1>1. PICK v : v = [w EXCEPT ![k] = y]
  OBVIOUS
<1>2. y \in Inst /\ DOMAIN w = 1..Len(w) /\ Len(w) \in Nat
  BY WindowFields DEF Twin
<1>3. v \in Seq(Inst) /\ Len(v) = Len(w)
  BY <1>1, <1>2, ExceptSeq
<1>4. DOMAIN v = 1..Len(w) /\ v[k] = y /\ \A j \in 1..Len(w) : j # k => v[j] = w[j]
  BY <1>1, <1>2
<1>5. Alike(v, w)
  BY <1>3, <1>4 DEF Alike, Twin
<1> QED  BY <1>1, <1>3, <1>4, <1>5

(* Several do.                                                             *)
LEMMA WindowMap ==
  ASSUME NEW w \in Seq(Inst), NEW v, v = [j \in 1..Len(w) |-> v[j]],
         \A j \in 1..Len(w) : Twin(v[j], w[j])
  PROVE  Alike(v, w)
<1>1. Len(w) \in Nat /\ \A j \in 1..Len(w) : v[j] \in Inst
  BY WindowFields DEF Twin
<1>2. v \in [1..Len(w) -> Inst]
  BY <1>1
<1>3. v \in Seq(Inst) /\ Len(v) = Len(w)
  BY <1>1, <1>2, SeqDef, LenProperties
<1> QED  BY <1>3 DEF Alike, Twin

-----------------------------------------------------------------------------
(* The entries in use.                                                     *)

(* One entry of a queue changes.                                           *)
Put(Q, i, f) == [Q EXCEPT ![i] = f]

(* It is the new entry at its slot and the old queue elsewhere. *)
LEMMA EntryUpdate ==
  ASSUME NEW C, NEW E, NEW Q \in [C -> E], NEW i \in C, NEW f \in E
  PROVE  /\ Put(Q, i, f) \in [C -> E] /\ Put(Q, i, f)[i] = f
         /\ \A j \in C : j # i => Put(Q, i, f)[j] = Q[j]
BY DEF Put

(* A valid entry joins the ones in use, an invalid one leaves them.        *)
LEMMA EntryValid ==
  ASSUME NEW Q, NEW i \in DOMAIN Q, NEW f
  PROVE  /\ f.valid => Valid(Put(Q, i, f)) = Valid(Q) \cup {i}
         /\ ~f.valid => Valid(Put(Q, i, f)) = Without(Valid(Q), i)
<1>1. PICK R : R = Put(Q, i, f)
  OBVIOUS
<1>2. DOMAIN R = DOMAIN Q /\ R[i] = f /\ \A j \in DOMAIN Q : j # i => R[j] = Q[j]
  BY <1>1 DEF Put
<1>3. f.valid => Valid(R) = Valid(Q) \cup {i}
  BY <1>2 DEF Valid
<1>4. ~f.valid => Valid(R) = Without(Valid(Q), i)
  BY <1>2 DEF Valid, Without
<1> QED  BY <1>1, <1>3, <1>4

(* An entry that keeps its valid bit changes nothing.                      *)
LEMMA EntryKept ==
  ASSUME NEW Q, NEW i \in DOMAIN Q, NEW f, f.valid = Q[i].valid
  PROVE  Valid(Put(Q, i, f)) = Valid(Q)
<1>1. PICK R : R = Put(Q, i, f)
  OBVIOUS
<1>2. DOMAIN R = DOMAIN Q /\ R[i] = f /\ \A j \in DOMAIN Q : j # i => R[j] = Q[j]
  BY <1>1 DEF Put
<1>3. Valid(R) = Valid(Q)
  BY <1>2 DEF Valid
<1> QED  BY <1>1, <1>3

(* The valid bits are set anew for a queue of some length.                 *)
LEMMA RevalidatedType ==
  ASSUME NEW size \in Nat \ {0}, NEW E, E \in {LoadEntry, StoreEntry},
         NEW Q \in [0..(size - 1) -> E], NEW head, NEW len
  PROVE  /\ Revalidated(Q, head, len, size) \in [0..(size - 1) -> E]
         /\ Valid(Revalidated(Q, head, len, size)) = Leading(size, head, len)
         /\ \A i \in 0..(size - 1) : Same(Revalidated(Q, head, len, size)[i], Q[i])
<1>1. PICK R : R = Revalidated(Q, head, len, size)
  OBVIOUS
<1>2. R = [i \in 0..(size - 1) |->
             [Q[i] EXCEPT !.valid = Distance(i, head, size) < len]]
  BY <1>1 DEF Revalidated
<1>3. ASSUME NEW i \in 0..(size - 1)
      PROVE  R[i] \in E /\ (R[i].valid <=> Distance(i, head, size) < len) /\ Same(R[i], Q[i])
  <2>1. PICK b \in BOOLEAN : b = (Distance(i, head, size) < len)
    <3>1. \/ (Distance(i, head, size) < len) = TRUE
          \/ (Distance(i, head, size) < len) = FALSE
      OBVIOUS
    <3> QED  BY <3>1, Zenon
  <2>2. R[i] = [Q[i] EXCEPT !.valid = b]
    <3>1. R[i] = [Q[i] EXCEPT !.valid = Distance(i, head, size) < len]
      BY <1>2
    <3> QED  BY <3>1, <2>1, Zenon
  <2>3. Q[i] \in LoadEntry /\ Q[i] \in E
    BY DEF StoreEntry
  <2>4. R[i] \in E /\ R[i].valid = b /\ Same(R[i], Q[i])
    BY <2>2, <2>3, WithValidType
  <2> QED  BY <2>1, <2>4
<1>4. R \in [0..(size - 1) -> E] /\ DOMAIN R = 0..(size - 1)
  BY <1>2, <1>3
<1>5. Valid(R) = Leading(size, head, len)
  BY <1>3, <1>4 DEF Valid, Leading
<1> QED  BY <1>1, <1>3, <1>4, <1>5

(* The valid bits are cleared.                                             *)
Cleared(C, Q) == [i \in C |-> [Q[i] EXCEPT !.valid = FALSE]]

(* Clearing valid bits in a queue keeps its type. *)
LEMMA ClearedType ==
  ASSUME NEW C, NEW E, E \in {LoadEntry, StoreEntry}, NEW Q \in [C -> E]
  PROVE  Cleared(C, Q) \in [C -> E] /\ Valid(Cleared(C, Q)) = {}
<1>1. PICK R : R = Cleared(C, Q)
  OBVIOUS
<1>2. ASSUME NEW i \in C
      PROVE  R[i] \in E /\ ~R[i].valid
  <2>1. Q[i] \in LoadEntry /\ Q[i] \in E
    BY DEF StoreEntry
  <2> QED  BY <1>1, <2>1, WithValidType DEF Cleared
<1>3. R \in [C -> E] /\ Valid(R) = {}
  BY <1>1, <1>2 DEF Valid, Cleared
<1> QED  BY <1>1, <1>3

(* A step that moves no pointer and changes no valid bit.                  *)
Pointers == <<lq_head, lq_tail, lq_head_phase, lq_tail_phase, lq_length,
              sq_head, sq_tail, sq_head_phase, sq_tail_phase, sq_length>>

(* Such a step keeps both queues. *)
LEMMA QuietStep ==
  ASSUME QueueInv, UNCHANGED Pointers, Alike(window', window),
         LQ' \in [LSlot -> LoadEntry], Valid(LQ') = Valid(LQ),
         SQ' \in [SSlot -> StoreEntry], Valid(SQ') = Valid(SQ),
         UNCHANGED <<load_reservation, mem>>
  PROVE  QueueInv'
<1>1. TypeOK' /\ window \in Seq(Inst)
  BY DEF QueueInv, TypeOK, Pointers, Alike
<1>2. Mirrors("load", window, Valid(LQ), lq_head, lq_head_phase,
              lq_tail, lq_tail_phase, lq_length)'
  BY <1>1, MirrorsAlike DEF QueueInv, Pointers
<1>3. Mirrors("store", window, Valid(SQ), sq_head, sq_head_phase,
              sq_tail, sq_tail_phase, sq_length)'
  BY <1>1, MirrorsAlike DEF QueueInv, Pointers
<1> QED  BY <1>1, <1>2, <1>3 DEF QueueInv

-----------------------------------------------------------------------------
(* What a load finds in the store queue.                                   *)

(* The entries of the stores older than position k, in window order.       *)
StoreMembers == Members(window, "store")

(* The SQ entries a load scans are the stores before it in the window, in  *)
(* order, one at each distance from sq_head.                               *)
LEMMA OlderStores ==
  ASSUME QueueInv, NEW k \in 1..Len(window)
  PROVE  /\ Elders(StoreMembers, k) \in 0..sq_size
         /\ PriorStores(window[k].sq) = Elders(StoreMembers, k)
         /\ \A j \in StoresIn(k - 1) :
              /\ j \in 1..Len(window) /\ window[j].sq[1] \in SSlot
              /\ Elders(StoreMembers, j) \in 0..(Elders(StoreMembers, k) - 1)
              /\ S(j) = SQ[Ahead(Elders(StoreMembers, j), sq_head, sq_size)]
         /\ \A i, j \in StoresIn(k - 1) :
              i < j => Elders(StoreMembers, i) < Elders(StoreMembers, j)
         /\ \A d \in 0..(Elders(StoreMembers, k) - 1) :
              \E j \in StoresIn(k - 1) : Elders(StoreMembers, j) = d
<1> DEFINE n == Len(window)
           M == StoreMembers
           E == Elders(M, k)
<1>1. /\ window \in Seq(Inst) /\ n \in Nat /\ k \in Int /\ n + 1 \in Int
      /\ \A j \in 1..n : window[j] \in Inst
      /\ sq_size \in Nat \ {0} /\ SSlot = 0..(sq_size - 1) /\ QSize("store") = sq_size
      /\ sq_head \in 0..(sq_size - 1) /\ sq_head_phase \in BOOLEAN
  BY WindowFields, Constants DEF QueueInv, TypeOK, QSize
<1>2. At(window, "store") = [j \in 1..n |-> window[j].sq]
  BY DEF At, TailOf
<1>3. Queued(n, M, At(window, "store"), Valid(SQ), sq_head, sq_head_phase,
             sq_tail, sq_tail_phase, sq_size)
  BY <1>1 DEF QueueInv, Mirrors, StoreMembers
<1>4. Place(window[k].sq, E, sq_head, sq_head_phase, sq_size)
  BY <1>2, <1>3 DEF Queued
<1>5. E \in 0..sq_size
  <2>1. sq_size \in Nat \ {0} /\ sq_head \in 0..(sq_size - 1) /\ sq_head_phase \in BOOLEAN
    BY <1>1
  <2> QED  BY <2>1, <1>4, PlaceAhead
<1>6. PriorStores(window[k].sq) = E
  <2>1. PICK t \in 0..(sq_size - 1), ph \in BOOLEAN : window[k].sq = <<t, ph>>
    BY <1>1, InstFields
  <2>2. /\ RingOK(sq_head, sq_head_phase, t, ph)
        /\ Occupancy(sq_head, sq_head_phase, t, ph, sq_size) = E
    BY <2>1, <1>4 DEF Place
  <2>3. CASE t = sq_head /\ ph = sq_head_phase
    <3>1. E = 0
      BY <2>2, <2>3, <1>1 DEF Occupancy
    <3> QED  BY <3>1, <2>1, <2>3 DEF PriorStores
  <2>4. CASE ~(t = sq_head /\ ph = sq_head_phase)
    <3>1. window[k].sq # <<sq_head, sq_head_phase>> /\ window[k].sq[1] = t
      BY <2>1, <2>4
    <3>2. PriorStores(window[k].sq) =
            IF Distance(t, sq_head, sq_size) = 0 THEN sq_size
                                                 ELSE Distance(t, sq_head, sq_size)
      BY <3>1 DEF PriorStores
    <3> QED  BY <3>2, <2>2, <2>4, <1>1 DEF RingOK, Occupancy, Distance
  <2> QED  BY <2>3, <2>4
<1>7. \A j \in StoresIn(k - 1) : j \in M /\ j \in 1..n /\ j < k /\ j \in Nat \ {0}
  BY <1>1 DEF StoresIn, StoreMembers, Members
<1>8. \A j \in M : j \in 1..n /\ (j < k => j \in StoresIn(k - 1))
  BY <1>1 DEF StoresIn, StoreMembers, Members
<1> HIDE DEF n, M, E
<1>9. ASSUME NEW j \in M
      PROVE  /\ At(window, "store")[j] = window[j].sq
             /\ window[j].sq[1] = Ahead(Elders(M, j), sq_head, sq_size)
             /\ window[j].sq[1] \in SSlot
  <2>1. At(window, "store")[j][1] = Ahead(Elders(M, j), sq_head, sq_size)
    BY <1>1, <1>3, QueuedSlots
  <2>2. At(window, "store")[j] = window[j].sq /\ window[j] \in Inst
    BY <1>1, <1>2, <1>8
  <2> QED  BY <2>1, <2>2, InstFields
<1>10. ASSUME NEW j \in StoresIn(k - 1)
       PROVE  Elders(M, j) \in 0..(E - 1)
  <2>1. Elders(M, j) + 1 <= E
    BY <1>1, <1>7, EldersStrict DEF E
  <2>2. Elders(M, j) \in Nat
    BY <1>7, EldersFinite
  <2> QED  BY <2>1, <2>2, <1>5
<1>11. ASSUME NEW i \in StoresIn(k - 1), NEW j \in StoresIn(k - 1), i < j
       PROVE  Elders(M, i) < Elders(M, j)
  <2>1. Elders(M, i) + 1 <= Elders(M, j)
    BY <1>7, <1>11, EldersStrict
  <2> QED  BY <2>1, <1>10, <1>5
<1>12. ASSUME NEW d \in 0..(E - 1)
       PROVE  \E j \in StoresIn(k - 1) : Elders(M, j) = d
  <2>1. d \in 0..(sq_size - 1) /\ d \in Int /\ d < E
    BY <1>5, <1>1
  <2>2. E <= Elders(M, n + 1) /\ Elders(M, n + 1) \in Int
    <3>1. k <= n + 1
      BY <1>1 DEF n
    <3> QED  BY <3>1, <1>1, EldersMonotone, EldersFinite DEF E
  <2>3. PICK s \in 0..(sq_size - 1) :
          s = Ahead(d, sq_head, sq_size) /\ Distance(s, sq_head, sq_size) = d
    <3>1. /\ Ahead(d, sq_head, sq_size) \in 0..(sq_size - 1)
          /\ Distance(Ahead(d, sq_head, sq_size), sq_head, sq_size) = d
      BY <2>1, <1>1, DistanceAhead
    <3> QED  BY <3>1
  <2>4. s \in Valid(SQ)
    <3>1. s \in Valid(SQ) <=> Distance(s, sq_head, sq_size) < Elders(M, n + 1)
      BY <2>3, <1>3 DEF Queued
    <3> QED  BY <3>1, <2>1, <2>2, <2>3, <1>5
  <2>5. PICK j \in M : At(window, "store")[j][1] = s
    BY <2>4, <1>3 DEF Queued
  <2>6. Distance(At(window, "store")[j][1], sq_head, sq_size) = Elders(M, j)
    BY <1>1, <1>3, QueuedSlots
  <2>7. Elders(M, j) = d
    BY <2>3, <2>5, <2>6
  <2>8. ASSUME k <= j PROVE FALSE
    <3>1. j \in Int
      BY <1>8
    <3>2. E <= Elders(M, j)
      BY <3>1, <1>1, <2>8, EldersMonotone DEF E
    <3> QED  BY <3>2, <2>1, <2>7, <1>5
  <2>9. j < k
    BY <2>8, <1>8, <1>1
  <2> QED  BY <2>7, <2>9, <1>8
<1> QED  BY <1>5, <1>6, <1>7, <1>9, <1>10, <1>11, <1>12 DEF E, M, n, S

(* The stores that decide what a load with the entry e at position k gets. *)
Deciding(e, k) == {j \in StoresIn(k - 1) : Verdict(e, S(j)) # "pass"}

(* The youngest of them decides.                                           *)
LEMMA OutcomeDecided ==
  ASSUME QueueInv, NEW k \in 1..Len(window), NEW e
  PROVE  /\ Deciding(e, k) = {} =>
              Outcome(e, window[k].sq) = [kind |-> "memory", value |-> Zero]
         /\ Deciding(e, k) # {} =>
              \E j \in Deciding(e, k) :
                /\ \A i \in Deciding(e, k) : i <= j
                /\ Outcome(e, window[k].sq) =
                     [kind |-> Verdict(e, S(j)), value |-> S(j).value]
<1> DEFINE M == StoreMembers
           P == PriorStores(window[k].sq)
           prior(d) == SQ[Ahead(P - d, sq_head, sq_size)]
           decides == {d \in 1..P : Verdict(e, prior(d)) # "pass"}
<1>1. P = Elders(M, k) /\ P \in 0..sq_size /\ P \in Nat
  BY OlderStores, Constants
<1>2. Outcome(e, window[k].sq) =
        IF decides = {} THEN [kind |-> "memory", value |-> Zero]
        ELSE LET first == CHOOSE d \in decides : \A c \in decides : d <= c
             IN  [kind |-> Verdict(e, prior(first)), value |-> prior(first).value]
  BY DEF Outcome
<1>3. ASSUME NEW j \in StoresIn(k - 1)
      PROVE  /\ P - Elders(M, j) \in 1..P
             /\ prior(P - Elders(M, j)) = S(j)
  <2>1. /\ Elders(M, j) \in 0..(P - 1)
        /\ S(j) = SQ[Ahead(Elders(M, j), sq_head, sq_size)]
    BY <1>1, OlderStores
  <2>2. P - Elders(M, j) \in 1..P /\ P - (P - Elders(M, j)) = Elders(M, j)
    BY <2>1, <1>1
  <2> QED  BY <2>1, <2>2
<1>4. ASSUME NEW d \in 1..P
      PROVE  \E j \in StoresIn(k - 1) : P - Elders(M, j) = d
  <2>1. P - d \in 0..(P - 1) /\ P - (P - d) = d
    BY <1>1
  <2>2. PICK j \in StoresIn(k - 1) : Elders(M, j) = P - d
    BY <2>1, <1>1, OlderStores
  <2> QED  BY <2>1, <2>2
<1>5. \A i, j \in StoresIn(k - 1) : i < j => Elders(M, i) < Elders(M, j)
  BY OlderStores
<1>6. \A j \in StoresIn(k - 1) : j \in Int /\ Elders(M, j) \in Int
  BY <1>1, OlderStores
<1> HIDE DEF P, prior, M
<1>7. ASSUME Deciding(e, k) = {}
      PROVE  Outcome(e, window[k].sq) = [kind |-> "memory", value |-> Zero]
  <2>1. \A j \in StoresIn(k - 1) : Verdict(e, S(j)) = "pass"
    BY <1>7 DEF Deciding
  <2>2. decides = {}
    BY <2>1, <1>3, <1>4
  <2> QED  BY <2>2, <1>2
<1>8. ASSUME Deciding(e, k) # {}
      PROVE  \E j \in Deciding(e, k) :
               /\ \A i \in Deciding(e, k) : i <= j
               /\ Outcome(e, window[k].sq) =
                    [kind |-> Verdict(e, S(j)), value |-> S(j).value]
  <2>1. decides # {} /\ decides \in SUBSET Nat
    <3>1. PICK j \in StoresIn(k - 1) : Verdict(e, S(j)) # "pass"
      BY <1>8 DEF Deciding
    <3>2. P - Elders(M, j) \in decides
      BY <3>1, <1>3
    <3>3. \A d \in decides : d \in Nat
      BY <1>1
    <3> QED  BY <3>2, <3>3
  <2>2. PICK first \in decides : first = CHOOSE d \in decides : \A c \in decides : d <= c
    <3>1. \E d \in decides : \A c \in decides : d <= c
      BY <2>1, LeastNumber
    <3> HIDE DEF decides
    <3> QED  BY <3>1
  <2>3. \A c \in decides : first <= c
    <3>1. \E d \in decides : \A c \in decides : d <= c
      BY <2>1, LeastNumber
    <3> HIDE DEF decides
    <3> QED  BY <3>1, <2>2
  <2>4. Outcome(e, window[k].sq) =
          [kind |-> Verdict(e, prior(first)), value |-> prior(first).value]
    <3> HIDE DEF decides
    <3> QED  BY <2>1, <2>2, <1>2
  <2>5. PICK j \in StoresIn(k - 1) : P - Elders(M, j) = first
    BY <1>4
  <2>6. prior(first) = S(j) /\ j \in Deciding(e, k)
    BY <2>5, <1>3 DEF Deciding
  <2>7. ASSUME NEW i \in Deciding(e, k)
        PROVE  i <= j
    <3>1. i \in StoresIn(k - 1) /\ P - Elders(M, i) \in decides
      BY <1>3 DEF Deciding
    <3>2. P - Elders(M, j) <= P - Elders(M, i)
      BY <3>1, <2>3, <2>5
    <3>3. ~ (j < i)
      BY <3>1, <3>2, <1>1, <1>5, <1>6
    <3> QED  BY <3>1, <3>3, <1>6
  <2> QED  BY <2>4, <2>6, <2>7
<1> QED  BY <1>7, <1>8

(* An aligned access lies in memory.                                       *)
LEMMA AccessInMemory ==
  ASSUME NEW n \in Sizes, NEW a \in Aligned(n), NEW b \in 0..(n - 1)
  PROVE  a + b \in Addr
<1>1. n \in {1, 2, 4, 8} /\ MemBytes % n = 0 /\ MemBytes \in Nat
  BY LSUAssumption
<1>2. a \in 0..(MemBytes - 1) /\ a % n = 0
  BY DEF Aligned, Addr
<1> QED  BY <1>1, <1>2 DEF Addr

(* What memory holds is a value.                                           *)
LEMMA ReadType ==
  ASSUME TypeOK, NEW e \in LoadEntry
  PROVE  Read(e.addr, e.size) \in Bytes(e.size) /\ Read(e.addr, e.size) \in Value
<1>1. e.size \in Sizes /\ e.addr \in Aligned(e.size)
  BY EntryFields
<1>2. \A b \in 0..(e.size - 1) : mem[e.addr + b] \in Byte
  BY <1>1, AccessInMemory DEF TypeOK
<1>3. Read(e.addr, e.size) \in Bytes(e.size)
  BY <1>2 DEF Read, Bytes
<1> QED  BY <1>1, <1>3 DEF Value

(* The entries of the instructions in flight.                              *)
LEMMA InFlight ==
  ASSUME QueueInv, NEW k \in 1..Len(window)
  PROVE  /\ window[k] \in Inst /\ DOMAIN window = 1..Len(window)
         /\ window[k].lq[1] \in LSlot /\ window[k].sq[1] \in SSlot
         /\ L(k) \in LoadEntry /\ S(k) \in StoreEntry /\ S(k) \in LoadEntry
<1>1. window \in Seq(Inst) /\ LQ \in [LSlot -> LoadEntry] /\ SQ \in [SSlot -> StoreEntry]
  BY DEF QueueInv, TypeOK
<1>2. window[k] \in Inst /\ DOMAIN window = 1..Len(window)
  BY <1>1, WindowFields
<1>3. window[k].lq[1] \in LSlot /\ window[k].sq[1] \in SSlot
  BY <1>2, InstFields
<1> QED  BY <1>1, <1>2, <1>3 DEF L, S, StoreEntry

(* A load is decided by memory or by a store; one that is served has a     *)
(* value of its size from an older store, the youngest that decides, or    *)
(* what memory holds, unless the translation of its address fails.         *)
LEMMA ServedType ==
  ASSUME QueueInv, NEW k \in 1..Len(window), NEW e \in LoadEntry,
         Outcome(e, window[k].sq).kind # "stall"
  PROVE  /\ ServedEntry(k, e) \in LoadEntry
         /\ \/ /\ Deciding(e, k) = {} /\ Outcome(e, window[k].sq).kind = "memory"
               /\ Valued(ServedEntry(k, e), e,
                         IF e.addr \in Faulting THEN e.value ELSE Read(e.addr, e.size))
            \/ \E j \in Deciding(e, k) :
                 /\ \A i \in Deciding(e, k) : i <= j
                 /\ Verdict(e, S(j)) = "forward"
                 /\ Outcome(e, window[k].sq).kind = "forward"
                 /\ Valued(ServedEntry(k, e), e, S(j).value)
<1>1. CASE Deciding(e, k) = {}
  <2>1. Outcome(e, window[k].sq) = [kind |-> "memory", value |-> Zero]
    BY <1>1, OutcomeDecided
  <2>2. ServedEntry(k, e) =
          WithValue(e, IF e.addr \in Faulting THEN e.value ELSE Read(e.addr, e.size))
    BY <2>1 DEF ServedEntry
  <2>3. PICK v \in Value :
          v = IF e.addr \in Faulting THEN e.value ELSE Read(e.addr, e.size)
    BY ReadType, EntryFields DEF QueueInv
  <2> QED  BY <1>1, <2>1, <2>2, <2>3, WithValueType
<1>2. CASE Deciding(e, k) # {}
  <2>1. PICK j \in Deciding(e, k) :
          /\ \A i \in Deciding(e, k) : i <= j
          /\ Outcome(e, window[k].sq) = [kind |-> Verdict(e, S(j)), value |-> S(j).value]
    BY <1>2, OutcomeDecided
  <2>2. Verdict(e, S(j)) = "forward" /\ Outcome(e, window[k].sq).kind = "forward"
    <3>1. Verdict(e, S(j)) \in {"stall", "forward"}
      BY DEF Deciding, Verdict
    <3> QED  BY <3>1, <2>1
  <2>3. ServedEntry(k, e) = WithValue(e, S(j).value)
    BY <2>1, <2>2 DEF ServedEntry
  <2>4. S(j).value \in Value
    <3>1. j \in 1..Len(window)
      BY OlderStores DEF Deciding
    <3> QED  BY <3>1, InFlight, EntryFields
  <2> QED  BY <2>1, <2>2, <2>3, <2>4, WithValueType
<1> QED  BY <1>1, <1>2

-----------------------------------------------------------------------------
(* Every step preserves QueueInv.                                          *)

(* A dispatched instruction keeps both tails.                              *)
LEMMA NewType ==
  ASSUME TypeOK, NEW type \in {"load", "store", "branch"}
  PROVE  /\ New(type) \in Inst /\ New(type).type = type
         /\ New(type).lq = <<lq_tail, lq_tail_phase>>
         /\ New(type).sq = <<sq_tail, sq_tail_phase>>
         /\ ~New(type).done /\ ~New(type).exception /\ ~New(type).load_viol
<1>1. <<lq_tail, lq_tail_phase>> \in LSlot \X BOOLEAN
  BY DEF TypeOK
<1>2. <<sq_tail, sq_tail_phase>> \in SSlot \X BOOLEAN
  BY DEF TypeOK
<1> QED  BY <1>1, <1>2 DEF New, Inst, LQ_tails, SQ_tails

(* Both queues start empty. *)
LEMMA InitQueue ==
  ASSUME Init
  PROVE  QueueInv
<1>1. /\ 0 \in LSlot /\ 0 \in SSlot
      /\ LQ \in [LSlot -> LoadEntry] /\ SQ \in [SSlot -> StoreEntry]
      /\ Valid(LQ) = {} /\ Valid(SQ) = {}
  <2>1. LQ = [i \in LSlot |-> Blank] /\ SQ = [i \in SSlot |-> Blank]
    BY DEF Init
  <2>2. Valid(LQ) = {} /\ Valid(SQ) = {}
    BY <2>1, BlankType DEF Valid
  <2> QED  BY <2>1, <2>2, BlankType, Constants
<1>2. window = <<>> /\ window \in Seq(Inst) /\ Len(window) = 0
  BY EmptySeq DEF Init
<1>3. TypeOK
  BY <1>1, <1>2 DEF Init, TypeOK
<1>4. ASSUME NEW type
      PROVE  Mirrors(type, window, {}, 0, FALSE, 0, FALSE, 0)
  <2>0. PICK M, at, size : M = Members(window, type) /\ at = At(window, type)
                            /\ size = QSize(type)
    OBVIOUS
  <2>1. PICK hph \in BOOLEAN : hph = FALSE
    OBVIOUS
  <2>2. M = {} /\ size \in Nat \ {0} /\ 0 \in 0..(size - 1)
    BY <1>2, <2>0, Constants DEF Members
  <2>3. Queued(0, M, at, {}, 0, hph, 0, hph, size)
    BY <2>2, QueuedEmpty
  <2>4. Elders(M, 0 + 1) = 0
    BY EldersFirst
  <2> QED  BY <1>2, <2>0, <2>1, <2>2, <2>3, <2>4 DEF Mirrors
<1> QED  BY <1>1, <1>3, <1>4 DEF Init, QueueInv

(* A dispatched load takes the slot at lq_tail and the end of the window. *)
LEMMA DispatchLoadQueue ==
  ASSUME QueueInv, NEW n \in Sizes, NEW amo \in BOOLEAN, NEW mdp_stall \in BOOLEAN,
         DispatchLoad(n, amo, mdp_stall)
  PROVE  QueueInv'
<1> USE DEF DispatchLoad
<1>1. window \in Seq(Inst) /\ LQ \in [LSlot -> LoadEntry] /\ lq_tail \in LSlot
  BY DEF QueueInv, TypeOK
<1>2. PICK f : f = Fresh(n, amo, mdp_stall) /\ f \in LoadEntry /\ f.valid
  BY FreshType
<1>3. LQ' \in [LSlot -> LoadEntry] /\ Valid(LQ') = Valid(LQ) \cup {lq_tail}
  <2>1. LQ' = Put(LQ, lq_tail, f)
    BY <1>2 DEF Put
  <2> HIDE DEF DispatchLoad
  <2>2. /\ Put(LQ, lq_tail, f) \in [LSlot -> LoadEntry]
        /\ Valid(Put(LQ, lq_tail, f)) = Valid(LQ) \cup {lq_tail}
    <3>1. Put(LQ, lq_tail, f) \in [LSlot -> LoadEntry]
      BY <1>1, <1>2, EntryUpdate
    <3>2. f.valid => Valid(Put(LQ, lq_tail, f)) = Valid(LQ) \cup {lq_tail}
      <4>1. lq_tail \in DOMAIN LQ
        BY <1>1
      <4> QED  BY <4>1, EntryValid
    <3> QED  BY <3>1, <3>2, <1>2
  <2> QED  BY <2>1, <2>2
<1>4. PICK x : x = New("load")
  OBVIOUS
<1>5. /\ x \in Inst /\ x.type = "load"
      /\ x.lq = <<lq_tail, lq_tail_phase>> /\ x.sq = <<sq_tail, sq_tail_phase>>
  BY <1>4, NewType DEF QueueInv
<1>6. window' = Append(window, x) /\ window' \in Seq(Inst)
  BY <1>1, <1>4, <1>5, AppendProperties
<1>7. lq_tail' \in LSlot /\ lq_tail_phase' \in BOOLEAN
  BY AdvanceType, Constants DEF QueueInv, TypeOK
<1>8. TypeOK'
  BY <1>3, <1>6, <1>7 DEF QueueInv, TypeOK, sqVars
<1>9. Mirrors("load", window, Valid(LQ), lq_head, lq_head_phase,
              lq_tail, lq_tail_phase, lq_length)'
  <2>1. QSize("load") = lq_size /\ TailOf(x, "load") = <<lq_tail, lq_tail_phase>>
    BY <1>5 DEF QSize, TailOf
  <2>2. lq_length < lq_size
    <3>1. lq_length \in Nat
      <4>1. Len(window) + 1 \in Int
        BY <1>1, LenProperties
      <4> QED  BY <4>1, EldersFinite DEF QueueInv, Mirrors
    <3> QED  BY <3>1, Constants DEF stall
  <2>3. Mirrors("load", Append(window, x), Valid(LQ) \cup {lq_tail}, lq_head, lq_head_phase,
                Next1(lq_tail, lq_size), NextPhase(lq_tail, lq_tail_phase, lq_size),
                lq_length + 1)
    BY <1>1, <1>5, <2>1, <2>2, MirrorsEnter DEF QueueInv
  <2> QED  BY <2>3, <1>3, <1>6
<1>10. Mirrors("store", window, Valid(SQ), sq_head, sq_head_phase,
               sq_tail, sq_tail_phase, sq_length)'
  <2>1. TailOf(x, "store") = <<sq_tail, sq_tail_phase>> /\ x.type # "store"
    BY <1>5 DEF TailOf
  <2>2. Mirrors("store", Append(window, x), Valid(SQ), sq_head, sq_head_phase,
                sq_tail, sq_tail_phase, sq_length)
    BY <1>1, <1>5, <2>1, MirrorsPass DEF QueueInv
  <2> QED  BY <2>2, <1>6 DEF sqVars
<1> QED  BY <1>8, <1>9, <1>10 DEF QueueInv

(* A dispatched store takes the slot at sq_tail and the end of the window. *)
LEMMA DispatchStoreQueue ==
  ASSUME QueueInv, NEW n \in Sizes, NEW amo \in BOOLEAN, DispatchStore(n, amo)
  PROVE  QueueInv'
<1> USE DEF DispatchStore
<1>1. window \in Seq(Inst) /\ SQ \in [SSlot -> StoreEntry] /\ sq_tail \in SSlot
  BY DEF QueueInv, TypeOK
<1>2. PICK f : f = Fresh(n, amo, FALSE) /\ f \in StoreEntry /\ f.valid
  BY FreshType
<1>3. SQ' \in [SSlot -> StoreEntry] /\ Valid(SQ') = Valid(SQ) \cup {sq_tail}
  <2>1. SQ' = Put(SQ, sq_tail, f)
    BY <1>2 DEF Put
  <2> HIDE DEF DispatchStore
  <2>2. /\ Put(SQ, sq_tail, f) \in [SSlot -> StoreEntry]
        /\ Valid(Put(SQ, sq_tail, f)) = Valid(SQ) \cup {sq_tail}
    <3>1. Put(SQ, sq_tail, f) \in [SSlot -> StoreEntry]
      BY <1>1, <1>2, EntryUpdate
    <3>2. f.valid => Valid(Put(SQ, sq_tail, f)) = Valid(SQ) \cup {sq_tail}
      <4>1. sq_tail \in DOMAIN SQ
        BY <1>1
      <4> QED  BY <4>1, EntryValid
    <3> QED  BY <3>1, <3>2, <1>2
  <2> QED  BY <2>1, <2>2
<1>4. PICK x : x = New("store")
  OBVIOUS
<1>5. /\ x \in Inst /\ x.type = "store"
      /\ x.lq = <<lq_tail, lq_tail_phase>> /\ x.sq = <<sq_tail, sq_tail_phase>>
  BY <1>4, NewType DEF QueueInv
<1>6. window' = Append(window, x) /\ window' \in Seq(Inst)
  BY <1>1, <1>4, <1>5, AppendProperties
<1>7. sq_tail' \in SSlot /\ sq_tail_phase' \in BOOLEAN
  BY AdvanceType, Constants DEF QueueInv, TypeOK
<1>8. TypeOK'
  BY <1>3, <1>6, <1>7 DEF QueueInv, TypeOK, lqVars
<1>9. Mirrors("store", window, Valid(SQ), sq_head, sq_head_phase,
              sq_tail, sq_tail_phase, sq_length)'
  <2>1. QSize("store") = sq_size /\ TailOf(x, "store") = <<sq_tail, sq_tail_phase>>
    BY <1>5 DEF QSize, TailOf
  <2>2. sq_length < sq_size
    <3>1. sq_length \in Nat
      <4>1. Len(window) + 1 \in Int
        BY <1>1, LenProperties
      <4> QED  BY <4>1, EldersFinite DEF QueueInv, Mirrors
    <3> QED  BY <3>1, Constants DEF stall
  <2>3. Mirrors("store", Append(window, x), Valid(SQ) \cup {sq_tail}, sq_head, sq_head_phase,
                Next1(sq_tail, sq_size), NextPhase(sq_tail, sq_tail_phase, sq_size),
                sq_length + 1)
    BY <1>1, <1>5, <2>1, <2>2, MirrorsEnter DEF QueueInv
  <2> QED  BY <2>3, <1>3, <1>6
<1>10. Mirrors("load", window, Valid(LQ), lq_head, lq_head_phase,
               lq_tail, lq_tail_phase, lq_length)'
  <2>1. TailOf(x, "load") = <<lq_tail, lq_tail_phase>> /\ x.type # "load"
    BY <1>5 DEF TailOf
  <2>2. Mirrors("load", Append(window, x), Valid(LQ), lq_head, lq_head_phase,
                lq_tail, lq_tail_phase, lq_length)
    BY <1>1, <1>5, <2>1, MirrorsPass DEF QueueInv
  <2> QED  BY <2>2, <1>6 DEF lqVars
<1> QED  BY <1>8, <1>9, <1>10 DEF QueueInv

(* A dispatched branch records both tails, which are its positions. *)
LEMMA DispatchBranchQueue ==
  ASSUME QueueInv, DispatchBranch
  PROVE  QueueInv'
<1> USE DEF DispatchBranch
<1>1. window \in Seq(Inst)
  BY DEF QueueInv, TypeOK
<1>2. PICK x : x = New("branch")
  OBVIOUS
<1>3. /\ x \in Inst /\ x.type = "branch"
      /\ x.lq = <<lq_tail, lq_tail_phase>> /\ x.sq = <<sq_tail, sq_tail_phase>>
  BY <1>2, NewType DEF QueueInv
<1>4. window' = Append(window, x) /\ window' \in Seq(Inst)
  BY <1>1, <1>2, <1>3, AppendProperties
<1>5. TypeOK'
  BY <1>4 DEF QueueInv, TypeOK, lqVars, sqVars
<1>6. /\ TailOf(x, "load") = <<lq_tail, lq_tail_phase>> /\ x.type # "load"
      /\ TailOf(x, "store") = <<sq_tail, sq_tail_phase>> /\ x.type # "store"
  BY <1>3 DEF TailOf
<1>7. Mirrors("load", Append(window, x), Valid(LQ), lq_head, lq_head_phase,
              lq_tail, lq_tail_phase, lq_length)
  BY <1>1, <1>3, <1>6, MirrorsPass DEF QueueInv
<1>8. Mirrors("store", Append(window, x), Valid(SQ), sq_head, sq_head_phase,
              sq_tail, sq_tail_phase, sq_length)
  BY <1>1, <1>3, <1>6, MirrorsPass DEF QueueInv
<1> QED  BY <1>4, <1>5, <1>7, <1>8 DEF QueueInv, lqVars, sqVars

(* The entry of a store or of a load in flight changes.                    *)
LEMMA StoreUpdate ==
  ASSUME QueueInv, NEW k \in 1..Len(window), NEW f \in StoreEntry, f.valid = S(k).valid
  PROVE  /\ Put(SQ, window[k].sq[1], f) \in [SSlot -> StoreEntry]
         /\ Valid(Put(SQ, window[k].sq[1], f)) = Valid(SQ)
<1>1. PICK i \in SSlot : i = window[k].sq[1]
  BY InFlight
<1>2. SQ \in [SSlot -> StoreEntry] /\ f.valid = SQ[i].valid
  BY <1>1 DEF QueueInv, TypeOK, S
<1>3. Put(SQ, i, f) \in [SSlot -> StoreEntry]
  BY <1>2, EntryUpdate
<1>4. Valid(Put(SQ, i, f)) = Valid(SQ)
  <2>1. i \in DOMAIN SQ
    BY <1>2
  <2> QED  BY <2>1, <1>2, EntryKept
<1> QED  BY <1>1, <1>3, <1>4

(* Updating the entry of a load in flight keeps the queues. *)
LEMMA LoadUpdate ==
  ASSUME QueueInv, NEW k \in 1..Len(window), NEW f \in LoadEntry, f.valid = L(k).valid
  PROVE  /\ Put(LQ, window[k].lq[1], f) \in [LSlot -> LoadEntry]
         /\ Valid(Put(LQ, window[k].lq[1], f)) = Valid(LQ)
<1>1. PICK i \in LSlot : i = window[k].lq[1]
  BY InFlight
<1>2. LQ \in [LSlot -> LoadEntry] /\ f.valid = LQ[i].valid
  BY <1>1 DEF QueueInv, TypeOK, L
<1>3. Put(LQ, i, f) \in [LSlot -> LoadEntry]
  BY <1>2, EntryUpdate
<1>4. Valid(Put(LQ, i, f)) = Valid(LQ)
  <2>1. i \in DOMAIN LQ
    BY <1>2
  <2> QED  BY <2>1, <1>2, EntryKept
<1> QED  BY <1>1, <1>3, <1>4

(* A store's address marks itself or the load that should have waited.     *)
Excepted(k, a, j) == window[j].exception \/ (a \in Faulting /\ j = k)
Violated(k, a, j) ==
  \/ window[j].load_viol
  \/ a \notin Faulting /\ window[j].type = "load" /\ window[j].lq[1] \in Violating(k, a)

(* mark_load_violation marks the excepting store or the violating loads and*)
(* nothing else.                                                           *)
LEMMA MarkedWindow ==
  ASSUME QueueInv, NEW k \in 1..Len(window), NEW a
  PROVE  /\ Alike(MarkedBy(k, a), window)
         /\ \A j \in 1..Len(window) :
              /\ MarkedBy(k, a)[j].exception <=> Excepted(k, a, j)
              /\ MarkedBy(k, a)[j].load_viol <=> Violated(k, a, j)
<1>1. /\ window \in Seq(Inst) /\ DOMAIN window = 1..Len(window)
      /\ \A j \in 1..Len(window) : window[j] \in Inst
  BY WindowFields DEF QueueInv, TypeOK
<1>2. CASE a \in Faulting
  <2>0. PICK b \in BOOLEAN : b = TRUE
    OBVIOUS
  <2>1. PICK y : y = [window[k] EXCEPT !.exception = b]
    OBVIOUS
  <2>2. Twin(y, window[k]) /\ y.exception = b /\ y.load_viol = window[k].load_viol
    <3>1. window[k] \in Inst
      BY <1>1
    <3> QED  BY <3>1, <2>1, ExceptionFlag
  <2>3. MarkedBy(k, a) = [window EXCEPT ![k] = y]
    <3>1. MarkedBy(k, a) = [window EXCEPT ![k] = [window[k] EXCEPT !.exception = TRUE]]
      BY <1>2, Zenon DEF MarkedBy
    <3> QED  BY <3>1, <2>0, <2>1, Zenon
  <2>4. /\ Alike(MarkedBy(k, a), window) /\ MarkedBy(k, a)[k] = y
        /\ \A j \in 1..Len(window) : j # k => MarkedBy(k, a)[j] = window[j]
    <3>1. /\ Alike([window EXCEPT ![k] = y], window) /\ [window EXCEPT ![k] = y][k] = y
          /\ \A j \in 1..Len(window) : j # k => [window EXCEPT ![k] = y][j] = window[j]
      <4>1. window \in Seq(Inst)
        BY <1>1
      <4> QED  BY <4>1, <2>2, WindowUpdate, Zenon
    <3> QED  BY <3>1, <2>3, Zenon
  <2>5. ASSUME NEW j \in 1..Len(window)
        PROVE  /\ MarkedBy(k, a)[j].exception <=> Excepted(k, a, j)
               /\ MarkedBy(k, a)[j].load_viol <=> Violated(k, a, j)
    <3>1. CASE j = k
      BY <1>2, <2>0, <2>2, <2>4, <3>1 DEF Excepted, Violated
    <3>2. CASE j # k
      BY <1>2, <2>4, <3>2 DEF Excepted, Violated
    <3> QED  BY <3>1, <3>2
  <2> QED  BY <2>4, <2>5
<1>3. CASE a \notin Faulting
  <2>1. PICK v : v = MarkedBy(k, a)
    OBVIOUS
  <2>2. v = [j \in 1..Len(window) |->
               [window[j] EXCEPT !.load_viol =
                  @ \/ (window[j].type = "load" /\ window[j].lq[1] \in Violating(k, a))]]
    BY <1>1, <1>3, <2>1 DEF MarkedBy
  <2>3. ASSUME NEW j \in 1..Len(window)
        PROVE  /\ Twin(v[j], window[j]) /\ v[j].exception = window[j].exception
               /\ v[j].load_viol <=> Violated(k, a, j)
    <3>1. PICK b \in BOOLEAN :
            b = (window[j].load_viol \/
                   (window[j].type = "load" /\ window[j].lq[1] \in Violating(k, a)))
      <4>1. window[j].load_viol \in BOOLEAN
        BY <1>1, InstFields
      <4> QED  BY <4>1
    <3>2. v[j] = [window[j] EXCEPT !.load_viol = b]
      <4>1. v[j] = [window[j] EXCEPT !.load_viol =
                      @ \/ (window[j].type = "load" /\ window[j].lq[1] \in Violating(k, a))]
        BY <2>2
      <4> QED  BY <4>1, <3>1, Zenon
    <3>3. v[j].load_viol = b /\ Twin(v[j], window[j]) /\ v[j].exception = window[j].exception
      <4>1. window[j] \in Inst
        BY <1>1
      <4> QED  BY <4>1, <3>2, ViolationFlag
    <3> QED  BY <3>1, <3>3, <1>3 DEF Violated
  <2>4. v = [j \in 1..Len(window) |-> v[j]]
    BY <2>2
  <2>5. Alike(v, window)
    BY <1>1, <2>3, <2>4, WindowMap
  <2>6. \A j \in 1..Len(window) : v[j].exception <=> Excepted(k, a, j)
    BY <1>3, <2>3 DEF Excepted
  <2> QED  BY <2>1, <2>3, <2>5, <2>6
<1> QED  BY <1>2, <1>3

(* store_addr with store_value keeps the queues. *)
LEMMA ExecuteStoreQueue ==
  ASSUME QueueInv, NEW k, NEW a, NEW v, ExecuteStore(k, a, v)
  PROVE  QueueInv'
<1>1. /\ k \in 1..Len(window) /\ DOMAIN window = 1..Len(window)
      /\ a \in Aligned(S(k).size) /\ v \in Bytes(S(k).size)
  BY WindowFields DEF ExecuteStore, IsStore, QueueInv, TypeOK
<1>2. PICK e : e = WithAddr(S(k), a)
  OBVIOUS
<1>3. e \in StoreEntry /\ e \in LoadEntry /\ e.size = S(k).size /\ e.valid = S(k).valid
  BY <1>1, <1>2, InFlight, WithAddrType DEF Addressed
<1>4. v \in Value
  BY <1>1, InFlight, EntryFields DEF Value
<1>5. PICK f : f = WithValue(e, v)
  OBVIOUS
<1>6. f \in StoreEntry /\ f.valid = S(k).valid
  BY <1>1, <1>3, <1>4, <1>5, WithValueType DEF Valued
<1>7. SQ' = Put(SQ, window[k].sq[1], f)
  BY <1>2, <1>5 DEF ExecuteStore, Put, S
<1>8. SQ' \in [SSlot -> StoreEntry] /\ Valid(SQ') = Valid(SQ)
  BY <1>1, <1>6, <1>7, StoreUpdate
<1>9. Alike(window', window)
  BY <1>1, MarkedWindow DEF ExecuteStore
<1>10. UNCHANGED Pointers /\ LQ' = LQ /\ UNCHANGED <<load_reservation, mem>>
  BY DEF ExecuteStore, Pointers, lqVars
<1> QED  BY <1>8, <1>9, <1>10, QuietStep DEF QueueInv, TypeOK

(* The address half of a split store keeps the queues. *)
LEMMA ExecuteUpperQueue ==
  ASSUME QueueInv, NEW k, NEW a, ExecuteUpper(k, a)
  PROVE  QueueInv'
<1>1. /\ k \in 1..Len(window) /\ DOMAIN window = 1..Len(window)
      /\ a \in Aligned(S(k).size)
  BY WindowFields DEF ExecuteUpper, IsStore, QueueInv, TypeOK
<1>2. PICK e : e = WithAddr(S(k), a)
  OBVIOUS
<1>3. e \in StoreEntry /\ e.valid = S(k).valid
  BY <1>1, <1>2, InFlight, WithAddrType DEF Addressed
<1>4. SQ' = Put(SQ, window[k].sq[1], e)
  BY <1>2 DEF ExecuteUpper, Put, S
<1>5. SQ' \in [SSlot -> StoreEntry] /\ Valid(SQ') = Valid(SQ)
  BY <1>1, <1>3, <1>4, StoreUpdate
<1>6. Alike(window', window)
  BY <1>1, MarkedWindow DEF ExecuteUpper
<1>7. UNCHANGED Pointers /\ LQ' = LQ /\ UNCHANGED <<load_reservation, mem>>
  BY DEF ExecuteUpper, Pointers, lqVars
<1> QED  BY <1>5, <1>6, <1>7, QuietStep DEF QueueInv, TypeOK

(* A window is like itself.                                                *)
LEMMA SameWindow ==
  ASSUME QueueInv
  PROVE  Alike(window, window)
BY DEF QueueInv, TypeOK, Alike

(* The value half of a split store keeps the queues. *)
LEMMA ExecuteLowerQueue ==
  ASSUME QueueInv, NEW k, NEW v, ExecuteLower(k, v)
  PROVE  QueueInv'
<1>1. /\ k \in 1..Len(window) /\ DOMAIN window = 1..Len(window)
      /\ v \in Bytes(S(k).size)
  BY WindowFields DEF ExecuteLower, IsStore, QueueInv, TypeOK
<1>2. v \in Value
  BY <1>1, InFlight, EntryFields DEF Value
<1>3. PICK f : f = WithValue(S(k), v)
  OBVIOUS
<1>4. f \in StoreEntry /\ f.valid = S(k).valid
  BY <1>1, <1>2, <1>3, InFlight, WithValueType DEF Valued
<1>5. SQ' = Put(SQ, window[k].sq[1], f)
  BY <1>3 DEF ExecuteLower, Put, S
<1>6. SQ' \in [SSlot -> StoreEntry] /\ Valid(SQ') = Valid(SQ)
  BY <1>1, <1>4, <1>5, StoreUpdate
<1>7. Alike(window', window)
  BY SameWindow DEF ExecuteLower
<1>8. UNCHANGED Pointers /\ LQ' = LQ /\ UNCHANGED <<load_reservation, mem>>
  BY DEF ExecuteLower, Pointers, lqVars
<1> QED  BY <1>6, <1>7, <1>8, QuietStep DEF QueueInv, TypeOK

(* A load that is served may fault, and nothing else becomes of the        *)
(* window.                                                                 *)
LEMMA FaultedWindow ==
  ASSUME QueueInv, NEW k \in 1..Len(window), NEW e,
         window' = [window EXCEPT ![k].exception = @ \/ FaultsOn(k, e)]
  PROVE  /\ Alike(window', window)
         /\ window'[k].exception <=> (window[k].exception \/ FaultsOn(k, e))
         /\ window'[k].load_viol = window[k].load_viol
         /\ \A j \in 1..Len(window) : j # k => window'[j] = window[j]
<1>1. /\ window \in Seq(Inst) /\ window[k] \in Inst /\ window[k].exception \in BOOLEAN
  BY InFlight, InstFields DEF QueueInv, TypeOK
<1>2. PICK b \in BOOLEAN : b = (window[k].exception \/ FaultsOn(k, e))
  <2>1. (window[k].exception \/ FaultsOn(k, e)) \in BOOLEAN
    BY <1>1
  <2> QED  BY <2>1
<1>3. PICK y : y = [window[k] EXCEPT !.exception = b]
  OBVIOUS
<1>4. Twin(y, window[k]) /\ y.exception = b /\ y.load_viol = window[k].load_viol
  BY <1>1, <1>3, ExceptionFlag
<1>5. window' = [window EXCEPT ![k] = y]
  <2>1. window' = [window EXCEPT ![k] =
                     [window[k] EXCEPT !.exception = window[k].exception \/ FaultsOn(k, e)]]
    BY Zenon
  <2> QED  BY <2>1, <1>2, <1>3, Zenon
<1>6. /\ Alike([window EXCEPT ![k] = y], window) /\ [window EXCEPT ![k] = y][k] = y
      /\ \A j \in 1..Len(window) : j # k => [window EXCEPT ![k] = y][j] = window[j]
  BY <1>1, <1>4, WindowUpdate, Zenon
<1>7. /\ Alike(window', window) /\ window'[k] = y
      /\ \A j \in 1..Len(window) : j # k => window'[j] = window[j]
  BY <1>5, <1>6, Zenon
<1> QED  BY <1>2, <1>4, <1>7

(* A load that is served keeps its place.                                  *)
LEMMA ExecutedLoadQueue ==
  ASSUME QueueInv, NEW k \in 1..Len(window), NEW e \in LoadEntry,
         e.valid = L(k).valid, Outcome(e, window[k].sq).kind # "stall",
         ExecutedLoad(k, e),
         UNCHANGED <<lq_head, lq_tail, lq_head_phase, lq_tail_phase, lq_length,
                     sqVars, load_reservation, mem>>
  PROVE  QueueInv'
<1>1. PICK f : f = ServedEntry(k, e)
  OBVIOUS
<1>2. f \in LoadEntry /\ f.valid = L(k).valid
  BY <1>1, ServedType DEF Valued
<1>3. LQ' = Put(LQ, window[k].lq[1], f)
  BY <1>1 DEF ExecutedLoad, Put
<1>4. LQ' \in [LSlot -> LoadEntry] /\ Valid(LQ') = Valid(LQ)
  BY <1>2, <1>3, LoadUpdate
<1>5. Alike(window', window)
  BY FaultedWindow DEF ExecutedLoad
<1>6. UNCHANGED Pointers /\ SQ' = SQ /\ UNCHANGED <<load_reservation, mem>>
  BY DEF Pointers, sqVars
<1> QED  BY <1>4, <1>5, <1>6, QuietStep DEF QueueInv, TypeOK

(* A load gets its address, and its value if that can be had at once.      *)
LEMMA LoadAddrQueue ==
  ASSUME QueueInv, NEW k, NEW a, NEW arrived, LoadAddr(k, a, arrived)
  PROVE  QueueInv'
<1>1. /\ k \in 1..Len(window) /\ a \in Aligned(L(k).size)
      /\ UNCHANGED <<lq_head, lq_tail, lq_head_phase, lq_tail_phase, lq_length,
                     sqVars, load_reservation, mem>>
  BY WindowFields DEF LoadAddr, IsLoad, QueueInv, TypeOK
<1>2. PICK e : e = WithAddr(L(k), a)
  OBVIOUS
<1>3. e \in LoadEntry /\ e.valid = L(k).valid
  BY <1>1, <1>2, InFlight, WithAddrType DEF Addressed
<1>4. \/ Serveable(k, e) /\ ExecutedLoad(k, e)
      \/ LQ' = [LQ EXCEPT ![window[k].lq[1]] = e] /\ UNCHANGED window
  BY <1>2 DEF LoadAddr
<1>5. CASE Serveable(k, e) /\ ExecutedLoad(k, e)
  BY <1>1, <1>3, <1>5, ExecutedLoadQueue DEF Serveable
<1>6. CASE LQ' = [LQ EXCEPT ![window[k].lq[1]] = e] /\ UNCHANGED window
  <2>1. LQ' = Put(LQ, window[k].lq[1], e)
    BY <1>6 DEF Put
  <2>2. LQ' \in [LSlot -> LoadEntry] /\ Valid(LQ') = Valid(LQ)
    BY <1>1, <1>3, <2>1, LoadUpdate
  <2>3. Alike(window', window)
    BY <1>6, SameWindow
  <2>4. UNCHANGED Pointers /\ SQ' = SQ /\ UNCHANGED <<load_reservation, mem>>
    BY <1>1 DEF Pointers, sqVars
  <2> QED  BY <2>2, <2>3, <2>4, QuietStep DEF QueueInv, TypeOK
<1> QED  BY <1>4, <1>5, <1>6

(* A waiting load gets its value.                                          *)
LEMMA LoadUnstallQueue ==
  ASSUME QueueInv, NEW k, load_unstall(k)
  PROVE  QueueInv'
<1>1. /\ k \in 1..Len(window) /\ Serveable(k, L(k)) /\ ExecutedLoad(k, L(k))
      /\ UNCHANGED <<lq_head, lq_tail, lq_head_phase, lq_tail_phase, lq_length,
                     sqVars, load_reservation, mem>>
  BY WindowFields DEF load_unstall, Waits, IsLoad, QueueInv, TypeOK
<1> QED  BY <1>1, InFlight, ExecutedLoadQueue DEF Serveable

(* A branch is done, and nothing else becomes of the window.               *)
LEMMA DoneWindow ==
  ASSUME QueueInv, NEW k \in 1..Len(window)
  PROVE  /\ Alike([window EXCEPT ![k].done = TRUE], window)
         /\ \A j \in 1..Len(window) :
              /\ [window EXCEPT ![k].done = TRUE][j].exception = window[j].exception
              /\ [window EXCEPT ![k].done = TRUE][j].load_viol = window[j].load_viol
<1>1. window \in Seq(Inst) /\ window[k] \in Inst
  BY InFlight DEF QueueInv, TypeOK
<1>2. PICK b \in BOOLEAN : b = TRUE
  OBVIOUS
<1>3. PICK y : y = [window[k] EXCEPT !.done = b]
  OBVIOUS
<1>4. Twin(y, window[k]) /\ y.exception = window[k].exception /\ y.load_viol = window[k].load_viol
  BY <1>1, <1>3, DoneFlag
<1>5. [window EXCEPT ![k].done = TRUE] = [window EXCEPT ![k] = y]
  <2>1. [window EXCEPT ![k].done = TRUE] = [window EXCEPT ![k] = [window[k] EXCEPT !.done = TRUE]]
    BY Zenon
  <2> QED  BY <2>1, <1>2, <1>3, Zenon
<1>6. /\ Alike([window EXCEPT ![k] = y], window) /\ [window EXCEPT ![k] = y][k] = y
      /\ \A j \in 1..Len(window) : j # k => [window EXCEPT ![k] = y][j] = window[j]
  BY <1>1, <1>4, WindowUpdate, Zenon
<1>7. PICK v : v = [window EXCEPT ![k].done = TRUE]
  OBVIOUS
<1>8. /\ Alike(v, window) /\ v[k] = y
      /\ \A j \in 1..Len(window) : j # k => v[j] = window[j]
  BY <1>5, <1>6, <1>7, Zenon
<1>9. \A j \in 1..Len(window) :
        v[j].exception = window[j].exception /\ v[j].load_viol = window[j].load_viol
  BY <1>4, <1>8
<1> QED  BY <1>7, <1>8, <1>9, Zenon

(* A branch that was predicted right changes no queue.                     *)
LEMMA ResolveQueue ==
  ASSUME QueueInv, NEW k, ResolveCorrect(k)
  PROVE  QueueInv'
<1>1. k \in 1..Len(window)
  BY WindowFields DEF ResolveCorrect, OpenBranch, QueueInv, TypeOK
<1>2. Alike(window', window)
  BY <1>1, DoneWindow DEF ResolveCorrect
<1>3. UNCHANGED Pointers /\ LQ' = LQ /\ SQ' = SQ /\ UNCHANGED <<load_reservation, mem>>
  BY DEF ResolveCorrect, Pointers, lqVars, sqVars
<1> QED  BY <1>2, <1>3, QuietStep DEF QueueInv, TypeOK

(* Another core may run, and nothing of the queues changes.                *)
LEMMA YieldQueue ==
  ASSUME QueueInv, yield_load_reservation
  PROVE  QueueInv'
<1>1. UNCHANGED <<lqVars, sqVars, mem, window>> /\ load_reservation' = NoAddr
  BY DEF yield_load_reservation
<1>2. TypeOK'
  BY <1>1 DEF QueueInv, TypeOK, lqVars, sqVars
<1> QED  BY <1>1, <1>2 DEF QueueInv, lqVars, sqVars

(* A branch that was predicted wrong keeps what is older, and itself.      *)
LEMMA CutWindow ==
  ASSUME QueueInv, NEW k \in 1..Len(window),
         window' = SubSeq([window EXCEPT ![k].done = TRUE], 1, k)
  PROVE  /\ window' \in Seq(Inst) /\ Len(window') = k
         /\ \A j \in 1..k :
              /\ window'[j].type = window[j].type
              /\ window'[j].lq = window[j].lq /\ window'[j].sq = window[j].sq
              /\ window'[j].exception = window[j].exception
              /\ window'[j].load_viol = window[j].load_viol
<1>1. PICK v : v = [window EXCEPT ![k].done = TRUE]
  OBVIOUS
<1>2. /\ Alike(v, window)
      /\ \A j \in 1..Len(window) :
           v[j].exception = window[j].exception /\ v[j].load_viol = window[j].load_viol
  BY <1>1, DoneWindow, Zenon
<1>3. v \in Seq(Inst) /\ Len(v) = Len(window)
  BY <1>2 DEF Alike
<1>4. \A j \in 1..k : v[j] \in Inst /\ j \in 1..Len(window)
  BY <1>3, WindowFields
<1>5. k \in Int /\ 1 <= k /\ (k - 1) + 1 = k
  OBVIOUS
<1>6. /\ SubSeq(v, 1, k) \in Seq(Inst) /\ Len(SubSeq(v, 1, k)) = k
      /\ \A j \in 1..k : SubSeq(v, 1, k)[j] = v[j]
  BY <1>4, <1>5, SubSeqProperties
<1>7. window' = SubSeq(v, 1, k)
  BY <1>1, Zenon
<1>8. \A j \in 1..k : window'[j] = v[j]
  BY <1>6, <1>7
<1> QED  BY <1>2, <1>4, <1>6, <1>7, <1>8 DEF Alike

(* A branch that was predicted wrong restores both queues.                 *)
LEMMA MispredictQueue ==
  ASSUME QueueInv, NEW k, Mispredict(k)
  PROVE  QueueInv'
<1>1. k \in 1..Len(window) /\ window[k].type = "branch"
  BY WindowFields DEF Mispredict, OpenBranch, QueueInv, TypeOK
<1>2. PICK lt, lph, st, sph : /\ window[k].lq = <<lt, lph>> /\ window[k].sq = <<st, sph>>
                              /\ lt \in LSlot /\ lph \in BOOLEAN
                              /\ st \in SSlot /\ sph \in BOOLEAN
  BY <1>1, InFlight, InstFields
<1>3. PICK lr, sr : /\ lr = RestoredLength(lq_head, lq_head_phase, lt, lph, lq_size)
                    /\ sr = RestoredLength(sq_head, sq_head_phase, st, sph, sq_size)
  OBVIOUS
<1>4. /\ lq_tail' = lt /\ lq_tail_phase' = lph /\ lq_length' = lr
      /\ sq_tail' = st /\ sq_tail_phase' = sph /\ sq_length' = sr
      /\ LQ' = Revalidated(LQ, lq_head, lr, lq_size)
      /\ SQ' = Revalidated(SQ, sq_head, sr, sq_size)
      /\ UNCHANGED <<lq_head, lq_head_phase, sq_head, sq_head_phase, load_reservation, mem>>
      /\ window' = SubSeq([window EXCEPT ![k].done = TRUE], 1, k)
  BY <1>2, <1>3 DEF Mispredict
<1>5. /\ window' \in Seq(Inst) /\ Len(window') = k
      /\ \A j \in 1..k : /\ window'[j].type = window[j].type
                         /\ window'[j].lq = window[j].lq /\ window'[j].sq = window[j].sq
  BY <1>1, <1>4, CutWindow
<1>6. /\ LQ' \in [LSlot -> LoadEntry]
      /\ Valid(LQ') = Leading(lq_size, lq_head, lr)
  <2>1. LQ \in [0..(lq_size - 1) -> LoadEntry] /\ lq_size \in Nat \ {0}
    BY Constants DEF QueueInv, TypeOK
  <2>2. LoadEntry \in {LoadEntry, StoreEntry} /\ StoreEntry \in {LoadEntry, StoreEntry}
    OBVIOUS
  <2>3. PICK E, Q, n, h : E = LoadEntry /\ Q = LQ /\ n = lq_size /\ h = lq_head
    OBVIOUS
  <2>4. Q \in [0..(n - 1) -> E] /\ n \in Nat \ {0} /\ E \in {LoadEntry, StoreEntry}
    BY <2>1, <2>2, <2>3
  <2>5. /\ Revalidated(Q, h, lr, n) \in [0..(n - 1) -> E]
        /\ Valid(Revalidated(Q, h, lr, n)) = Leading(n, h, lr)
    BY <2>4, RevalidatedType
  <2> QED  BY <2>3, <2>5, <1>4, Constants
<1>7. /\ SQ' \in [SSlot -> StoreEntry]
      /\ Valid(SQ') = Leading(sq_size, sq_head, sr)
  <2>1. SQ \in [0..(sq_size - 1) -> StoreEntry] /\ sq_size \in Nat \ {0}
    BY Constants DEF QueueInv, TypeOK
  <2>2. LoadEntry \in {LoadEntry, StoreEntry} /\ StoreEntry \in {LoadEntry, StoreEntry}
    OBVIOUS
  <2>3. PICK E, Q, n, h : E = StoreEntry /\ Q = SQ /\ n = sq_size /\ h = sq_head
    OBVIOUS
  <2>4. Q \in [0..(n - 1) -> E] /\ n \in Nat \ {0} /\ E \in {LoadEntry, StoreEntry}
    BY <2>1, <2>2, <2>3
  <2>5. /\ Revalidated(Q, h, sr, n) \in [0..(n - 1) -> E]
        /\ Valid(Revalidated(Q, h, sr, n)) = Leading(n, h, sr)
    BY <2>4, RevalidatedType
  <2> QED  BY <2>3, <2>5, <1>4, Constants
<1>8. TypeOK'
  BY <1>2, <1>4, <1>5, <1>6, <1>7 DEF QueueInv, TypeOK
<1>9. window \in Seq(Inst) /\ QSize("load") = lq_size /\ QSize("store") = sq_size
  BY DEF QueueInv, TypeOK, QSize
<1>10. Mirrors("load", window', Valid(LQ'), lq_head, lq_head_phase, lt, lph, lr)
  <2>1. TailOf(window[k], "load") = <<lt, lph>> /\ window[k].type # "load"
    BY <1>1, <1>2 DEF TailOf
  <2> QED  BY <1>1, <1>3, <1>5, <1>6, <1>9, <2>1, MirrorsCut DEF QueueInv
<1>11. Mirrors("store", window', Valid(SQ'), sq_head, sq_head_phase, st, sph, sr)
  <2>1. TailOf(window[k], "store") = <<st, sph>> /\ window[k].type # "store"
    BY <1>1, <1>2 DEF TailOf
  <2> QED  BY <1>1, <1>3, <1>5, <1>7, <1>9, <2>1, MirrorsCut DEF QueueInv
<1> QED  BY <1>4, <1>8, <1>10, <1>11 DEF QueueInv

(* The window without its first instruction.                               *)
LEMMA ShorterWindow ==
  ASSUME QueueInv, window # <<>>, window' = Tail(window)
  PROVE  /\ 1 \in 1..Len(window) /\ window' \in Seq(Inst)
         /\ Len(window') \in Nat /\ Len(window') + 1 = Len(window)
         /\ \A k \in 1..Len(window') : k + 1 \in 1..Len(window) /\ window'[k] = window[k + 1]
<1>1. window \in Seq(Inst)
  BY DEF QueueInv, TypeOK
<1>2. Len(window) \in Nat \ {0}
  BY <1>1, EmptySeq
<1> QED  BY <1>1, <1>2, HeadTailProperties

(* The oldest load retires: its entry is the one at the head.              *)
LEMMA RetireLoadQueue ==
  ASSUME QueueInv, RetireLoad
  PROVE  QueueInv' /\ window[1].lq[1] = lq_head
<1>1. /\ window # <<>> /\ window' = Tail(window) /\ window[1].type = "load"
      /\ load_reservation' = IF L(1).amo THEN LQ[lq_head].addr ELSE load_reservation
      /\ LQ' = [LQ EXCEPT ![lq_head].valid = FALSE]
      /\ lq_head' = Next1(lq_head, lq_size)
      /\ lq_head_phase' = NextPhase(lq_head, lq_head_phase, lq_size)
      /\ lq_length' = lq_length - 1
      /\ UNCHANGED <<lq_tail, lq_tail_phase, sqVars, mem>>
  BY DEF RetireLoad, HeadCompleted, IsLoad
<1>2. /\ window \in Seq(Inst) /\ window' \in Seq(Inst)
      /\ LQ \in [LSlot -> LoadEntry] /\ lq_head \in LSlot /\ LQ[lq_head] \in LoadEntry
      /\ QSize("load") = lq_size
  BY <1>1, ShorterWindow DEF QueueInv, TypeOK, QSize
<1>3. PICK b \in BOOLEAN : b = FALSE
  OBVIOUS
<1>4. PICK f : f = [LQ[lq_head] EXCEPT !.valid = b]
  OBVIOUS
<1>5. f \in LoadEntry /\ ~f.valid
  BY <1>2, <1>3, <1>4, WithValidType
<1>6. LQ' = Put(LQ, lq_head, f)
  <2>1. LQ' = [LQ EXCEPT ![lq_head] = [LQ[lq_head] EXCEPT !.valid = FALSE]]
    BY <1>1, Zenon
  <2> QED  BY <2>1, <1>3, <1>4, Zenon DEF Put
<1>7. LQ' \in [LSlot -> LoadEntry]
  BY <1>2, <1>5, <1>6, EntryUpdate
<1>8. Valid(LQ') = Without(Valid(LQ), lq_head)
  <2>1. lq_head \in DOMAIN LQ
    BY <1>2
  <2> QED  BY <2>1, <1>5, <1>6, EntryValid
<1>9. lq_head' \in LSlot /\ lq_head_phase' \in BOOLEAN
  BY <1>1, AdvanceType, Constants DEF QueueInv, TypeOK
<1>10. load_reservation' \in Addr \cup {NoAddr}
  BY <1>1, <1>2, EntryFields DEF QueueInv, TypeOK
<1>11. TypeOK'
  BY <1>1, <1>2, <1>7, <1>9, <1>10 DEF QueueInv, TypeOK, sqVars
<1>12. /\ TailOf(window[1], "load")[1] = lq_head
       /\ Mirrors("load", Tail(window), Without(Valid(LQ), lq_head), Next1(lq_head, lq_size),
                  NextPhase(lq_head, lq_head_phase, lq_size), lq_tail, lq_tail_phase,
                  lq_length - 1)
  <2>1. Mirrors("load", window, Valid(LQ), lq_head, lq_head_phase,
                lq_tail, lq_tail_phase, lq_length)
    BY DEF QueueInv
  <2>2. window \in Seq(Inst) /\ window # <<>> /\ window[1].type = "load" /\ QSize("load") = lq_size
    BY <1>1, <1>2
  <2>3. /\ TailOf(window[1], "load")[1] = lq_head
        /\ Mirrors("load", Tail(window), Without(Valid(LQ), lq_head),
                   Next1(lq_head, QSize("load")),
                   NextPhase(lq_head, lq_head_phase, QSize("load")),
                   lq_tail, lq_tail_phase, lq_length - 1)
    BY <2>1, <2>2, MirrorsLeave
  <2> QED  BY <2>2, <2>3
<1>13. Mirrors("store", Tail(window), Valid(SQ), sq_head, sq_head_phase,
               sq_tail, sq_tail_phase, sq_length)
  BY <1>1, <1>2, MirrorsSkip DEF QueueInv
<1> QED  BY <1>1, <1>8, <1>11, <1>12, <1>13 DEF QueueInv, sqVars, TailOf

(* A store leaves bytes in memory.                                         *)
LEMMA OverlaidType ==
  ASSUME NEW m \in [Addr -> Byte], NEW e \in StoreEntry, e.value_avail
  PROVE  /\ Overlaid(m, e) \in [Addr -> Byte]
         /\ \A b \in 0..(e.size - 1) : Overlaid(m, e)[e.addr + b] = e.value[b]
         /\ \A a \in Addr : a \notin e.addr..(e.addr + e.size - 1) => Overlaid(m, e)[a] = m[a]
<1>1. e.value \in Bytes(e.size) /\ e \in LoadEntry
  BY DEF StoreEntry
<1>2. e.size \in Nat /\ e.addr \in Nat /\ e.addr \in Aligned(e.size) /\ e.size \in Sizes
  <2>1. e.addr \in Aligned(e.size) /\ e.size \in Sizes /\ e.addr \in Addr
    BY <1>1, EntryFields
  <2>2. /\ \A n \in Sizes : n \in Nat
        /\ \A a \in Addr : a \in Nat
    BY LSUAssumption DEF Addr
  <2> QED  BY <2>1, <2>2, Zenon
<1>3. ASSUME NEW a \in e.addr..(e.addr + e.size - 1)
      PROVE  e.value[a - e.addr] \in Byte
  <2>1. a - e.addr \in 0..(e.size - 1)
    BY <1>2
  <2> QED  BY <2>1, <1>1 DEF Bytes
<1>4. Overlaid(m, e) \in [Addr -> Byte]
  BY <1>3 DEF Overlaid
<1>5. ASSUME NEW b \in 0..(e.size - 1)
      PROVE  Overlaid(m, e)[e.addr + b] = e.value[b]
  <2>1. /\ e.addr + b \in e.addr..(e.addr + e.size - 1)
        /\ (e.addr + b) - e.addr = b
    BY <1>2
  <2>2. e.addr + b \in Addr
    BY <1>2, AccessInMemory
  <2> QED  BY <2>1, <2>2 DEF Overlaid
<1> QED  BY <1>4, <1>5 DEF Overlaid

(* The oldest store retires: its entry is the one at the head.             *)
LEMMA RetireStoreQueue ==
  ASSUME QueueInv, RetireStore
  PROVE  QueueInv' /\ window[1].sq[1] = sq_head
<1>1. /\ window # <<>> /\ window' = Tail(window) /\ window[1].type = "store"
      /\ S(1).value_avail
      /\ mem' = IF SentToMemory(SQ[sq_head]) THEN Overlaid(mem, SQ[sq_head]) ELSE mem
      /\ SQ' = [SQ EXCEPT ![sq_head].valid = FALSE]
      /\ sq_head' = Next1(sq_head, sq_size)
      /\ sq_head_phase' = NextPhase(sq_head, sq_head_phase, sq_size)
      /\ sq_length' = sq_length - 1
      /\ UNCHANGED <<lqVars, sq_tail, sq_tail_phase, load_reservation>>
  BY DEF RetireStore, HeadCompleted, IsStore, Completed, ToSquash
<1>2. /\ window \in Seq(Inst) /\ window' \in Seq(Inst)
      /\ SQ \in [SSlot -> StoreEntry] /\ sq_head \in SSlot /\ SQ[sq_head] \in StoreEntry
      /\ SQ[sq_head] \in LoadEntry /\ QSize("store") = sq_size
  BY <1>1, ShorterWindow DEF QueueInv, TypeOK, QSize, StoreEntry
<1>3. PICK b \in BOOLEAN : b = FALSE
  OBVIOUS
<1>4. PICK f : f = [SQ[sq_head] EXCEPT !.valid = b]
  OBVIOUS
<1>5. f \in StoreEntry /\ ~f.valid
  BY <1>2, <1>3, <1>4, WithValidType
<1>6. SQ' = Put(SQ, sq_head, f)
  <2>1. SQ' = [SQ EXCEPT ![sq_head] = [SQ[sq_head] EXCEPT !.valid = FALSE]]
    BY <1>1, Zenon
  <2> QED  BY <2>1, <1>3, <1>4, Zenon DEF Put
<1>7. SQ' \in [SSlot -> StoreEntry]
  BY <1>2, <1>5, <1>6, EntryUpdate
<1>8. Valid(SQ') = Without(Valid(SQ), sq_head)
  <2>1. sq_head \in DOMAIN SQ
    BY <1>2
  <2> QED  BY <2>1, <1>5, <1>6, EntryValid
<1>9. sq_head' \in SSlot /\ sq_head_phase' \in BOOLEAN
  BY <1>1, AdvanceType, Constants DEF QueueInv, TypeOK
<1>10. /\ TailOf(window[1], "store")[1] = sq_head
       /\ Mirrors("store", Tail(window), Without(Valid(SQ), sq_head), Next1(sq_head, sq_size),
                  NextPhase(sq_head, sq_head_phase, sq_size), sq_tail, sq_tail_phase,
                  sq_length - 1)
  <2>1. Mirrors("store", window, Valid(SQ), sq_head, sq_head_phase,
                sq_tail, sq_tail_phase, sq_length)
    BY DEF QueueInv
  <2>2. window \in Seq(Inst) /\ window # <<>> /\ window[1].type = "store" /\ QSize("store") = sq_size
    BY <1>1, <1>2
  <2>3. /\ TailOf(window[1], "store")[1] = sq_head
        /\ Mirrors("store", Tail(window), Without(Valid(SQ), sq_head),
                   Next1(sq_head, QSize("store")),
                   NextPhase(sq_head, sq_head_phase, QSize("store")),
                   sq_tail, sq_tail_phase, sq_length - 1)
    BY <2>1, <2>2, MirrorsLeave
  <2> QED  BY <2>2, <2>3
<1>11. window[1].sq[1] = sq_head
  BY <1>10 DEF TailOf
<1>12. mem' \in [Addr -> Byte]
  <2>1. SQ[sq_head].value_avail
    BY <1>1, <1>11 DEF S
  <2> QED  BY <2>1, <1>1, <1>2, OverlaidType DEF QueueInv, TypeOK
<1>13. TypeOK'
  BY <1>1, <1>2, <1>7, <1>9, <1>12 DEF QueueInv, TypeOK, lqVars
<1>14. Mirrors("load", Tail(window), Valid(LQ), lq_head, lq_head_phase,
               lq_tail, lq_tail_phase, lq_length)
  BY <1>1, <1>2, MirrorsSkip DEF QueueInv
<1> QED  BY <1>1, <1>8, <1>10, <1>11, <1>13, <1>14 DEF QueueInv, lqVars

(* The oldest branch retires.                                              *)
LEMMA RetireBranchQueue ==
  ASSUME QueueInv, RetireBranch
  PROVE  QueueInv'
<1>1. /\ window # <<>> /\ window' = Tail(window) /\ window[1].type = "branch"
      /\ UNCHANGED <<lqVars, sqVars, load_reservation, mem>>
  BY DEF RetireBranch, HeadCompleted
<1>2. window \in Seq(Inst) /\ window' \in Seq(Inst)
  BY <1>1, ShorterWindow DEF QueueInv, TypeOK
<1>3. TypeOK'
  BY <1>1, <1>2 DEF QueueInv, TypeOK, lqVars, sqVars
<1>4. Mirrors("load", Tail(window), Valid(LQ), lq_head, lq_head_phase,
              lq_tail, lq_tail_phase, lq_length)
  BY <1>1, <1>2, MirrorsSkip DEF QueueInv
<1>5. Mirrors("store", Tail(window), Valid(SQ), sq_head, sq_head_phase,
              sq_tail, sq_tail_phase, sq_length)
  BY <1>1, <1>2, MirrorsSkip DEF QueueInv
<1> QED  BY <1>1, <1>3, <1>4, <1>5 DEF QueueInv, lqVars, sqVars

(* A recovery at the head empties both queues.                             *)
LEMMA RetireSquashQueue ==
  ASSUME QueueInv, RetireSquash
  PROVE  QueueInv'
<1>1. /\ lq_head' = 0 /\ lq_tail' = 0 /\ lq_length' = 0
      /\ sq_head' = 0 /\ sq_tail' = 0 /\ sq_length' = 0
      /\ lq_head_phase' = FALSE /\ lq_tail_phase' = FALSE
      /\ sq_head_phase' = FALSE /\ sq_tail_phase' = FALSE
      /\ LQ' = [i \in LSlot |-> [LQ[i] EXCEPT !.valid = FALSE]]
      /\ SQ' = [i \in SSlot |-> [SQ[i] EXCEPT !.valid = FALSE]]
      /\ window' = <<>>
      /\ UNCHANGED <<load_reservation, mem>>
  BY DEF RetireSquash
<1>2. LQ' \in [LSlot -> LoadEntry] /\ Valid(LQ') = {}
  <2>1. PICK C, E, Q : C = LSlot /\ E = LoadEntry /\ Q = LQ
    OBVIOUS
  <2>2. Q \in [C -> E] /\ E \in {LoadEntry, StoreEntry}
    BY <2>1 DEF QueueInv, TypeOK
  <2>3. Cleared(C, Q) \in [C -> E] /\ Valid(Cleared(C, Q)) = {}
    BY <2>2, ClearedType
  <2> QED  BY <1>1, <2>1, <2>3 DEF Cleared
<1>3. SQ' \in [SSlot -> StoreEntry] /\ Valid(SQ') = {}
  <2>1. PICK C, E, Q : C = SSlot /\ E = StoreEntry /\ Q = SQ
    OBVIOUS
  <2>2. Q \in [C -> E] /\ E \in {LoadEntry, StoreEntry}
    BY <2>1 DEF QueueInv, TypeOK
  <2>3. Cleared(C, Q) \in [C -> E] /\ Valid(Cleared(C, Q)) = {}
    BY <2>2, ClearedType
  <2> QED  BY <1>1, <2>1, <2>3 DEF Cleared
<1>4. TypeOK'
  <2>1. 0 \in LSlot /\ 0 \in SSlot /\ <<>> \in Seq(Inst)
    BY Constants, EmptySeq
  <2> QED  BY <1>1, <1>2, <1>3, <2>1 DEF QueueInv, TypeOK
<1>5. ASSUME NEW type
      PROVE  Mirrors(type, <<>>, {}, 0, FALSE, 0, FALSE, 0)
  <2>0. PICK M, at, size : M = Members(<<>>, type) /\ at = At(<<>>, type)
                            /\ size = QSize(type)
    OBVIOUS
  <2>1. PICK hph \in BOOLEAN : hph = FALSE
    OBVIOUS
  <2>2. M = {} /\ size \in Nat \ {0} /\ 0 \in 0..(size - 1)
    BY <2>0, Constants DEF Members
  <2>3. Queued(0, M, at, {}, 0, hph, 0, hph, size)
    BY <2>2, QueuedEmpty
  <2>4. Elders(M, 0 + 1) = 0
    BY EldersFirst, <2>2
  <2>5. Len(<<>>) = 0
    BY EmptySeq
  <2> QED  BY <2>0, <2>1, <2>2, <2>3, <2>4, <2>5 DEF Mirrors
<1> QED  BY <1>1, <1>2, <1>3, <1>4, <1>5 DEF QueueInv

(* Every step keeps the queues in step with the window.                    *)
LEMMA QueueStep ==
  ASSUME QueueInv, [Next]_vars
  PROVE  QueueInv'
<1>1. ASSUME NEW n \in Sizes, NEW amo \in BOOLEAN, NEW mdp_stall \in BOOLEAN,
             DispatchLoad(n, amo, mdp_stall)
      PROVE  QueueInv'
  BY <1>1, DispatchLoadQueue
<1>2. ASSUME NEW n \in Sizes, NEW amo \in BOOLEAN, DispatchStore(n, amo)
      PROVE  QueueInv'
  BY <1>2, DispatchStoreQueue
<1>3. CASE DispatchBranch
  BY <1>3, DispatchBranchQueue
<1>4. ASSUME NEW k \in 1..MaxWindow, NEW a \in Addr, NEW v \in Value, ExecuteStore(k, a, v)
      PROVE  QueueInv'
  BY <1>4, ExecuteStoreQueue
<1>5. ASSUME NEW k \in 1..MaxWindow, NEW a \in Addr, ExecuteUpper(k, a)
      PROVE  QueueInv'
  BY <1>5, ExecuteUpperQueue
<1>6. ASSUME NEW k \in 1..MaxWindow, NEW v \in Value, ExecuteLower(k, v)
      PROVE  QueueInv'
  BY <1>6, ExecuteLowerQueue
<1>7. ASSUME NEW k \in 1..MaxWindow, NEW a \in Addr, NEW arrived \in BOOLEAN,
             LoadAddr(k, a, arrived)
      PROVE  QueueInv'
  BY <1>7, LoadAddrQueue
<1>8. ASSUME NEW k \in 1..MaxWindow, load_unstall(k)
      PROVE  QueueInv'
  BY <1>8, LoadUnstallQueue
<1>9. ASSUME NEW k \in 1..MaxWindow, ResolveCorrect(k)
      PROVE  QueueInv'
  BY <1>9, ResolveQueue
<1>10. ASSUME NEW k \in 1..MaxWindow, Mispredict(k)
       PROVE  QueueInv'
  BY <1>10, MispredictQueue
<1>11. CASE RetireLoad
  BY <1>11, RetireLoadQueue
<1>12. CASE RetireStore
  BY <1>12, RetireStoreQueue
<1>13. CASE RetireBranch
  BY <1>13, RetireBranchQueue
<1>14. CASE RetireSquash
  BY <1>14, RetireSquashQueue
<1>15. CASE yield_load_reservation
  BY <1>15, YieldQueue
<1>16. CASE UNCHANGED vars
  <2>1. UNCHANGED <<LQ, SQ, load_reservation, mem, window>> /\ UNCHANGED Pointers
    BY <1>16 DEF vars, lqVars, sqVars, Pointers
  <2> QED  BY <2>1, SameWindow, QuietStep DEF QueueInv, TypeOK
<1> QED  BY <1>1, <1>2, <1>3, <1>4, <1>5, <1>6, <1>7, <1>8, <1>9, <1>10, <1>11, <1>12,
            <1>13, <1>14, <1>15, <1>16 DEF Next

(***************************************************************************)
(* Whatever is dispatched, executed, recovered and retired, and in         *)
(* whatever order, the LQ and the SQ are well-formed and hold the loads    *)
(* and the stores of the window in program order (lsu.cc).                 *)
(***************************************************************************)
THEOREM QueuesFollow == Spec => []QueueInv
<1>1. Init => QueueInv
  BY InitQueue
<1>2. QueueInv /\ [Next]_vars => QueueInv'
  BY QueueStep
<1> QED  BY <1>1, <1>2, PTL DEF Spec

(* The number of loads or stores before a position.                        *)
Kind(w, type, n) == {j \in 1..n : w[j].type = type}

(* Elders counts exactly those members. *)
LEMMA EldersCount ==
  ASSUME NEW w \in Seq(Inst), NEW type, NEW k \in 1..(Len(w) + 1), NEW T, T = Kind(w, type, k - 1)
  PROVE  Elders(Members(w, type), k) = Cardinality(T)
<1>1. Len(w) \in Nat
  BY LenProperties
<1>2. Before(Members(w, type), k) = T
  BY <1>1 DEF Before, Members, Kind
<1> QED  BY <1>2 DEF Elders

(* What a mirrored queue says of its slots, tail and size.                 *)
LEMMA MirrorsCounts ==
  ASSUME NEW w \in Seq(Inst), NEW type \in {"load", "store"}, NEW V, NEW size,
         size = QSize(type), NEW head, NEW hph, NEW tail, NEW tph, NEW len,
         Mirrors(type, w, V, head, hph, tail, tph, len)
  PROVE  /\ len = Cardinality(Kind(w, type, Len(w)))
         /\ len = Occupancy(head, hph, tail, tph, size)
         /\ \A k \in 1..Len(w) :
              LET at == TailOf(w[k], type) IN
              Occupancy(head, hph, at[1], at[2], size) =
                Cardinality(Kind(w, type, k - 1))
<1>1. Len(w) \in Nat
  BY LenProperties
<1>2. /\ Queued(Len(w), Members(w, type), At(w, type), V, head, hph, tail, tph, size)
      /\ len = Elders(Members(w, type), Len(w) + 1)
  BY DEF Mirrors
<1>3. Place(<<tail, tph>>, len, head, hph, size)
  BY <1>2 DEF Queued
<1>4. len = Cardinality(Kind(w, type, Len(w)))
  <2>1. Len(w) + 1 \in 1..(Len(w) + 1) /\ (Len(w) + 1) - 1 = Len(w)
    BY <1>1
  <2>2. PICK T : T = Kind(w, type, Len(w))
    OBVIOUS
  <2>3. Elders(Members(w, type), Len(w) + 1) = Cardinality(T)
    BY <2>1, <2>2, EldersCount
  <2> QED  BY <2>2, <2>3, <1>2
<1>5. ASSUME NEW k \in 1..Len(w)
      PROVE  Occupancy(head, hph, TailOf(w[k], type)[1], TailOf(w[k], type)[2], size) =
               Cardinality(Kind(w, type, k - 1))
  <2>1. k \in 1..(Len(w) + 1)
    BY <1>1
  <2>2. PICK T : T = Kind(w, type, k - 1)
    OBVIOUS
  <2>3. Elders(Members(w, type), k) = Cardinality(T)
    BY <2>1, <2>2, EldersCount
  <2>4. Place(At(w, type)[k], Elders(Members(w, type), k), head, hph, size)
    BY <1>2 DEF Queued
  <2>5. At(w, type)[k] = TailOf(w[k], type)
    BY DEF At
  <2> QED  BY <2>2, <2>3, <2>4, <2>5 DEF Place
<1> QED  BY <1>3, <1>4, <1>5 DEF Place

(* The slots in use are those of the window's loads or stores.             *)
LEMMA MirrorsValid ==
  ASSUME NEW w \in Seq(Inst), NEW type, NEW V,
         NEW head, NEW hph, NEW tail, NEW tph, NEW len,
         Mirrors(type, w, V, head, hph, tail, tph, len)
  PROVE  \A i : i \in V <=> \E k \in 1..Len(w) : w[k].type = type /\ TailOf(w[k], type)[1] = i
<1>1. Len(w) \in Nat /\ QSize(type) \in Nat \ {0}
  BY LenProperties, Constants
<1>2. Queued(Len(w), Members(w, type), At(w, type), V, head, hph, tail, tph, QSize(type))
  BY DEF Mirrors
<1>3. /\ \A k \in Members(w, type) : At(w, type)[k][1] \in V
      /\ \A s \in V : \E k \in Members(w, type) : At(w, type)[k][1] = s
  <2>1. \A k \in Members(w, type) : At(w, type)[k][1] \in V
    BY <1>1, <1>2, QueuedSlots
  <2> QED  BY <2>1, <1>2 DEF Queued
<1> QED  BY <1>3 DEF Members, At

(***************************************************************************)
(* Lengths, valid bits and phases tell the same story as the window, for   *)
(* every size of the queues (lsu.cc dispatch, restore, commit, flush).     *)
(***************************************************************************)
THEOREM LSUMirrors == Spec => []QueuesMirrorWindow
<1>1. ASSUME QueueInv
      PROVE  QueuesMirrorWindow
  <2>1. /\ window \in Seq(Inst)
        /\ Mirrors("load", window, Valid(LQ), lq_head, lq_head_phase,
                   lq_tail, lq_tail_phase, lq_length)
        /\ Mirrors("store", window, Valid(SQ), sq_head, sq_head_phase,
                   sq_tail, sq_tail_phase, sq_length)
        /\ Valid(LQ) = {i \in LSlot : LQ[i].valid}
        /\ Valid(SQ) = {i \in SSlot : SQ[i].valid}
        /\ lq_size = QSize("load") /\ sq_size = QSize("store")
    BY <1>1 DEF QueueInv, TypeOK, QSize, Valid
  <2>2. /\ lq_length = Cardinality(LoadsIn(Len(window)))
        /\ lq_length = Occupancy(lq_head, lq_head_phase, lq_tail, lq_tail_phase, lq_size)
        /\ \A k \in 1..Len(window) :
             Occupancy(lq_head, lq_head_phase, window[k].lq[1], window[k].lq[2], lq_size)
               = Cardinality(LoadsIn(k - 1))
    <3>1. PICK t \in {"load", "store"} : t = "load"
      OBVIOUS
    <3>2. /\ \A x : TailOf(x, t) = x.lq
          /\ \A n : Kind(window, t, n) = LoadsIn(n)
      BY <3>1 DEF TailOf, Kind, LoadsIn
    <3>3. Mirrors(t, window, Valid(LQ), lq_head, lq_head_phase, lq_tail, lq_tail_phase, lq_length)
      BY <2>1, <3>1
    <3> QED  BY <2>1, <3>1, <3>2, <3>3, MirrorsCounts
  <2>3. /\ sq_length = Cardinality(StoresIn(Len(window)))
        /\ sq_length = Occupancy(sq_head, sq_head_phase, sq_tail, sq_tail_phase, sq_size)
        /\ \A k \in 1..Len(window) :
             Occupancy(sq_head, sq_head_phase, window[k].sq[1], window[k].sq[2], sq_size)
               = Cardinality(StoresIn(k - 1))
    <3>1. PICK t \in {"load", "store"} : t = "store"
      OBVIOUS
    <3>2. /\ \A x : TailOf(x, t) = x.sq
          /\ \A n : Kind(window, t, n) = StoresIn(n)
      BY <3>1 DEF TailOf, Kind, StoresIn
    <3>3. Mirrors(t, window, Valid(SQ), sq_head, sq_head_phase, sq_tail, sq_tail_phase, sq_length)
      BY <2>1, <3>1
    <3> QED  BY <2>1, <3>1, <3>2, <3>3, MirrorsCounts
  <2>4. Valid(LQ) = {window[k].lq[1] : k \in LoadsIn(Len(window))}
    BY <2>1, MirrorsValid DEF LoadsIn, TailOf
  <2>5. Valid(SQ) = {window[k].sq[1] : k \in StoresIn(Len(window))}
    BY <2>1, MirrorsValid DEF StoresIn, TailOf
  <2> QED  BY <2>1, <2>2, <2>3, <2>4, <2>5 DEF QueuesMirrorWindow
<1> QED  BY <1>1, QueuesFollow, PTL

-----------------------------------------------------------------------------
(* Loads see memory in program order.                                      *)

(* An atomic operation has nothing behind it.                              *)
AmoLast ==
  \A k \in 1..Len(window) :
    /\ window[k].type = "load" /\ L(k).amo => k = Len(window)
    /\ window[k].type = "store" /\ S(k).amo => k = Len(window)

(* A load that has its value has, unless it or something older is marked,  *)
(* the value of the youngest older store that is known to conflict, or     *)
(* what memory holds.                                                      *)
Marked(k)  == \E j \in 1..k : ToSquash(j)
Hits(s, e) == s.addr_avail /\ Conflict(s.addr, s.size, e.addr, e.size)
NoHit(i, k) == \A j \in i..(k - 1) : window[j].type = "store" => ~Hits(S(j), L(k))

FromMemory(k) ==
  /\ NoHit(1, k)
  /\ \A b \in 0..(L(k).size - 1) : L(k).value[b] = mem[L(k).addr + b]
FromStore(j, k) ==
  /\ window[j].type = "store" /\ Hits(S(j), L(k)) /\ NoHit(j + 1, k)
  /\ S(j).size = L(k).size /\ S(j).value_avail /\ L(k).value = S(j).value
Exact(k) == FromMemory(k) \/ \E j \in 1..(k - 1) : FromStore(j, k)

Served(k) ==
  window[k].type = "load" /\ L(k).value_avail =>
    L(k).addr_avail /\ (Marked(k) \/ Exact(k))

ServedInv == AmoLast /\ \A k \in 1..Len(window) : Served(k)

(* Aligned accesses of one size that conflict have the same address.       *)
LEMMA SameAddress ==
  ASSUME NEW e \in LoadEntry, NEW s \in LoadEntry, s.size = e.size,
         Conflict(s.addr, s.size, e.addr, e.size)
  PROVE  s.addr = e.addr
<1>1. PICK a, b, n : a = s.addr /\ b = e.addr /\ n = e.size
  OBVIOUS
<1>2. n \in {1, 2, 4, 8} /\ a \in Nat /\ b \in Nat /\ a % n = 0 /\ b % n = 0
  <2>1. n \in Sizes /\ a \in Aligned(n) /\ b \in Aligned(n)
    BY <1>1, EntryFields
  <2>2. \A x \in Addr : x \in Nat
    BY LSUAssumption DEF Addr
  <2>3. n \in {1, 2, 4, 8}
    BY <2>1, LSUAssumption
  <2> QED  BY <2>1, <2>2, <2>3 DEF Aligned
<1>3. a \div n = b \div n
  BY <1>1 DEF Conflict
<1>4. a = b
  BY <1>2, <1>3
<1> QED  BY <1>1, <1>4

(* Aligned accesses that do not conflict have no byte in common.           *)
LEMMA Disjoint ==
  ASSUME NEW e \in LoadEntry, NEW s \in LoadEntry,
         ~Conflict(s.addr, s.size, e.addr, e.size), NEW o \in 0..(e.size - 1)
  PROVE  e.addr + o \notin s.addr..(s.addr + s.size - 1)
<1>1. PICK a, n, b, m : a = s.addr /\ n = s.size /\ b = e.addr /\ m = e.size
  OBVIOUS
<1>2. /\ n \in {1, 2, 4, 8} /\ a \in Nat /\ a % n = 0
      /\ m \in {1, 2, 4, 8} /\ b \in Nat /\ b % m = 0
  <2>1. n \in Sizes /\ a \in Aligned(n) /\ m \in Sizes /\ b \in Aligned(m)
    BY <1>1, EntryFields
  <2>2. \A x \in Addr : x \in Nat
    BY LSUAssumption DEF Addr
  <2>3. n \in {1, 2, 4, 8} /\ m \in {1, 2, 4, 8}
    BY <2>1, LSUAssumption
  <2> QED  BY <2>1, <2>2, <2>3 DEF Aligned
<1>3. LET M == IF n > m THEN n ELSE m IN a \div M # b \div M
  BY <1>1 DEF Conflict
<1>4. o \in 0..(m - 1)
  BY <1>1
<1>5. b + o \notin a..(a + n - 1)
  BY <1>2, <1>3, <1>4
<1> QED  BY <1>1, <1>5

(* What a store's verdict says.                                            *)
LEMMA VerdictMeaning ==
  ASSUME NEW e, NEW s
  PROVE  /\ Hits(s, e) => Verdict(e, s) # "pass"
         /\ Verdict(e, s) = "forward" => Hits(s, e) /\ s.size = e.size /\ s.value_avail
<1>1. CASE ~s.addr_avail
  BY <1>1 DEF Verdict, Hits
<1>2. CASE s.addr_avail /\ ~Conflict(s.addr, s.size, e.addr, e.size)
  BY <1>2 DEF Verdict, Hits
<1>3. CASE s.addr_avail /\ Conflict(s.addr, s.size, e.addr, e.size)
  BY <1>3 DEF Verdict, Hits
<1> QED  BY <1>1, <1>2, <1>3

(* The loads from position k on, in window order.                          *)
LoadMembers == Members(window, "load")
Behind(k)   == Occupancy(window[k].lq[1], window[k].lq[2], lq_tail, lq_tail_phase, lq_size)

(* The LQ entries a store scans are the loads from its position on, one at *)
(* each distance.                                                          *)
LEMMA YoungerLoads ==
  ASSUME QueueInv, NEW k \in 1..Len(window)
  PROVE  /\ Behind(k) \in 0..lq_size /\ Elders(LoadMembers, k) \in Nat
         /\ \A j \in LoadMembers : Elders(LoadMembers, j) \in Nat
         /\ \A j \in LoadMembers : j < k => Elders(LoadMembers, j) < Elders(LoadMembers, k)
         /\ \A i, j \in LoadMembers : i < j => Elders(LoadMembers, i) < Elders(LoadMembers, j)
         /\ \A j \in LoadMembers : k <= j =>
              /\ Elders(LoadMembers, j) - Elders(LoadMembers, k) \in 0..(Behind(k) - 1)
              /\ window[j].lq[1] = Ahead(Elders(LoadMembers, j) - Elders(LoadMembers, k),
                                         window[k].lq[1], lq_size)
         /\ \A d \in 0..(Behind(k) - 1) :
              \E j \in LoadMembers : Elders(LoadMembers, j) - Elders(LoadMembers, k) = d
<1> DEFINE n == Len(window)
           M == LoadMembers
           E == Elders(M, k)
           F == Elders(M, n + 1)
<1>1. /\ window \in Seq(Inst) /\ n \in Nat /\ k \in Int /\ n + 1 \in Int /\ k <= n + 1
      /\ lq_size \in Nat \ {0} /\ QSize("load") = lq_size
      /\ lq_head \in 0..(lq_size - 1) /\ lq_head_phase \in BOOLEAN
  BY WindowFields, Constants DEF QueueInv, TypeOK, QSize
<1>2. \A j \in 1..n : At(window, "load")[j] = window[j].lq
  BY DEF At, TailOf
<1>3. Queued(n, M, At(window, "load"), Valid(LQ), lq_head, lq_head_phase,
             lq_tail, lq_tail_phase, lq_size)
  BY <1>1 DEF QueueInv, Mirrors, LoadMembers
<1>4. /\ Place(window[k].lq, E, lq_head, lq_head_phase, lq_size)
      /\ Place(<<lq_tail, lq_tail_phase>>, F, lq_head, lq_head_phase, lq_size)
  BY <1>2, <1>3 DEF Queued
<1>5. E \in 0..lq_size /\ F \in 0..lq_size
  <2>1. lq_size \in Nat \ {0} /\ lq_head \in 0..(lq_size - 1) /\ lq_head_phase \in BOOLEAN
    BY <1>1
  <2>2. E \in 0..lq_size
    BY <2>1, <1>4, PlaceAhead
  <2>3. F \in 0..lq_size
    BY <2>1, <1>4, PlaceAhead
  <2> QED  BY <2>2, <2>3
<1>6. E <= F
  BY <1>1, EldersMonotone
<1>7. Behind(k) = F - E /\ Behind(k) \in 0..lq_size
  <2>1. Occupancy(window[k].lq[1], window[k].lq[2], <<lq_tail, lq_tail_phase>>[1],
                  <<lq_tail, lq_tail_phase>>[2], lq_size) = F - E
    BY <1>1, <1>4, <1>6, PlaceBetween
  <2> QED  BY <2>1, <1>1, <1>5, <1>6 DEF Behind
<1>8. \A j \in M : j \in 1..n /\ j \in Nat \ {0} /\ j < n + 1
  BY <1>1 DEF LoadMembers, Members
<1> HIDE DEF n, M, E, F
<1>9. ASSUME NEW j \in M
      PROVE  /\ Elders(M, j) \in 0..(lq_size - 1) /\ Elders(M, j) < F
             /\ window[j].lq[1] = Ahead(Elders(M, j), lq_head, lq_size)
  <2>1. /\ Elders(M, j) \in 0..(lq_size - 1)
        /\ At(window, "load")[j][1] = Ahead(Elders(M, j), lq_head, lq_size)
    BY <1>1, <1>3, QueuedSlots
  <2>2. Elders(M, j) + 1 <= F
    BY <1>1, <1>8, EldersStrict DEF F
  <2> QED  BY <2>1, <2>2, <1>1, <1>2, <1>5, <1>8
<1>10. ASSUME NEW j \in M, j < k
       PROVE  Elders(M, j) < E
  <2>1. Elders(M, j) + 1 <= E
    BY <1>1, <1>8, <1>10, EldersStrict DEF E
  <2> QED  BY <2>1, <1>5, <1>9, <1>1
<1>11. ASSUME NEW i \in M, NEW j \in M, i < j
       PROVE  Elders(M, i) < Elders(M, j)
  <2>1. Elders(M, i) + 1 <= Elders(M, j)
    BY <1>8, <1>11, EldersStrict
  <2> QED  BY <2>1, <1>9, <1>1
<1>12. ASSUME NEW j \in M, k <= j
       PROVE  /\ Elders(M, j) - E \in 0..(Behind(k) - 1)
              /\ window[j].lq[1] = Ahead(Elders(M, j) - E, window[k].lq[1], lq_size)
  <2>1. E <= Elders(M, j)
    BY <1>1, <1>8, <1>12, EldersMonotone DEF E
  <2>2. /\ Elders(M, j) - E \in Nat /\ E \in Nat /\ E < lq_size
        /\ (Elders(M, j) - E) + E < lq_size /\ E + (Elders(M, j) - E) = Elders(M, j)
    BY <2>1, <1>5, <1>9, <1>1
  <2>3. window[k].lq[1] = Ahead(E, lq_head, lq_size)
    BY <2>2, <1>1, <1>4, PlaceAhead
  <2>4. Ahead(Elders(M, j) - E, Ahead(E, lq_head, lq_size), lq_size)
          = Ahead(E + (Elders(M, j) - E), lq_head, lq_size)
    BY <2>2, <1>1, AheadAhead
  <2> QED  BY <2>2, <2>3, <2>4, <1>5, <1>7, <1>9
<1>13. ASSUME NEW d \in 0..(Behind(k) - 1)
       PROVE  \E j \in M : Elders(M, j) - E = d
  <2>1. E + d \in 0..(lq_size - 1) /\ E + d < F /\ (E + d) - E = d
    BY <1>5, <1>7, <1>1
  <2>2. PICK s \in 0..(lq_size - 1) : Distance(s, lq_head, lq_size) = E + d
    <3>1. /\ Ahead(E + d, lq_head, lq_size) \in 0..(lq_size - 1)
          /\ Distance(Ahead(E + d, lq_head, lq_size), lq_head, lq_size) = E + d
      BY <2>1, <1>1, DistanceAhead
    <3> QED  BY <3>1
  <2>3. s \in Valid(LQ)
    <3>1. s \in Valid(LQ) <=> Distance(s, lq_head, lq_size) < F
      BY <2>2, <1>3 DEF Queued, F
    <3> QED  BY <3>1, <2>1, <2>2
  <2>4. PICK j \in M : At(window, "load")[j][1] = s
    BY <2>3, <1>3 DEF Queued
  <2>5. Distance(At(window, "load")[j][1], lq_head, lq_size) = Elders(M, j)
    BY <1>1, <1>3, QueuedSlots
  <2> QED  BY <2>1, <2>2, <2>4, <2>5
<1>14. E \in Nat /\ \A j \in M : Elders(M, j) \in Nat
  BY <1>5, <1>9
<1> QED  BY <1>7, <1>10, <1>11, <1>12, <1>13, <1>14 DEF E, M

(* A store that learns its address marks a load between itself and any     *)
(* younger load that has a value and conflicts.                            *)
LEMMA ViolationFound ==
  ASSUME QueueInv, NEW k \in 1..Len(window), window[k].type # "load", NEW a,
         NEW i \in 1..Len(window), k < i, window[i].type = "load",
         L(i).addr_avail, L(i).value_avail,
         Conflict(a, S(k).size, L(i).addr, L(i).size)
  PROVE  \E j \in 1..i : window[j].type = "load" /\ window[j].lq[1] \in Violating(k, a)
<1> DEFINE M == LoadMembers
           E == Elders(M, k)
           n == Behind(k)
           from == window[k].lq[1]
           entry(d) == LQ[Ahead(d, from, lq_size)]
           hit == {d \in 0..(n - 1) :
                     /\ entry(d).addr_avail /\ entry(d).value_avail
                     /\ Conflict(a, S(k).size, entry(d).addr, entry(d).size)}
           Nearest(d) == d \in hit /\ \A c \in hit : d <= c
<1>1. Violating(k, a) = IF hit = {} THEN {}
                        ELSE {Ahead(CHOOSE d \in hit : \A c \in hit : d <= c, from, lq_size)}
  BY DEF Violating, FirstYounger, Behind
<1>2. i \in M /\ k <= i /\ \A j \in M : j \in 1..Len(window) /\ window[j].type = "load"
  BY DEF LoadMembers, Members
<1>3. n \in Int /\ E \in Nat /\ \A j \in M : Elders(M, j) \in Nat
  BY YoungerLoads, Constants
<1>4. \A j \in M : k <= j => /\ Elders(M, j) - E \in 0..(n - 1)
                             /\ window[j].lq[1] = Ahead(Elders(M, j) - E, from, lq_size)
  BY YoungerLoads
<1>5. \A j, l \in M : j < l => Elders(M, j) < Elders(M, l)
  BY YoungerLoads
<1>6. \A j \in M : j < k => Elders(M, j) < E
  BY YoungerLoads
<1>7. \A d \in 0..(n - 1) : \E j \in M : Elders(M, j) - E = d
  BY YoungerLoads
<1> HIDE DEF M, E, n, from
<1>8. Elders(M, i) - E \in hit
  BY <1>2, <1>4 DEF L
<1>9. hit \in SUBSET Nat
  BY <1>3
<1> HIDE DEF hit
<1>10. PICK d : d \in hit /\ (\A c \in hit : d <= c)
                /\ d = CHOOSE x \in hit : \A c \in hit : x <= c
  <2>1. \E x \in hit : \A c \in hit : x <= c
    BY <1>8, <1>9, LeastNumber
  <2> QED  BY <2>1
<1>11. Violating(k, a) = {Ahead(d, from, lq_size)}
  BY <1>1, <1>8, <1>10
<1>12. d <= Elders(M, i) - E /\ d \in 0..(n - 1)
  BY <1>8, <1>10 DEF hit
<1>13. PICK j \in M : Elders(M, j) - E = d
  BY <1>7, <1>12
<1>14. k <= j
  <2>1. ~ (Elders(M, j) < E) /\ j \in Int /\ k \in Int
    BY <1>2, <1>3, <1>12, <1>13
  <2> QED  BY <2>1, <1>6
<1>15. j <= i
  <2>1. ~ (Elders(M, i) < Elders(M, j)) /\ j \in Int /\ i \in Int
    BY <1>2, <1>3, <1>12, <1>13
  <2> QED  BY <2>1, <1>2, <1>5
<1>16. window[j].lq[1] \in Violating(k, a)
  BY <1>4, <1>11, <1>13, <1>14
<1> QED  BY <1>2, <1>15, <1>16

(* Each load or store owns a slot, and the tail's is free until the queue  *)
(* is full.                                                                *)
LEMMA MirrorsSlots ==
  ASSUME NEW w \in Seq(Inst), NEW type, NEW V,
         NEW head, NEW hph, NEW tail, NEW tph, NEW len,
         Mirrors(type, w, V, head, hph, tail, tph, len)
  PROVE  /\ \A j, k \in 1..Len(w) :
              /\ w[j].type = type /\ w[k].type = type
              /\ TailOf(w[j], type)[1] = TailOf(w[k], type)[1]
              => j = k
         /\ len < QSize(type) =>
              \A k \in 1..Len(w) : w[k].type = type => TailOf(w[k], type)[1] # tail
<1> DEFINE n == Len(w)
           M == Members(w, type)
           size == QSize(type)
<1>1. n \in Nat /\ size \in Nat \ {0}
  BY LenProperties, Constants
<1>2. /\ Queued(n, M, At(w, type), V, head, hph, tail, tph, size)
      /\ len = Elders(M, n + 1)
  BY DEF Mirrors
<1>3. \A k \in 1..n : w[k].type = type => k \in M /\ At(w, type)[k] = TailOf(w[k], type)
  BY DEF Members, At
<1> HIDE DEF n, M, size
<1>4. /\ \A k \in M : At(w, type)[k][1] \in V
      /\ \A j, k \in M : At(w, type)[j][1] = At(w, type)[k][1] => j = k
  BY <1>1, <1>2, QueuedSlots
<1>5. len < size => tail \notin V
  <2>1. /\ head \in 0..(size - 1) /\ hph \in BOOLEAN
        /\ Place(<<tail, tph>>, len, head, hph, size)
    BY <1>2 DEF Queued
  <2>2. len < size => Distance(<<tail, tph>>[1], head, size) = len
    BY <1>1, <2>1, PlaceAhead
  <2>3. tail \in 0..(size - 1) /\ len \in 0..size
    <3>1. len \in 0..size
      BY <1>1, <2>1, PlaceAhead
    <3> QED  BY <2>1, <3>1 DEF Place
  <2>4. tail \in V <=> Distance(tail, head, size) < len
    BY <1>2, <2>3 DEF Queued
  <2> QED  BY <1>1, <2>2, <2>3, <2>4
<1> QED  BY <1>3, <1>4, <1>5 DEF n, size

(* An entry that changes is nobody else's.                                 *)
LEMMA OtherLoad ==
  ASSUME QueueInv, NEW k \in 1..Len(window), window[k].type = "load", NEW f
  PROVE  /\ Put(LQ, window[k].lq[1], f)[window[k].lq[1]] = f
         /\ \A j \in 1..Len(window) : window[j].type = "load" /\ j # k =>
              Put(LQ, window[k].lq[1], f)[window[j].lq[1]] = L(j)
<1>1. /\ \A j \in 1..Len(window) : window[j].lq[1] \in LSlot
      /\ DOMAIN LQ = LSlot /\ window \in Seq(Inst)
  BY InFlight DEF QueueInv, TypeOK
<1>2. \A j \in 1..Len(window) : window[j].type = "load" /\ j # k =>
        window[j].lq[1] # window[k].lq[1]
  <2>1. Mirrors("load", window, Valid(LQ), lq_head, lq_head_phase,
                lq_tail, lq_tail_phase, lq_length)
    BY DEF QueueInv
  <2> QED  BY <1>1, <2>1, MirrorsSlots DEF TailOf
<1> QED  BY <1>1, <1>2 DEF Put, L

(* The same for stores.                                                    *)
LEMMA OtherStore ==
  ASSUME QueueInv, NEW k \in 1..Len(window), window[k].type = "store", NEW f
  PROVE  /\ Put(SQ, window[k].sq[1], f)[window[k].sq[1]] = f
         /\ \A j \in 1..Len(window) : window[j].type = "store" /\ j # k =>
              Put(SQ, window[k].sq[1], f)[window[j].sq[1]] = S(j)
<1>1. /\ \A j \in 1..Len(window) : window[j].sq[1] \in SSlot
      /\ DOMAIN SQ = SSlot /\ window \in Seq(Inst)
  BY InFlight DEF QueueInv, TypeOK
<1>2. \A j \in 1..Len(window) : window[j].type = "store" /\ j # k =>
        window[j].sq[1] # window[k].sq[1]
  <2>1. Mirrors("store", window, Valid(SQ), sq_head, sq_head_phase,
                sq_tail, sq_tail_phase, sq_length)
    BY DEF QueueInv
  <2> QED  BY <1>1, <2>1, MirrorsSlots DEF TailOf
<1> QED  BY <1>1, <1>2 DEF Put, S

(* The entry at the tail is nobody's.                                      *)
LEMMA NewLoad ==
  ASSUME QueueInv, lq_length < lq_size, NEW f
  PROVE  /\ Put(LQ, lq_tail, f)[lq_tail] = f
         /\ \A j \in 1..Len(window) : window[j].type = "load" =>
              Put(LQ, lq_tail, f)[window[j].lq[1]] = L(j)
<1>1. /\ \A j \in 1..Len(window) : window[j].lq[1] \in LSlot
      /\ DOMAIN LQ = LSlot /\ window \in Seq(Inst) /\ lq_tail \in LSlot
      /\ QSize("load") = lq_size
  BY InFlight DEF QueueInv, TypeOK, QSize
<1>2. \A j \in 1..Len(window) : window[j].type = "load" => window[j].lq[1] # lq_tail
  <2>1. Mirrors("load", window, Valid(LQ), lq_head, lq_head_phase,
                lq_tail, lq_tail_phase, lq_length)
    BY DEF QueueInv
  <2> QED  BY <1>1, <2>1, MirrorsSlots DEF TailOf
<1> QED  BY <1>1, <1>2 DEF Put, L

(* The same for stores.                                                    *)
LEMMA NewStore ==
  ASSUME QueueInv, sq_length < sq_size, NEW f
  PROVE  /\ Put(SQ, sq_tail, f)[sq_tail] = f
         /\ \A j \in 1..Len(window) : window[j].type = "store" =>
              Put(SQ, sq_tail, f)[window[j].sq[1]] = S(j)
<1>1. /\ \A j \in 1..Len(window) : window[j].sq[1] \in SSlot
      /\ DOMAIN SQ = SSlot /\ window \in Seq(Inst) /\ sq_tail \in SSlot
      /\ QSize("store") = sq_size
  BY InFlight DEF QueueInv, TypeOK, QSize
<1>2. \A j \in 1..Len(window) : window[j].type = "store" => window[j].sq[1] # sq_tail
  <2>1. Mirrors("store", window, Valid(SQ), sq_head, sq_head_phase,
                sq_tail, sq_tail_phase, sq_length)
    BY DEF QueueInv
  <2> QED  BY <1>1, <2>1, MirrorsSlots DEF TailOf
<1> QED  BY <1>1, <1>2 DEF Put, S

(* What a step leaves a load: its entry, and the bytes that older stores   *)
(* and memory hold for it.                                                 *)
Undisturbed(k) ==
  /\ Same(L(k)', L(k))
  /\ \A j \in 1..(k - 1) : window[j].type = "store" =>
       /\ Hits(S(j)', L(k)) <=> Hits(S(j), L(k))
       /\ S(j).size' = S(j).size
       /\ S(j).value_avail => S(j).value_avail' /\ S(j).value' = S(j).value

(* A load that is not disturbed stays served: what it has seen is still    *)
(* right, or it is still marked.                                           *)
LEMMA ServedCarry ==
  ASSUME NEW k \in Nat \ {0}, Served(k),
         \A j \in 1..k : window'[j].type = window[j].type,
         \A j \in 1..k : ToSquash(j) => ToSquash(j)',
         window[k].type = "load" => Undisturbed(k), mem' = mem
  PROVE  Served(k)'
<1> SUFFICES ASSUME window'[k].type = "load", L(k).value_avail'
             PROVE  L(k).addr_avail' /\ (Marked(k)' \/ Exact(k)')
  BY DEF Served
<1>1. k \in 1..k /\ window[k].type = "load" /\ Same(L(k)', L(k)) /\ Undisturbed(k)
  BY DEF Undisturbed
<1>2. L(k).addr_avail /\ (Marked(k) \/ Exact(k)) /\ L(k).addr_avail'
  BY <1>1 DEF Served, Same
<1>3. CASE Marked(k)
  BY <1>3, <1>2 DEF Marked
<1>4. \A s : Hits(s, L(k)') <=> Hits(s, L(k))
  BY <1>1 DEF Hits, Same
<1>5. \A i \in Nat \ {0} : NoHit(i, k) => NoHit(i, k)'
  <2> SUFFICES ASSUME NEW i \in Nat \ {0}, NoHit(i, k), NEW j \in i..(k - 1),
                      window'[j].type = "store"
               PROVE  ~Hits(S(j)', L(k)')
    BY DEF NoHit
  <2>1. j \in 1..(k - 1) /\ j \in 1..k /\ window[j].type = "store"
    OBVIOUS
  <2> QED  BY <2>1, <1>1, <1>4 DEF NoHit, Undisturbed
<1>6. CASE FromMemory(k)
  <2>1. NoHit(1, k)'
    BY <1>5, <1>6 DEF FromMemory
  <2> QED  BY <2>1, <1>1, <1>2, <1>6 DEF FromMemory, Exact, Same
<1>7. ASSUME NEW j \in 1..(k - 1), FromStore(j, k)
      PROVE  FromStore(j, k)'
  <2>1. j \in 1..k /\ j + 1 \in Nat \ {0} /\ window'[j].type = "store"
    BY <1>7 DEF FromStore
  <2>2. Hits(S(j)', L(k)') /\ NoHit(j + 1, k)'
    BY <1>1, <1>4, <1>5, <1>7, <2>1 DEF FromStore, Undisturbed
  <2> QED  BY <2>1, <2>2, <1>1, <1>7 DEF FromStore, Undisturbed, Same
<1> QED  BY <1>2, <1>3, <1>6, <1>7 DEF Exact

(* A step that moves nothing in the window.                                *)
LEMMA InPlace ==
  ASSUME QueueInv, ServedInv, Alike(window', window), mem' = mem,
         \A j \in 1..Len(window) : ToSquash(j) => ToSquash(j)',
         \A j \in 1..Len(window) : window[j].type = "load" => L(j).amo' = L(j).amo,
         \A j \in 1..Len(window) : window[j].type = "store" => S(j).amo' = S(j).amo,
         \A k \in 1..Len(window) : window[k].type = "load" => Served(k)' \/ Undisturbed(k)
  PROVE  ServedInv'
<1>1. /\ Len(window') = Len(window) /\ Len(window) \in Nat
      /\ \A k \in 1..Len(window) : window'[k].type = window[k].type
  BY WindowFields DEF Alike, QueueInv, TypeOK
<1>2. AmoLast'
  BY <1>1 DEF ServedInv, AmoLast
<1>3. ASSUME NEW k \in 1..Len(window)
      PROVE  Served(k)'
  <2>1. CASE window[k].type = "load"
    <3>1. CASE Undisturbed(k)
      <4>1. /\ k \in Nat \ {0} /\ \A j \in 1..k : j \in 1..Len(window)
            /\ Served(k)
        BY <1>1 DEF ServedInv
      <4> QED  BY <4>1, <3>1, <1>1, ServedCarry
    <3> QED  BY <2>1, <3>1
  <2>2. CASE window[k].type # "load"
    BY <2>2, <1>1 DEF Served
  <2> QED  BY <2>1, <2>2
<1> QED  BY <1>1, <1>2, <1>3 DEF ServedInv

(* Entries that do not change.                                             *)
LEMMA LoadsKept ==
  ASSUME Alike(window', window), LQ' = LQ
  PROVE  \A j \in 1..Len(window) : L(j)' = L(j)
BY DEF Alike, L

(* The same for the store queue. *)
LEMMA StoresKept ==
  ASSUME Alike(window', window), SQ' = SQ
  PROVE  \A j \in 1..Len(window) : S(j)' = S(j)
BY DEF Alike, S

(* A store learns its address: the younger loads that have a value and     *)
(* conflict are marked, or something between them and the store is.        *)
LEMMA AddressServed ==
  ASSUME QueueInv, ServedInv, NEW k \in 1..Len(window), window[k].type = "store",
         ~S(k).addr_avail, NEW a, NEW f,
         f.addr_avail, f.addr = a, f.size = S(k).size, f.amo = S(k).amo,
         S(k).value_avail => f.value_avail /\ f.value = S(k).value,
         SQ' = Put(SQ, window[k].sq[1], f), LQ' = LQ, mem' = mem,
         window' = MarkedBy(k, a)
  PROVE  ServedInv'
<1>1. /\ Alike(window', window)
      /\ \A j \in 1..Len(window) : /\ window'[j].exception <=> Excepted(k, a, j)
                                   /\ window'[j].load_viol <=> Violated(k, a, j)
  BY MarkedWindow
<1>2. \A j \in 1..Len(window) : /\ window'[j].type = window[j].type
                                /\ window'[j].sq = window[j].sq
  BY <1>1 DEF Alike
<1>3. \A j \in 1..Len(window) : L(j)' = L(j)
  BY <1>1, LoadsKept
<1>4. S(k)' = f /\ \A j \in 1..Len(window) : window[j].type = "store" /\ j # k => S(j)' = S(j)
  <2>1. /\ Put(SQ, window[k].sq[1], f)[window[k].sq[1]] = f
        /\ \A j \in 1..Len(window) : window[j].type = "store" /\ j # k =>
             Put(SQ, window[k].sq[1], f)[window[j].sq[1]] = S(j)
    BY OtherStore
  <2>2. \A j \in 1..Len(window) : S(j)' = SQ'[window[j].sq[1]]
    BY <1>2 DEF S
  <2> QED  BY <2>1, <2>2
<1>5. \A j \in 1..Len(window) : ToSquash(j) => ToSquash(j)'
  BY <1>1 DEF ToSquash, Excepted, Violated
<1>6. ASSUME NEW i \in 1..Len(window), window[i].type = "load"
      PROVE  Served(i)' \/ Undisturbed(i)
  <2>0. Len(window) \in Nat
    BY WindowFields DEF QueueInv, TypeOK
  <2>1. CASE ~L(i).value_avail
    BY <2>1, <1>3 DEF Served
  <2>2. CASE L(i).value_avail /\ k < i /\ a \in Faulting
    <3>1. ToSquash(k)' /\ k \in 1..i
      BY <1>1, <2>2 DEF ToSquash, Excepted
    <3> QED  BY <3>1, <1>3, <1>6 DEF ServedInv, Served, Marked
  <2>3. CASE L(i).value_avail /\ k < i /\ Conflict(a, S(k).size, L(i).addr, L(i).size)
    <3>0. L(i).addr_avail
      BY <2>3, <1>6 DEF ServedInv, Served
    <3>1. PICK j \in 1..i : window[j].type = "load" /\ window[j].lq[1] \in Violating(k, a)
      BY <2>3, <3>0, <1>6, ViolationFound
    <3>2. j \in 1..Len(window)
      BY <2>0
    <3>3. CASE a \in Faulting
      BY <2>2, <2>3, <3>3
    <3>4. CASE a \notin Faulting
      <4>1. ToSquash(j)'
        BY <1>1, <3>1, <3>2, <3>4 DEF ToSquash, Violated
      <4> QED  BY <4>1, <3>0, <1>3 DEF Served, Marked
    <3> QED  BY <3>3, <3>4
  <2>4. CASE ~ (k < i) \/ ~Conflict(a, S(k).size, L(i).addr, L(i).size)
    <3>1. Same(L(i)', L(i))
      BY <1>3 DEF Same
    <3>2. ASSUME NEW j \in 1..(i - 1), window[j].type = "store"
          PROVE  /\ Hits(S(j)', L(i)) <=> Hits(S(j), L(i))
                 /\ S(j).size' = S(j).size
                 /\ S(j).value_avail => S(j).value_avail' /\ S(j).value' = S(j).value
      <4>0. j \in 1..Len(window) /\ j < i
        BY <2>0
      <4>1. CASE j # k
        BY <1>4, <3>2, <4>0, <4>1
      <4>2. CASE j = k
        BY <1>4, <2>4, <4>0, <4>2 DEF Hits
      <4> QED  BY <4>1, <4>2
    <3> QED  BY <3>1, <3>2 DEF Undisturbed
  <2> QED  BY <2>1, <2>2, <2>3, <2>4
<1>7. \A j \in 1..Len(window) : window[j].type = "load" => L(j).amo' = L(j).amo
  BY <1>3
<1>8. \A j \in 1..Len(window) : window[j].type = "store" => S(j).amo' = S(j).amo
  BY <1>4
<1> QED  BY <1>1, <1>5, <1>6, <1>7, <1>8, InPlace

(* store_addr with store_value: a load that read too early is marked. *)
LEMMA ExecuteStoreServed ==
  ASSUME QueueInv, ServedInv, NEW k, NEW a, NEW v, ExecuteStore(k, a, v)
  PROVE  ServedInv'
<1>1. /\ k \in 1..Len(window) /\ window[k].type = "store"
      /\ ~S(k).addr_avail /\ ~S(k).value_avail
      /\ a \in Aligned(S(k).size) /\ v \in Bytes(S(k).size)
      /\ window' = MarkedBy(k, a) /\ LQ' = LQ /\ mem' = mem
  BY WindowFields DEF ExecuteStore, IsStore, QueueInv, TypeOK, lqVars
<1>2. PICK e : e = WithAddr(S(k), a)
  OBVIOUS
<1>3. e \in LoadEntry /\ Addressed(e, S(k), a)
  BY <1>1, <1>2, InFlight, WithAddrType
<1>4. v \in Value
  BY <1>1, InFlight, EntryFields DEF Value
<1>5. PICK f : f = WithValue(e, v)
  OBVIOUS
<1>6. Valued(f, e, v)
  BY <1>3, <1>4, <1>5, WithValueType
<1>7. SQ' = Put(SQ, window[k].sq[1], f)
  BY <1>2, <1>5 DEF ExecuteStore, Put, S
<1> QED  BY <1>1, <1>3, <1>6, <1>7, AddressServed DEF Addressed, Valued

(* store_addr of a split store: a load that read too early is marked. *)
LEMMA ExecuteUpperServed ==
  ASSUME QueueInv, ServedInv, NEW k, NEW a, ExecuteUpper(k, a)
  PROVE  ServedInv'
<1>1. /\ k \in 1..Len(window) /\ window[k].type = "store"
      /\ ~S(k).addr_avail /\ a \in Aligned(S(k).size)
      /\ window' = MarkedBy(k, a) /\ LQ' = LQ /\ mem' = mem
  BY WindowFields DEF ExecuteUpper, IsStore, QueueInv, TypeOK, lqVars
<1>2. PICK f : f = WithAddr(S(k), a)
  OBVIOUS
<1>3. Addressed(f, S(k), a)
  BY <1>1, <1>2, InFlight, WithAddrType
<1>4. SQ' = Put(SQ, window[k].sq[1], f)
  BY <1>2 DEF ExecuteUpper, Put, S
<1> QED  BY <1>1, <1>3, <1>4, AddressServed DEF Addressed

(* A store learns its value: no load has had one from it.                  *)
LEMMA ExecuteLowerServed ==
  ASSUME QueueInv, ServedInv, NEW k, NEW v, ExecuteLower(k, v)
  PROVE  ServedInv'
<1>1. /\ k \in 1..Len(window) /\ window[k].type = "store" /\ ~S(k).value_avail
      /\ v \in Bytes(S(k).size)
      /\ window' = window /\ LQ' = LQ /\ mem' = mem
  BY WindowFields DEF ExecuteLower, IsStore, QueueInv, TypeOK, lqVars
<1>2. v \in Value
  BY <1>1, InFlight, EntryFields DEF Value
<1>3. PICK f : f = WithValue(S(k), v)
  OBVIOUS
<1>4. Valued(f, S(k), v)
  BY <1>1, <1>2, <1>3, InFlight, WithValueType
<1>5. SQ' = Put(SQ, window[k].sq[1], f)
  BY <1>3 DEF ExecuteLower, Put, S
<1>6. Alike(window', window)
  BY <1>1, SameWindow
<1>7. \A j \in 1..Len(window) : L(j)' = L(j)
  BY <1>1, <1>6, LoadsKept
<1>8. S(k)' = f /\ \A j \in 1..Len(window) : window[j].type = "store" /\ j # k => S(j)' = S(j)
  <2>1. /\ Put(SQ, window[k].sq[1], f)[window[k].sq[1]] = f
        /\ \A j \in 1..Len(window) : window[j].type = "store" /\ j # k =>
             Put(SQ, window[k].sq[1], f)[window[j].sq[1]] = S(j)
    BY <1>1, OtherStore
  <2> QED  BY <2>1, <1>1, <1>5 DEF S
<1>9. ASSUME NEW i \in 1..Len(window), window[i].type = "load"
      PROVE  Undisturbed(i)
  <2>1. Same(L(i)', L(i))
    BY <1>7 DEF Same
  <2>2. ASSUME NEW j \in 1..(i - 1), window[j].type = "store"
        PROVE  /\ Hits(S(j)', L(i)) <=> Hits(S(j), L(i))
               /\ S(j).size' = S(j).size
               /\ S(j).value_avail => S(j).value_avail' /\ S(j).value' = S(j).value
    <3>1. j \in 1..Len(window)
      BY WindowFields DEF QueueInv, TypeOK
    <3>2. CASE j # k
      BY <1>8, <2>2, <3>1, <3>2
    <3>3. CASE j = k
      BY <1>1, <1>4, <1>8, <3>3 DEF Hits, Valued
    <3> QED  BY <3>2, <3>3
  <2> QED  BY <2>1, <2>2 DEF Undisturbed
<1>10. \A j \in 1..Len(window) : ToSquash(j) => ToSquash(j)'
  BY <1>1 DEF ToSquash
<1>11. \A j \in 1..Len(window) : window[j].type = "load" => L(j).amo' = L(j).amo
  BY <1>7
<1>12. \A j \in 1..Len(window) : window[j].type = "store" => S(j).amo' = S(j).amo
  BY <1>4, <1>8 DEF Valued
<1> QED  BY <1>1, <1>6, <1>9, <1>10, <1>11, <1>12, InPlace

(* The entry of one load changes, and at most marks grow.                  *)
LEMMA OneLoad ==
  ASSUME QueueInv, ServedInv, NEW k \in 1..Len(window), window[k].type = "load", NEW f,
         f.amo = L(k).amo, LQ' = Put(LQ, window[k].lq[1], f), SQ' = SQ, mem' = mem,
         Alike(window', window),
         \A j \in 1..Len(window) : ToSquash(j) => ToSquash(j)',
         Served(k)'
  PROVE  ServedInv'
<1>1. \A j \in 1..Len(window) : S(j)' = S(j)
  BY StoresKept
<1>2. L(k)' = f /\ \A j \in 1..Len(window) : window[j].type = "load" /\ j # k => L(j)' = L(j)
  <2>1. /\ Put(LQ, window[k].lq[1], f)[window[k].lq[1]] = f
        /\ \A j \in 1..Len(window) : window[j].type = "load" /\ j # k =>
             Put(LQ, window[k].lq[1], f)[window[j].lq[1]] = L(j)
    BY OtherLoad
  <2>2. \A j \in 1..Len(window) : L(j)' = LQ'[window[j].lq[1]]
    BY DEF L, Alike
  <2> QED  BY <2>1, <2>2
<1>3. ASSUME NEW i \in 1..Len(window), window[i].type = "load"
      PROVE  Served(i)' \/ Undisturbed(i)
  <2>1. ASSUME i # k PROVE Undisturbed(i)
    <3>1. Same(L(i)', L(i))
      BY <1>2, <1>3, <2>1 DEF Same
    <3>2. \A j \in 1..(i - 1) : S(j)' = S(j)
      BY <1>1, WindowFields DEF QueueInv, TypeOK
    <3> QED  BY <3>1, <3>2 DEF Undisturbed
  <2> QED  BY <2>1
<1>4. \A j \in 1..Len(window) : window[j].type = "load" => L(j).amo' = L(j).amo
  BY <1>2
<1>5. \A j \in 1..Len(window) : window[j].type = "store" => S(j).amo' = S(j).amo
  BY <1>1
<1> QED  BY <1>3, <1>4, <1>5, InPlace

(* A load that is served has the value of the youngest store known to      *)
(* conflict, or what memory holds, or has faulted.                         *)
LEMMA ExecutedLoadServed ==
  ASSUME QueueInv, ServedInv, NEW k \in 1..Len(window), window[k].type = "load",
         NEW e \in LoadEntry, e.addr_avail, e.amo = L(k).amo,
         Outcome(e, window[k].sq).kind # "stall", ExecutedLoad(k, e),
         SQ' = SQ, mem' = mem
  PROVE  ServedInv'
<1>1. PICK f : f = ServedEntry(k, e)
  OBVIOUS
<1>2. /\ LQ' = Put(LQ, window[k].lq[1], f)
      /\ window' = [window EXCEPT ![k].exception = @ \/ FaultsOn(k, e)]
  BY <1>1 DEF ExecutedLoad, Put
<1>3. /\ Alike(window', window)
      /\ window'[k].exception <=> (window[k].exception \/ FaultsOn(k, e))
      /\ window'[k].load_viol = window[k].load_viol
      /\ \A j \in 1..Len(window) : j # k => window'[j] = window[j]
  BY <1>2, FaultedWindow
<1>4. \A j \in 1..Len(window) : ToSquash(j) => ToSquash(j)'
  BY <1>3 DEF ToSquash
<1>5. L(k)' = f
  <2>1. Put(LQ, window[k].lq[1], f)[window[k].lq[1]] = f
    BY OtherLoad
  <2> QED  BY <2>1, <1>2, <1>3 DEF L, Alike
<1>6. \A j \in 1..Len(window) : S(j)' = S(j) /\ window'[j].type = window[j].type
  BY <1>3, StoresKept DEF Alike
<1>7. Len(window) \in Nat
  BY WindowFields DEF QueueInv, TypeOK
<1>8. \/ /\ Deciding(e, k) = {} /\ Outcome(e, window[k].sq).kind = "memory"
         /\ Valued(f, e, IF e.addr \in Faulting THEN e.value ELSE Read(e.addr, e.size))
      \/ \E j \in Deciding(e, k) :
           /\ \A i \in Deciding(e, k) : i <= j
           /\ Verdict(e, S(j)) = "forward"
           /\ Valued(f, e, S(j).value)
  BY <1>1, ServedType
<1>9. f.addr_avail /\ f.value_avail /\ f.amo = e.amo /\ f.addr = e.addr /\ f.size = e.size
  BY <1>8 DEF Valued
<1>10. \A s : Hits(s, f) <=> Hits(s, e)
  BY <1>9 DEF Hits
<1>11. \A j \in 1..(k - 1) : window[j].type = "store" /\ j \notin Deciding(e, k) => ~Hits(S(j), f)
  BY <1>10, VerdictMeaning DEF Deciding, StoresIn
<1>12. \A j \in 1..(k - 1) : j \in 1..Len(window)
  BY <1>7
<1>13. Served(k)'
  <2>1. CASE Deciding(e, k) = {} /\ e.addr \in Faulting
                /\ Outcome(e, window[k].sq).kind = "memory"
    <3>1. ToSquash(k)' /\ k \in 1..k
      BY <2>1, <1>3, <1>7 DEF ToSquash, FaultsOn
    <3> QED  BY <3>1, <1>5, <1>9 DEF Served, Marked
  <2>2. CASE /\ Deciding(e, k) = {} /\ e.addr \notin Faulting
             /\ Valued(f, e, IF e.addr \in Faulting THEN e.value ELSE Read(e.addr, e.size))
    <3>1. f.value = Read(e.addr, e.size)
      BY <2>2 DEF Valued
    <3>2. \A b \in 0..(f.size - 1) : f.value[b] = mem[f.addr + b]
      BY <3>1, <1>9 DEF Read
    <3>3. NoHit(1, k)'
      BY <2>2, <1>5, <1>6, <1>11, <1>12 DEF NoHit
    <3>4. FromMemory(k)'
      BY <3>2, <3>3, <1>5 DEF FromMemory
    <3> QED  BY <3>4, <1>5, <1>9 DEF Served, Exact
  <2>3. CASE \E j \in Deciding(e, k) :
                /\ \A i \in Deciding(e, k) : i <= j
                /\ Verdict(e, S(j)) = "forward"
                /\ Valued(f, e, S(j).value)
    <3>1. PICK j \in Deciding(e, k) :
                /\ \A i \in Deciding(e, k) : i <= j
                /\ Verdict(e, S(j)) = "forward"
                /\ Valued(f, e, S(j).value)
      BY <2>3
    <3>2. /\ j \in 1..(k - 1) /\ j \in 1..Len(window) /\ window[j].type = "store"
      BY <1>12 DEF Deciding, StoresIn
    <3>3. Hits(S(j), f) /\ S(j).size = f.size /\ S(j).value_avail /\ f.value = S(j).value
      BY <3>1, <1>9, <1>10, VerdictMeaning DEF Valued
    <3>4. \A i \in (j + 1)..(k - 1) : i \in 1..(k - 1) /\ i \notin Deciding(e, k)
      BY <3>1, <3>2
    <3>5. NoHit(j + 1, k)'
      BY <3>4, <1>5, <1>6, <1>11, <1>12 DEF NoHit
    <3>6. FromStore(j, k)'
      BY <3>2, <3>3, <3>5, <1>5, <1>6 DEF FromStore
    <3> QED  BY <3>2, <3>6, <1>5, <1>9 DEF Served, Exact
  <2> QED  BY <1>8, <2>1, <2>2, <2>3
<1> QED  BY <1>2, <1>3, <1>4, <1>9, <1>13, OneLoad

(* load_addr gives the load what program order asks for, or nothing. *)
LEMMA LoadAddrServed ==
  ASSUME QueueInv, ServedInv, NEW k, NEW a, NEW arrived, LoadAddr(k, a, arrived)
  PROVE  ServedInv'
<1>1. /\ k \in 1..Len(window) /\ window[k].type = "load" /\ a \in Aligned(L(k).size)
      /\ ~L(k).addr_avail /\ SQ' = SQ /\ mem' = mem
  BY WindowFields DEF LoadAddr, IsLoad, QueueInv, TypeOK, sqVars
<1>2. PICK e : e = WithAddr(L(k), a)
  OBVIOUS
<1>3. e \in LoadEntry /\ Addressed(e, L(k), a)
  BY <1>1, <1>2, InFlight, WithAddrType
<1>4. \/ Serveable(k, e) /\ ExecutedLoad(k, e)
      \/ LQ' = [LQ EXCEPT ![window[k].lq[1]] = e] /\ UNCHANGED window
  BY <1>2 DEF LoadAddr
<1>5. CASE Serveable(k, e) /\ ExecutedLoad(k, e)
  BY <1>1, <1>3, <1>5, ExecutedLoadServed DEF Serveable, Addressed
<1>6. CASE LQ' = [LQ EXCEPT ![window[k].lq[1]] = e] /\ UNCHANGED window
  <2>1. LQ' = Put(LQ, window[k].lq[1], e)
    BY <1>6 DEF Put
  <2>2. L(k)' = e
    <3>1. Put(LQ, window[k].lq[1], e)[window[k].lq[1]] = e
      BY <1>1, OtherLoad
    <3> QED  BY <3>1, <2>1, <1>6 DEF L
  <2>3. ~e.value_avail /\ e.amo = L(k).amo
    BY <1>1, <1>3 DEF Addressed, ServedInv, Served
  <2>4. Served(k)'
    BY <2>2, <2>3 DEF Served
  <2>5. /\ Alike(window', window)
        /\ \A j \in 1..Len(window) : ToSquash(j) => ToSquash(j)'
    BY <1>6, SameWindow DEF ToSquash
  <2> QED  BY <1>1, <2>1, <2>3, <2>4, <2>5, OneLoad
<1> QED  BY <1>4, <1>5, <1>6

(* A replayed load gets what program order asks for. *)
LEMMA LoadUnstallServed ==
  ASSUME QueueInv, ServedInv, NEW k, load_unstall(k)
  PROVE  ServedInv'
<1>1. /\ k \in 1..Len(window) /\ window[k].type = "load" /\ L(k).addr_avail
      /\ Serveable(k, L(k)) /\ ExecutedLoad(k, L(k)) /\ SQ' = SQ /\ mem' = mem
  BY WindowFields DEF load_unstall, Waits, IsLoad, QueueInv, TypeOK, sqVars
<1> QED  BY <1>1, InFlight, ExecutedLoadServed DEF Serveable

(* A step that changes no entry, and no byte of memory.                    *)
LEMMA IdleServed ==
  ASSUME QueueInv, ServedInv, Alike(window', window), LQ' = LQ, SQ' = SQ, mem' = mem,
         \A j \in 1..Len(window) : ToSquash(j) => ToSquash(j)'
  PROVE  ServedInv'
<1>1. \A j \in 1..Len(window) : L(j)' = L(j) /\ S(j)' = S(j)
  BY LoadsKept, StoresKept
<1>2. ASSUME NEW i \in 1..Len(window)
      PROVE  Undisturbed(i)
  <2>1. Same(L(i)', L(i))
    BY <1>1 DEF Same
  <2>2. \A j \in 1..(i - 1) : S(j)' = S(j)
    BY <1>1, WindowFields DEF QueueInv, TypeOK
  <2> QED  BY <2>1, <2>2 DEF Undisturbed
<1>3. /\ \A j \in 1..Len(window) : window[j].type = "load" => L(j).amo' = L(j).amo
      /\ \A j \in 1..Len(window) : window[j].type = "store" => S(j).amo' = S(j).amo
  BY <1>1
<1> QED  BY <1>2, <1>3, InPlace

(* A resolved branch changes nothing a load has seen. *)
LEMMA ResolveServed ==
  ASSUME QueueInv, ServedInv, NEW k, ResolveCorrect(k)
  PROVE  ServedInv'
<1>1. /\ k \in 1..Len(window) /\ window' = [window EXCEPT ![k].done = TRUE]
      /\ LQ' = LQ /\ SQ' = SQ /\ mem' = mem
  BY WindowFields DEF ResolveCorrect, OpenBranch, QueueInv, TypeOK, lqVars, sqVars
<1>2. /\ Alike(window', window)
      /\ \A j \in 1..Len(window) : /\ window'[j].exception = window[j].exception
                                   /\ window'[j].load_viol = window[j].load_viol
  BY <1>1, DoneWindow
<1>3. \A j \in 1..Len(window) : ToSquash(j) => ToSquash(j)'
  BY <1>2 DEF ToSquash
<1> QED  BY <1>1, <1>2, <1>3, IdleServed

-----------------------------------------------------------------------------
(* The window grows.                                                       *)

(* What is dispatched has no value, and is no elder of anything.           *)
LEMMA Dispatched ==
  ASSUME QueueInv, ServedInv, Fetches, NEW x \in Inst, window' = Append(window, x),
         NEW n, n = Len(window),
         mem' = mem,
         \A j \in 1..Len(window) : window[j].type = "load" => L(j)' = L(j),
         \A j \in 1..Len(window) : window[j].type = "store" => S(j)' = S(j),
         x.type = "load" => ~L(n + 1).value_avail'
  PROVE  ServedInv'
<1>1. /\ window \in Seq(Inst) /\ n \in Nat /\ DOMAIN window = 1..n
      /\ Len(window') = n + 1 /\ window'[n + 1] = x
      /\ \A j \in 1..n : window'[j] = window[j]
  <2>1. window \in Seq(Inst)
    BY DEF QueueInv, TypeOK
  <2> QED  BY <2>1, WindowFields, AppendProperties
<1>2. \A j \in 1..n : /\ window[j].type = "load" => ~L(j).amo
                      /\ window[j].type = "store" => ~S(j).amo
  BY <1>1 DEF Fetches
<1>3. AmoLast'
  <2>1. \A j \in 1..n : /\ window'[j].type = "load" => ~L(j).amo'
                        /\ window'[j].type = "store" => ~S(j).amo'
    BY <1>1, <1>2
  <2>2. \A j \in 1..(n + 1) : j \in 1..n \/ j = n + 1
    BY <1>1
  <2> QED  BY <2>1, <2>2, <1>1 DEF AmoLast
<1>4. ASSUME NEW k \in 1..n
      PROVE  Served(k)'
  <2>1. k \in Nat \ {0} /\ k \in 1..Len(window) /\ Served(k)
    BY <1>1 DEF ServedInv
  <2>2. \A j \in 1..k : j \in 1..n /\ window'[j] = window[j]
    BY <1>1
  <2>3. \A j \in 1..k : /\ window'[j].type = window[j].type
                        /\ ToSquash(j) => ToSquash(j)'
    BY <2>2 DEF ToSquash
  <2>4. window[k].type = "load" => Undisturbed(k)
    <3>1. \A j \in 1..(k - 1) : j \in 1..Len(window)
      BY <2>1, <1>1
    <3> QED  BY <3>1, <2>1 DEF Undisturbed, Same
  <2> QED  BY <2>1, <2>3, <2>4, ServedCarry
<1>5. Served(n + 1)'
  BY <1>1 DEF Served
<1>6. \A j \in 1..Len(window') : j \in 1..n \/ j = n + 1
  BY <1>1
<1> QED  BY <1>3, <1>4, <1>5, <1>6 DEF ServedInv

(* A queue that does not stall dispatch has a free entry.                  *)
LEMMA DispatchRoom ==
  ASSUME QueueInv
  PROVE  /\ ~stall(1, 0) => lq_length < lq_size
         /\ ~stall(0, 1) => sq_length < sq_size
<1>1. lq_length \in Nat /\ sq_length \in Nat
  <2>1. Len(window) + 1 \in Int
    BY WindowFields DEF QueueInv, TypeOK
  <2> QED  BY <2>1, EldersFinite DEF QueueInv, Mirrors
<1> QED  BY <1>1, Constants DEF stall

(* A new load has no value yet and is older than nothing. *)
LEMMA DispatchLoadServed ==
  ASSUME QueueInv, ServedInv, NEW n \in Sizes, NEW amo \in BOOLEAN,
         NEW mdp_stall \in BOOLEAN, DispatchLoad(n, amo, mdp_stall)
  PROVE  ServedInv'
<1>1. PICK f : f = Fresh(n, amo, mdp_stall) /\ ~f.value_avail
  BY FreshType
<1>2. PICK x : x = New("load")
  OBVIOUS
<1>3. /\ Fetches /\ ~stall(1, 0) /\ LQ' = Put(LQ, lq_tail, f) /\ SQ' = SQ /\ mem' = mem
      /\ window' = Append(window, x)
  BY <1>1, <1>2 DEF DispatchLoad, Put, sqVars
<1>4. x \in Inst /\ x.type = "load" /\ x.lq = <<lq_tail, lq_tail_phase>>
  BY <1>2, NewType DEF QueueInv
<1>5. /\ window'[Len(window) + 1] = x
      /\ \A j \in 1..Len(window) : window'[j] = window[j]
  <2>1. window \in Seq(Inst)
    BY DEF QueueInv, TypeOK
  <2> QED  BY <2>1, <1>3, <1>4, AppendProperties
<1>6. lq_length < lq_size
  BY <1>3, DispatchRoom
<1>7. /\ Put(LQ, lq_tail, f)[lq_tail] = f
      /\ \A j \in 1..Len(window) : window[j].type = "load" =>
           Put(LQ, lq_tail, f)[window[j].lq[1]] = L(j)
  BY <1>6, NewLoad
<1>8. \A j \in 1..Len(window) : window[j].type = "load" => L(j)' = L(j)
  BY <1>3, <1>5, <1>7 DEF L
<1>9. \A j \in 1..Len(window) : window[j].type = "store" => S(j)' = S(j)
  BY <1>3, <1>5 DEF S
<1>10. PICK m : m = Len(window)
  OBVIOUS
<1>11. ~L(m + 1).value_avail'
  <2>1. L(m + 1)' = f
    BY <1>3, <1>4, <1>5, <1>7, <1>10 DEF L
  <2> QED  BY <2>1, <1>1
<1> QED  BY <1>3, <1>4, <1>8, <1>9, <1>10, <1>11, Dispatched

(* A new store is younger than every load in flight. *)
LEMMA DispatchStoreServed ==
  ASSUME QueueInv, ServedInv, NEW n \in Sizes, NEW amo \in BOOLEAN, DispatchStore(n, amo)
  PROVE  ServedInv'
<1>1. PICK f, x : f = Fresh(n, amo, FALSE) /\ x = New("store")
  OBVIOUS
<1>2. /\ Fetches /\ ~stall(0, 1) /\ SQ' = Put(SQ, sq_tail, f) /\ LQ' = LQ /\ mem' = mem
      /\ window' = Append(window, x)
  BY <1>1 DEF DispatchStore, Put, lqVars
<1>3. x \in Inst /\ x.type = "store"
  BY <1>1, NewType DEF QueueInv
<1>4. \A j \in 1..Len(window) : window'[j] = window[j]
  <2>1. window \in Seq(Inst)
    BY DEF QueueInv, TypeOK
  <2> QED  BY <2>1, <1>2, <1>3, AppendProperties
<1>5. sq_length < sq_size
  BY <1>2, DispatchRoom
<1>6. \A j \in 1..Len(window) : window[j].type = "store" => S(j)' = S(j)
  <2>1. \A j \in 1..Len(window) : window[j].type = "store" =>
           Put(SQ, sq_tail, f)[window[j].sq[1]] = S(j)
    BY <1>5, NewStore
  <2> QED  BY <2>1, <1>2, <1>4 DEF S
<1>7. \A j \in 1..Len(window) : window[j].type = "load" => L(j)' = L(j)
  BY <1>2, <1>4 DEF L
<1> QED  BY <1>2, <1>3, <1>6, <1>7, Dispatched

(* A new branch is younger than every load in flight. *)
LEMMA DispatchBranchServed ==
  ASSUME QueueInv, ServedInv, DispatchBranch
  PROVE  ServedInv'
<1>1. PICK x : x = New("branch")
  OBVIOUS
<1>2. /\ Fetches /\ LQ' = LQ /\ SQ' = SQ /\ mem' = mem /\ window' = Append(window, x)
  BY <1>1 DEF DispatchBranch, lqVars, sqVars
<1>3. x \in Inst /\ x.type = "branch"
  BY <1>1, NewType DEF QueueInv
<1>4. \A j \in 1..Len(window) : window'[j] = window[j]
  <2>1. window \in Seq(Inst)
    BY DEF QueueInv, TypeOK
  <2> QED  BY <2>1, <1>2, <1>3, AppendProperties
<1>5. \A j \in 1..Len(window) : L(j)' = L(j) /\ S(j)' = S(j)
  BY <1>2, <1>4 DEF L, S
<1> QED  BY <1>2, <1>3, <1>5, Dispatched

-----------------------------------------------------------------------------
(* The window shrinks.                                                     *)

(* Recovery drops the young and leaves the old with what they have seen. *)
LEMMA MispredictServed ==
  ASSUME QueueInv, ServedInv, NEW c, Mispredict(c)
  PROVE  ServedInv'
<1>1. /\ c \in 1..Len(window) /\ window[c].type = "branch" /\ Len(window) \in Nat
  BY WindowFields DEF Mispredict, OpenBranch, QueueInv, TypeOK
<1>2. PICK lr, sr : /\ LQ' = Revalidated(LQ, lq_head, lr, lq_size)
                    /\ SQ' = Revalidated(SQ, sq_head, sr, sq_size)
                    /\ mem' = mem
                    /\ window' = SubSeq([window EXCEPT ![c].done = TRUE], 1, c)
  BY DEF Mispredict
<1>3. /\ Len(window') = c
      /\ \A j \in 1..c :
           /\ window'[j].type = window[j].type
           /\ window'[j].lq = window[j].lq /\ window'[j].sq = window[j].sq
           /\ window'[j].exception = window[j].exception
           /\ window'[j].load_viol = window[j].load_viol
  BY <1>1, <1>2, CutWindow
<1>4. \A i \in LSlot : Same(LQ'[i], LQ[i])
  <2>1. PICK E, Q, n, h : E = LoadEntry /\ Q = LQ /\ n = lq_size /\ h = lq_head
    OBVIOUS
  <2>2. Q \in [0..(n - 1) -> E] /\ n \in Nat \ {0} /\ E \in {LoadEntry, StoreEntry}
    BY <2>1, Constants DEF QueueInv, TypeOK
  <2>3. \A i \in 0..(n - 1) : Same(Revalidated(Q, h, lr, n)[i], Q[i])
    BY <2>2, RevalidatedType
  <2> QED  BY <2>1, <2>3, <1>2, Constants
<1>5. \A i \in SSlot : Same(SQ'[i], SQ[i])
  <2>1. PICK E, Q, n, h : E = StoreEntry /\ Q = SQ /\ n = sq_size /\ h = sq_head
    OBVIOUS
  <2>2. Q \in [0..(n - 1) -> E] /\ n \in Nat \ {0} /\ E \in {LoadEntry, StoreEntry}
    BY <2>1, Constants DEF QueueInv, TypeOK
  <2>3. \A i \in 0..(n - 1) : Same(Revalidated(Q, h, sr, n)[i], Q[i])
    BY <2>2, RevalidatedType
  <2> QED  BY <2>1, <2>3, <1>2, Constants
<1>6. \A j \in 1..c : /\ j \in 1..Len(window)
                      /\ Same(L(j)', L(j)) /\ Same(S(j)', S(j))
  <2> SUFFICES ASSUME NEW j \in 1..c
               PROVE  j \in 1..Len(window) /\ Same(L(j)', L(j)) /\ Same(S(j)', S(j))
    OBVIOUS
  <2>1. j \in 1..Len(window)
    BY <1>1
  <2>2. window[j].lq[1] \in LSlot /\ window[j].sq[1] \in SSlot
    BY <2>1, InFlight
  <2> QED  BY <2>1, <2>2, <1>3, <1>4, <1>5 DEF L, S
<1>7. AmoLast'
  <2> SUFFICES ASSUME NEW k \in 1..c
               PROVE  /\ window'[k].type = "load" /\ L(k).amo' => k = c
                      /\ window'[k].type = "store" /\ S(k).amo' => k = c
    BY <1>3 DEF AmoLast
  <2>1. L(k).amo' = L(k).amo /\ S(k).amo' = S(k).amo
    BY <1>6 DEF Same
  <2>2. /\ window[k].type = "load" /\ L(k).amo => k = Len(window)
        /\ window[k].type = "store" /\ S(k).amo => k = Len(window)
    BY <1>6 DEF ServedInv, AmoLast
  <2>3. k <= c /\ c <= Len(window) /\ k \in Int /\ c \in Int
    BY <1>1
  <2> QED  BY <2>1, <2>2, <2>3, <1>1, <1>3
<1>8. ASSUME NEW k \in 1..c
      PROVE  Served(k)'
  <2>1. k \in Nat \ {0} /\ Served(k) /\ \A j \in 1..k : j \in 1..c
    BY <1>1, <1>6 DEF ServedInv
  <2>2. \A j \in 1..k : /\ window'[j].type = window[j].type
                        /\ ToSquash(j) => ToSquash(j)'
    BY <2>1, <1>3 DEF ToSquash
  <2>3. Undisturbed(k)
    <3>1. \A j \in 1..(k - 1) : Same(S(j)', S(j))
      BY <2>1, <1>6
    <3>2. Same(L(k)', L(k))
      BY <1>6
    <3> QED  BY <3>1, <3>2 DEF Undisturbed, Same, Hits
  <2> QED  BY <2>1, <2>2, <2>3, <1>2, ServedCarry
<1> QED  BY <1>3, <1>7, <1>8 DEF ServedInv

(* The oldest instruction has left.                                        *)
LEMMA ServedShift ==
  ASSUME NEW k \in Nat \ {0}, Served(k + 1), ~ToSquash(1),
         \A j \in 1..k : window'[j] = window[j + 1],
         window[k + 1].type = "load" => Same(L(k)', L(k + 1)),
         \A j \in 1..(k - 1) : window[j + 1].type = "store" => Same(S(j)', S(j + 1)),
         window[k + 1].type = "load" /\ FromMemory(k + 1) =>
           \A b \in 0..(L(k + 1).size - 1) :
             mem'[L(k + 1).addr + b] = mem[L(k + 1).addr + b],
         window[k + 1].type = "load" /\ FromStore(1, k + 1) =>
           \A b \in 0..(L(k + 1).size - 1) :
             mem'[L(k + 1).addr + b] = L(k + 1).value[b]
  PROVE  Served(k)'
<1> SUFFICES ASSUME window'[k].type = "load", L(k).value_avail'
             PROVE  L(k).addr_avail' /\ (Marked(k)' \/ Exact(k)')
  BY DEF Served
<1>1. k \in 1..k /\ window[k + 1].type = "load" /\ Same(L(k)', L(k + 1))
  OBVIOUS
<1>2. L(k + 1).addr_avail /\ (Marked(k + 1) \/ Exact(k + 1)) /\ L(k).addr_avail'
  BY <1>1 DEF Served, Same
<1>3. CASE Marked(k + 1)
  <2>1. PICK j \in 1..(k + 1) : ToSquash(j)
    BY <1>3 DEF Marked
  <2>2. j # 1
    BY <2>1
  <2>3. PICK i \in 1..k : i + 1 = j
    <3>1. j - 1 \in 1..k /\ (j - 1) + 1 = j
      BY <2>2
    <3> QED  BY <3>1
  <2>4. ToSquash(i)'
    BY <2>1, <2>3 DEF ToSquash
  <2> QED  BY <2>4, <1>2 DEF Marked
<1>4. \A s, t : Same(t, s) => (Hits(t, L(k)') <=> Hits(s, L(k + 1)))
  BY <1>1 DEF Hits, Same
<1>5. \A i \in Nat \ {0} : NoHit(i + 1, k + 1) => NoHit(i, k)'
  <2> SUFFICES ASSUME NEW i \in Nat \ {0}, NoHit(i + 1, k + 1), NEW j \in i..(k - 1),
                      window'[j].type = "store"
               PROVE  ~Hits(S(j)', L(k)')
    BY DEF NoHit
  <2>1. j \in 1..(k - 1) /\ j \in 1..k /\ j + 1 \in (i + 1)..((k + 1) - 1)
    OBVIOUS
  <2>2. window[j + 1].type = "store" /\ Same(S(j)', S(j + 1))
    BY <2>1
  <2>3. ~Hits(S(j + 1), L(k + 1))
    BY <2>1, <2>2 DEF NoHit
  <2> QED  BY <2>2, <2>3, <1>4
<1>6. CASE FromMemory(k + 1)
  <2>1. NoHit(2, k + 1)
    BY <1>6 DEF FromMemory, NoHit
  <2>2. 1 \in Nat \ {0} /\ 1 + 1 = 2
    OBVIOUS
  <2>3. NoHit(1, k)'
    BY <1>5, <2>1, <2>2
  <2> QED  BY <2>3, <1>1, <1>2, <1>6 DEF FromMemory, Exact, Same
<1>7. CASE FromStore(1, k + 1)
  <2>1. 1 \in Nat \ {0} /\ NoHit(1 + 1, k + 1)
    BY <1>7 DEF FromStore
  <2>2. NoHit(1, k)'
    BY <1>5, <2>1
  <2> QED  BY <2>2, <1>1, <1>2, <1>7 DEF FromMemory, Exact, Same
<1>8. ASSUME NEW j \in 1..((k + 1) - 1), FromStore(j, k + 1), j # 1
      PROVE  \E i \in 1..(k - 1) : FromStore(i, k)'
  <2>1. PICK i \in 1..(k - 1) : i + 1 = j
    <3>1. j - 1 \in 1..(k - 1) /\ (j - 1) + 1 = j
      BY <1>8
    <3> QED  BY <3>1
  <2>2. i \in 1..k /\ i + 1 \in Nat \ {0} /\ window'[i].type = "store"
        /\ window[i + 1].type = "store"
    BY <1>8, <2>1 DEF FromStore
  <2>3. Same(S(i)', S(i + 1))
    BY <2>2
  <2>4. Hits(S(i)', L(k)')
    BY <1>4, <1>8, <2>1, <2>3 DEF FromStore
  <2>5. NoHit(i + 1, k)'
    BY <1>5, <1>8, <2>1, <2>2 DEF FromStore
  <2>6. FromStore(i, k)'
    BY <2>1, <2>2, <2>3, <2>4, <2>5, <1>1, <1>8 DEF FromStore, Same
  <2> QED  BY <2>6
<1> QED  BY <1>2, <1>3, <1>6, <1>7, <1>8 DEF Exact

(* The same for the whole window.                                          *)
LEMMA Retired ==
  ASSUME QueueInv, ServedInv, window # <<>>, window' = Tail(window), ~ToSquash(1),
         \A j \in 1..(Len(window) - 1) :
           window[j + 1].type = "load" => Same(L(j)', L(j + 1)),
         \A j \in 1..(Len(window) - 1) :
           window[j + 1].type = "store" => Same(S(j)', S(j + 1)),
         \A k \in 1..(Len(window) - 1) :
           window[k + 1].type = "load" /\ FromMemory(k + 1) =>
             \A b \in 0..(L(k + 1).size - 1) :
               mem'[L(k + 1).addr + b] = mem[L(k + 1).addr + b],
         \A k \in 1..(Len(window) - 1) :
           window[k + 1].type = "load" /\ FromStore(1, k + 1) =>
             \A b \in 0..(L(k + 1).size - 1) :
               mem'[L(k + 1).addr + b] = L(k + 1).value[b]
  PROVE  ServedInv'
<1>1. PICK n \in Nat : n = Len(window') /\ n + 1 = Len(window) /\ Len(window) - 1 = n
  <2>1. Len(window') \in Nat /\ Len(window') + 1 = Len(window)
    BY ShorterWindow
  <2>2. Len(window) - 1 = Len(window')
    BY <2>1
  <2> QED  BY <2>1, <2>2
<1>2. \A k \in 1..n : k + 1 \in 1..Len(window) /\ window'[k] = window[k + 1]
  BY <1>1, ShorterWindow
<1>3. AmoLast'
  <2> SUFFICES ASSUME NEW k \in 1..n
               PROVE  /\ window'[k].type = "load" /\ L(k).amo' => k = n
                      /\ window'[k].type = "store" /\ S(k).amo' => k = n
    BY <1>1 DEF AmoLast
  <2>1. /\ window[k + 1].type = "load" /\ L(k + 1).amo => k + 1 = n + 1
        /\ window[k + 1].type = "store" /\ S(k + 1).amo => k + 1 = n + 1
    BY <1>1, <1>2 DEF ServedInv, AmoLast
  <2>2. /\ window[k + 1].type = "load" => L(k).amo' = L(k + 1).amo
        /\ window[k + 1].type = "store" => S(k).amo' = S(k + 1).amo
    BY <1>1 DEF Same
  <2> QED  BY <2>1, <2>2, <1>2
<1>4. ASSUME NEW k \in 1..n
      PROVE  Served(k)'
  <2>1. k \in Nat \ {0} /\ Served(k + 1) /\ k \in 1..(Len(window) - 1)
    BY <1>1, <1>2 DEF ServedInv
  <2>2. \A j \in 1..k : window'[j] = window[j + 1]
    BY <1>2
  <2>3. \A j \in 1..(k - 1) : window[j + 1].type = "store" => Same(S(j)', S(j + 1))
    BY <1>1
  <2> QED  BY <2>1, <2>2, <2>3, ServedShift
<1> QED  BY <1>1, <1>3, <1>4 DEF ServedInv

(* A committed load leaves the others what they have seen. *)
LEMMA RetireLoadServed ==
  ASSUME QueueInv, ServedInv, RetireLoad
  PROVE  ServedInv'
<1>1. /\ window # <<>> /\ window' = Tail(window) /\ window[1].type = "load"
      /\ ~ToSquash(1) /\ SQ' = SQ /\ mem' = mem
      /\ LQ' = [LQ EXCEPT ![lq_head].valid = FALSE]
  BY DEF RetireLoad, HeadCompleted, IsLoad, sqVars
<1>2. /\ 1 \in 1..Len(window) /\ Len(window) \in Nat
      /\ \A k \in 1..(Len(window) - 1) :
           k + 1 \in 1..Len(window) /\ window'[k] = window[k + 1]
  BY <1>1, ShorterWindow
<1>3. window[1].lq[1] = lq_head
  BY RetireLoadQueue
<1>4. PICK f : f = [LQ[lq_head] EXCEPT !.valid = FALSE]
  OBVIOUS
<1>5. LQ' = Put(LQ, window[1].lq[1], f)
  <2>1. LQ' = [LQ EXCEPT ![lq_head] = [LQ[lq_head] EXCEPT !.valid = FALSE]]
    BY <1>1, Zenon
  <2> QED  BY <2>1, <1>3, <1>4, Zenon DEF Put
<1>6. \A j \in 1..Len(window) : window[j].type = "load" /\ j # 1 =>
        Put(LQ, window[1].lq[1], f)[window[j].lq[1]] = L(j)
  BY <1>1, <1>2, OtherLoad
<1>7. \A j \in 1..(Len(window) - 1) :
        window[j + 1].type = "load" => Same(L(j)', L(j + 1))
  <2>1. \A j \in 1..(Len(window) - 1) : j + 1 # 1
    BY <1>2
  <2> QED  BY <2>1, <1>2, <1>5, <1>6 DEF L, Same
<1>8. \A j \in 1..(Len(window) - 1) : Same(S(j)', S(j + 1))
  BY <1>1, <1>2 DEF S, Same
<1>9. \A k \in 1..(Len(window) - 1) : ~FromStore(1, k + 1)
  BY <1>1 DEF FromStore
<1> QED  BY <1>1, <1>7, <1>8, <1>9, Retired

(* A committed branch leaves the others what they have seen. *)
LEMMA RetireBranchServed ==
  ASSUME QueueInv, ServedInv, RetireBranch
  PROVE  ServedInv'
<1>1. /\ window # <<>> /\ window' = Tail(window) /\ window[1].type = "branch"
      /\ ~ToSquash(1) /\ LQ' = LQ /\ SQ' = SQ /\ mem' = mem
  BY DEF RetireBranch, HeadCompleted, lqVars, sqVars
<1>2. /\ 1 \in 1..Len(window) /\ Len(window) \in Nat
      /\ \A k \in 1..(Len(window) - 1) :
           k + 1 \in 1..Len(window) /\ window'[k] = window[k + 1]
  BY <1>1, ShorterWindow
<1>3. \A j \in 1..(Len(window) - 1) : Same(L(j)', L(j + 1)) /\ Same(S(j)', S(j + 1))
  BY <1>1, <1>2 DEF L, S, Same
<1>4. \A k \in 1..(Len(window) - 1) : ~FromStore(1, k + 1)
  BY <1>1 DEF FromStore
<1> QED  BY <1>1, <1>3, <1>4, Retired

(* The oldest store writes memory: the loads it had given its value find   *)
(* it there, and the others have nothing in common with it.                *)
LEMMA RetireStoreServed ==
  ASSUME QueueInv, ServedInv, RetireStore
  PROVE  ServedInv'
<1>1. /\ window # <<>> /\ window' = Tail(window) /\ window[1].type = "store"
      /\ ~ToSquash(1) /\ LQ' = LQ
      /\ S(1).addr_avail /\ S(1).value_avail
      /\ mem' = IF SentToMemory(SQ[sq_head]) THEN Overlaid(mem, SQ[sq_head]) ELSE mem
      /\ SQ' = [SQ EXCEPT ![sq_head].valid = FALSE]
  BY DEF RetireStore, HeadCompleted, IsStore, Completed, ToSquash, lqVars
<1>2. /\ 1 \in 1..Len(window) /\ Len(window) \in Nat
      /\ \A k \in 1..(Len(window) - 1) :
           k + 1 \in 1..Len(window) /\ window'[k] = window[k + 1]
  BY <1>1, ShorterWindow
<1>3. window[1].sq[1] = sq_head /\ SQ[sq_head] = S(1)
  BY RetireStoreQueue DEF S
<1>4. PICK f : f = [SQ[sq_head] EXCEPT !.valid = FALSE]
  OBVIOUS
<1>5. SQ' = Put(SQ, window[1].sq[1], f)
  <2>1. SQ' = [SQ EXCEPT ![sq_head] = [SQ[sq_head] EXCEPT !.valid = FALSE]]
    BY <1>1, Zenon
  <2> QED  BY <2>1, <1>3, <1>4, Zenon DEF Put
<1>6. \A j \in 1..Len(window) : window[j].type = "store" /\ j # 1 =>
        Put(SQ, window[1].sq[1], f)[window[j].sq[1]] = S(j)
  BY <1>1, <1>2, OtherStore
<1>7. \A j \in 1..(Len(window) - 1) :
        window[j + 1].type = "store" => Same(S(j)', S(j + 1))
  <2>1. \A j \in 1..(Len(window) - 1) : j + 1 # 1
    BY <1>2
  <2> QED  BY <2>1, <1>2, <1>5, <1>6 DEF S, Same
<1>8. \A j \in 1..(Len(window) - 1) : Same(L(j)', L(j + 1))
  BY <1>1, <1>2 DEF L, Same
<1>9. /\ S(1) \in StoreEntry /\ S(1) \in LoadEntry /\ mem \in [Addr -> Byte]
  BY <1>2, InFlight DEF QueueInv, TypeOK
<1>10. ASSUME NEW k \in 1..(Len(window) - 1), window[k + 1].type = "load", FromMemory(k + 1),
              NEW b \in 0..(L(k + 1).size - 1)
       PROVE  mem'[L(k + 1).addr + b] = mem[L(k + 1).addr + b]
  <2>1. L(k + 1) \in LoadEntry
    BY <1>2, InFlight
  <2>2. ~Conflict(S(1).addr, S(1).size, L(k + 1).addr, L(k + 1).size)
    <3>1. 1 \in 1..((k + 1) - 1)
      BY <1>2
    <3> QED  BY <3>1, <1>1, <1>10 DEF FromMemory, NoHit, Hits
  <2>3. L(k + 1).addr + b \notin S(1).addr..(S(1).addr + S(1).size - 1)
    BY <2>1, <2>2, <1>9, Disjoint
  <2>4. L(k + 1).addr + b \in Addr
    BY <2>1, EntryFields, AccessInMemory
  <2> QED  BY <2>3, <2>4, <1>1, <1>3, <1>9, OverlaidType
<1>11. ASSUME NEW k \in 1..(Len(window) - 1), window[k + 1].type = "load",
              FromStore(1, k + 1), NEW b \in 0..(L(k + 1).size - 1)
       PROVE  mem'[L(k + 1).addr + b] = L(k + 1).value[b]
  <2>1. L(k + 1) \in LoadEntry
    BY <1>2, InFlight
  <2>2. /\ S(1).size = L(k + 1).size /\ L(k + 1).value = S(1).value
        /\ Conflict(S(1).addr, S(1).size, L(k + 1).addr, L(k + 1).size)
    BY <1>11 DEF FromStore, Hits
  <2>3. S(1).addr = L(k + 1).addr
    BY <2>1, <2>2, <1>9, SameAddress
  <2>4. ~S(1).amo
    <3>1. 1 # Len(window)
      BY <1>2
    <3> QED  BY <3>1, <1>1, <1>2 DEF ServedInv, AmoLast
  <2>5. mem' = Overlaid(mem, S(1))
    BY <2>4, <1>1, <1>3 DEF SentToMemory
  <2> QED  BY <2>2, <2>3, <2>5, <1>1, <1>9, OverlaidType
<1>12. /\ window # <<>> /\ window' = Tail(window) /\ ~ToSquash(1)
       /\ \A j \in 1..(Len(window) - 1) :
            window[j + 1].type = "load" => Same(L(j)', L(j + 1))
  BY <1>1, <1>8
<1>13. \A k \in 1..(Len(window) - 1) :
         window[k + 1].type = "load" /\ FromMemory(k + 1) =>
           \A b \in 0..(L(k + 1).size - 1) :
             mem'[L(k + 1).addr + b] = mem[L(k + 1).addr + b]
  BY <1>10
<1>14. \A k \in 1..(Len(window) - 1) :
         window[k + 1].type = "load" /\ FromStore(1, k + 1) =>
           \A b \in 0..(L(k + 1).size - 1) :
             mem'[L(k + 1).addr + b] = L(k + 1).value[b]
  BY <1>11
<1> QED  BY <1>7, <1>12, <1>13, <1>14, Retired

(* After a squash nothing is in flight. *)
LEMMA SquashServed ==
  ASSUME RetireSquash
  PROVE  ServedInv'
<1>1. window' = <<>> /\ Len(<<>>) = 0
  BY EmptySeq DEF RetireSquash
<1> QED  BY <1>1 DEF ServedInv, AmoLast

(* Every step keeps what loads have seen in program order.                 *)
LEMMA ServedStep ==
  ASSUME QueueInv, ServedInv, [Next]_vars
  PROVE  ServedInv'
<1>1. ASSUME NEW n \in Sizes, NEW amo \in BOOLEAN, NEW mdp_stall \in BOOLEAN,
             DispatchLoad(n, amo, mdp_stall)
      PROVE  ServedInv'
  BY <1>1, DispatchLoadServed
<1>2. ASSUME NEW n \in Sizes, NEW amo \in BOOLEAN, DispatchStore(n, amo)
      PROVE  ServedInv'
  BY <1>2, DispatchStoreServed
<1>3. CASE DispatchBranch
  BY <1>3, DispatchBranchServed
<1>4. ASSUME NEW k \in 1..MaxWindow, NEW a \in Addr, NEW v \in Value, ExecuteStore(k, a, v)
      PROVE  ServedInv'
  BY <1>4, ExecuteStoreServed
<1>5. ASSUME NEW k \in 1..MaxWindow, NEW a \in Addr, ExecuteUpper(k, a)
      PROVE  ServedInv'
  BY <1>5, ExecuteUpperServed
<1>6. ASSUME NEW k \in 1..MaxWindow, NEW v \in Value, ExecuteLower(k, v)
      PROVE  ServedInv'
  BY <1>6, ExecuteLowerServed
<1>7. ASSUME NEW k \in 1..MaxWindow, NEW a \in Addr, NEW arrived \in BOOLEAN,
             LoadAddr(k, a, arrived)
      PROVE  ServedInv'
  BY <1>7, LoadAddrServed
<1>8. ASSUME NEW k \in 1..MaxWindow, load_unstall(k)
      PROVE  ServedInv'
  BY <1>8, LoadUnstallServed
<1>9. ASSUME NEW k \in 1..MaxWindow, ResolveCorrect(k)
      PROVE  ServedInv'
  BY <1>9, ResolveServed
<1>10. ASSUME NEW k \in 1..MaxWindow, Mispredict(k)
       PROVE  ServedInv'
  BY <1>10, MispredictServed
<1>11. CASE RetireLoad
  BY <1>11, RetireLoadServed
<1>12. CASE RetireStore
  BY <1>12, RetireStoreServed
<1>13. CASE RetireBranch
  BY <1>13, RetireBranchServed
<1>14. CASE RetireSquash
  BY <1>14, SquashServed
<1>15. CASE yield_load_reservation \/ UNCHANGED vars
  <2>1. LQ' = LQ /\ SQ' = SQ /\ mem' = mem /\ window' = window
    BY <1>15 DEF yield_load_reservation, vars, lqVars, sqVars
  <2>2. /\ Alike(window', window)
        /\ \A j \in 1..Len(window) : ToSquash(j) => ToSquash(j)'
    BY <2>1, SameWindow DEF ToSquash
  <2> QED  BY <2>1, <2>2, IdleServed
<1> QED  BY <1>1, <1>2, <1>3, <1>4, <1>5, <1>6, <1>7, <1>8, <1>9, <1>10, <1>11, <1>12,
            <1>13, <1>14, <1>15 DEF Next

(* What a load that has its value has seen, for every size of the queues,  *)
(* of memory and of the accesses: the youngest older store known to        *)
(* conflict, or memory - or it, or something older, is marked (lsu.cc      *)
(* disambiguate, ld_violation).                                            *)
THEOREM LoadsServed == Spec => [](QueueInv /\ ServedInv)
<1>1. Init => QueueInv /\ ServedInv
  <2>1. Len(<<>>) = 0
    BY EmptySeq
  <2>2. Init => window = <<>>
    BY DEF Init
  <2> QED  BY <2>1, <2>2, InitQueue DEF ServedInv, AmoLast
<1>2. QueueInv /\ ServedInv /\ [Next]_vars => (QueueInv /\ ServedInv)'
  BY QueueStep, ServedStep
<1> QED  BY <1>1, <1>2, PTL DEF Spec

-----------------------------------------------------------------------------
(* Memory after the stores of the window.                                  *)

History(m, n) ==
  m = [j \in 0..n |->
         IF j = 0 THEN mem
         ELSE IF window[j].type = "store" /\ SentToMemory(S(j))
                THEN Overlaid(m[j - 1], S(j)) ELSE m[j - 1]]

(* The recursive definition has a value: a first position where it had     *)
(* none would have one from the position before.                           *)
LEMMA HistoryExists ==
  ASSUME NEW n \in Nat
  PROVE  \E m : History(m, n)
<1> DEFINE T == {i \in 0..n : ~ \E m : History(m, i)}
<1>1. SUFFICES ASSUME n \in T PROVE FALSE
  OBVIOUS
<1>2. T \in SUBSET Nat /\ T # {}
  BY <1>1
<1>3. PICK x \in T : \A y \in T : x <= y
  BY <1>2, LeastNumber
<1>4. x \in Nat /\ x <= n /\ ~ \E m : History(m, x)
  OBVIOUS
<1>5. CASE x = 0
  <2>1. History([j \in 0..0 |-> mem], 0)
    BY DEF History
  <2> QED  BY <2>1, <1>4, <1>5
<1>6. CASE x # 0
  <2>1. PICK y \in Nat : y + 1 = x /\ y < x /\ y \in 0..n
    <3>1. x - 1 \in Nat /\ (x - 1) + 1 = x /\ x - 1 < x /\ x - 1 \in 0..n
      BY <1>4, <1>6
    <3> QED  BY <3>1
  <2>2. y \notin T
    BY <1>3, <2>1, <1>4
  <2>3. PICK g : History(g, y)
    BY <2>1, <2>2
  <2>4. PICK last : last = IF window[x].type = "store" /\ SentToMemory(S(x))
                             THEN Overlaid(g[y], S(x)) ELSE g[y]
    OBVIOUS
  <2>5. PICK m : m = [j \in 0..x |-> IF j = x THEN last ELSE g[j]]
    OBVIOUS
  <2>6. \A j \in 0..y : m[j] = g[j] /\ j \in 0..x
    BY <2>1, <2>5
  <2>7. m[x] = last /\ x \in 0..x /\ x - 1 = y /\ y \in 0..y
    BY <2>1, <2>5, <1>4
  <2>8. \A j \in 0..y : g[j] = IF j = 0 THEN mem
                               ELSE IF window[j].type = "store" /\ SentToMemory(S(j))
                                      THEN Overlaid(g[j - 1], S(j)) ELSE g[j - 1]
    BY <2>3 DEF History
  <2>9. \A j \in 0..x : m[j] = IF j = 0 THEN mem
                               ELSE IF window[j].type = "store" /\ SentToMemory(S(j))
                                      THEN Overlaid(m[j - 1], S(j)) ELSE m[j - 1]
    <3> SUFFICES ASSUME NEW j \in 0..x
                 PROVE  m[j] = IF j = 0 THEN mem
                               ELSE IF window[j].type = "store" /\ SentToMemory(S(j))
                                      THEN Overlaid(m[j - 1], S(j)) ELSE m[j - 1]
      OBVIOUS
    <3>1. CASE j = x
      BY <3>1, <2>4, <2>6, <2>7, <1>6
    <3>2. CASE j # x
      <4>1. j \in 0..y
        BY <3>2, <2>1
      <4>2. j # 0 => j - 1 \in 0..y
        BY <4>1, <2>1
      <4> QED  BY <4>1, <4>2, <2>6, <2>8
    <3> QED  BY <3>1, <3>2
  <2>10. m = [j \in 0..x |-> m[j]]
    BY <2>5
  <2>11. History(m, x)
    BY <2>9, <2>10 DEF History
  <2> QED  BY <2>11, <1>4
<1> QED  BY <1>5, <1>6

(* MemoryBefore is the last one.                                           *)
LEMMA MemoryBeforeIs ==
  ASSUME NEW k \in Nat \ {0}
  PROVE  \E m : History(m, k - 1) /\ MemoryBefore(k) = m[k - 1]
<1>1. \E m : History(m, k - 1)
  <2>1. k - 1 \in Nat
    OBVIOUS
  <2> QED  BY <2>1, HistoryExists
<1>2. PICK m : m = CHOOSE g : History(g, k - 1)
  OBVIOUS
<1>3. History(m, k - 1)
  BY <1>1, <1>2
<1>4. MemoryBefore(k) = m[k - 1]
  BY <1>2, Zenon DEF MemoryBefore, History
<1> QED  BY <1>3, <1>4

(* Every one is a memory, and stores that do not conflict with a load      *)
(* leave its bytes alone.                                                  *)
LEMMA HistoryKept ==
  ASSUME QueueInv, NEW k \in 1..Len(window), StoresDone(k),
         NEW m, History(m, k - 1)
  PROVE  /\ \A j \in 0..(k - 1) : m[j] \in [Addr -> Byte]
         /\ \A i \in 0..(k - 1), b \in 0..(L(k).size - 1) : NoHit(i + 1, k) =>
              m[k - 1][L(k).addr + b] = m[i][L(k).addr + b]
<1>1. k \in Nat \ {0} /\ k - 1 \in Nat /\ mem \in [Addr -> Byte]
  BY WindowFields DEF QueueInv, TypeOK
<1>2. /\ m[0] = mem
      /\ \A j \in 1..(k - 1) :
           m[j] = IF window[j].type = "store" /\ SentToMemory(S(j))
                    THEN Overlaid(m[j - 1], S(j)) ELSE m[j - 1]
  BY <1>1 DEF History
<1>3. \A j \in 1..(k - 1) : window[j].type = "store" =>
        /\ S(j) \in StoreEntry /\ S(j) \in LoadEntry
        /\ S(j).addr_avail /\ S(j).value_avail
  <2>1. \A j \in 1..(k - 1) : j \in 1..Len(window)
    BY WindowFields DEF QueueInv, TypeOK
  <2> QED  BY <2>1, InFlight DEF StoresDone, StoresIn
<1>4. ASSUME NEW j \in 1..(k - 1), m[j - 1] \in [Addr -> Byte]
      PROVE  m[j] \in [Addr -> Byte]
  <2>1. CASE window[j].type = "store" /\ SentToMemory(S(j))
    <3>1. Overlaid(m[j - 1], S(j)) \in [Addr -> Byte]
      BY <2>1, <1>3, <1>4, OverlaidType
    <3> QED  BY <3>1, <2>1, <1>2
  <2>2. CASE ~ (window[j].type = "store" /\ SentToMemory(S(j)))
    BY <2>2, <1>2, <1>4
  <2> QED  BY <2>1, <2>2
<1>5. \A j \in 0..(k - 1) : m[j] \in [Addr -> Byte]
  <2> DEFINE T == {j \in 0..(k - 1) : m[j] \notin [Addr -> Byte]}
  <2> SUFFICES ASSUME T # {} PROVE FALSE
    OBVIOUS
  <2>1. T \in SUBSET Nat
    OBVIOUS
  <2>2. PICK x \in T : \A y \in T : x <= y
    BY <2>1, LeastNumber
  <2>3. x \in 1..(k - 1) /\ x - 1 \in 0..(k - 1) /\ x - 1 < x
    BY <1>1, <1>2
  <2>4. x - 1 \notin T
    BY <2>2, <2>3
  <2>5. m[x - 1] \in [Addr -> Byte]
    BY <2>3, <2>4
  <2>6. m[x] \in [Addr -> Byte]
    BY <2>3, <2>5, <1>4
  <2> QED  BY <2>6
<1>6. ASSUME NEW i \in 0..(k - 1), NEW b \in 0..(L(k).size - 1), NoHit(i + 1, k)
      PROVE  m[k - 1][L(k).addr + b] = m[i][L(k).addr + b]
  <2> DEFINE a == L(k).addr + b
             T == {j \in i..(k - 1) : m[j][a] # m[i][a]}
  <2>0. L(k) \in LoadEntry /\ a \in Addr
    BY InFlight, EntryFields, AccessInMemory
  <2> HIDE DEF a
  <2>1. ASSUME NEW j \in (i + 1)..(k - 1)
        PROVE  m[j][a] = m[j - 1][a]
    <3>1. j \in 1..(k - 1) /\ j - 1 \in 0..(k - 1)
      OBVIOUS
    <3>2. CASE window[j].type = "store" /\ SentToMemory(S(j))
      <4>1. ~Conflict(S(j).addr, S(j).size, L(k).addr, L(k).size)
        BY <3>1, <3>2, <1>3, <1>6 DEF NoHit, Hits
      <4>2. a \notin S(j).addr..(S(j).addr + S(j).size - 1)
        BY <4>1, <3>1, <3>2, <2>0, <1>3, Disjoint DEF a
      <4>3. Overlaid(m[j - 1], S(j))[a] = m[j - 1][a]
        BY <4>2, <3>1, <3>2, <2>0, <1>3, <1>5, OverlaidType
      <4> QED  BY <4>3, <3>1, <3>2, <1>2
    <3>3. CASE ~ (window[j].type = "store" /\ SentToMemory(S(j)))
      BY <3>1, <3>3, <1>2
    <3> QED  BY <3>2, <3>3
  <2>2. ASSUME T # {} PROVE FALSE
    <3>1. T \in SUBSET Nat
      OBVIOUS
    <3>2. PICK x \in T : \A y \in T : x <= y
      BY <2>2, <3>1, LeastNumber
    <3>3. x \in (i + 1)..(k - 1) /\ x - 1 \in i..(k - 1) /\ x - 1 < x
      OBVIOUS
    <3>4. x - 1 \notin T
      BY <3>2, <3>3
    <3>5. m[x - 1][a] = m[i][a]
      BY <3>3, <3>4
    <3> QED  BY <3>3, <3>5, <2>1
  <2>3. k - 1 \in i..(k - 1)
    BY <1>1
  <2> QED  BY <2>2, <2>3 DEF a
<1> QED  BY <1>5, <1>6

(***************************************************************************)
(* For every size of the queues, of memory and of the accesses: once every *)
(* older store is done, a load that is not marked, and has nothing marked  *)
(* before it, has the bytes that those stores leave at its address.        *)
(***************************************************************************)
THEOREM LoadValuesExact == Spec => []LoadValueExact
<1>1. ASSUME QueueInv, ServedInv
      PROVE  LoadValueExact
  <2> SUFFICES ASSUME NEW k \in 1..Len(window), window[k].type = "load",
                      L(k).value_avail, StoresDone(k), \A j \in 1..k : ~ToSquash(j),
                      NEW b \in 0..(L(k).size - 1)
               PROVE  L(k).value[b] = MemoryBefore(k)[L(k).addr + b]
    BY DEF LoadValueExact, LoadsIn
  <2>1. k \in Nat \ {0} /\ Len(window) \in Nat
    BY WindowFields, <1>1 DEF QueueInv, TypeOK
  <2>2. PICK m : History(m, k - 1) /\ MemoryBefore(k) = m[k - 1]
    BY <2>1, MemoryBeforeIs
  <2>3. /\ \A j \in 0..(k - 1) : m[j] \in [Addr -> Byte]
        /\ \A i \in 0..(k - 1) : NoHit(i + 1, k) =>
             m[k - 1][L(k).addr + b] = m[i][L(k).addr + b]
    BY <1>1, <2>2, HistoryKept
  <2>4. Exact(k)
    BY <1>1 DEF ServedInv, Served, Marked
  <2>5. CASE FromMemory(k)
    <3>1. 0 \in 0..(k - 1) /\ 0 + 1 = 1
      BY <2>1
    <3>2. m[k - 1][L(k).addr + b] = m[0][L(k).addr + b]
      BY <3>1, <2>3, <2>5 DEF FromMemory
    <3>3. m[0] = mem
      BY <3>1, <2>2 DEF History
    <3> QED  BY <3>2, <3>3, <2>2, <2>5 DEF FromMemory
  <2>6. ASSUME NEW j \in 1..(k - 1), FromStore(j, k)
        PROVE  L(k).value[b] = MemoryBefore(k)[L(k).addr + b]
    <3>1. j \in 0..(k - 1) /\ j - 1 \in 0..(k - 1) /\ j # 0 /\ j \in 1..Len(window)
      BY <2>1
    <3>2. m[k - 1][L(k).addr + b] = m[j][L(k).addr + b]
      BY <3>1, <2>3, <2>6 DEF FromStore
    <3>3. /\ S(j) \in StoreEntry /\ S(j) \in LoadEntry /\ L(k) \in LoadEntry
          /\ window[j].type = "store" /\ S(j).value_avail
      BY <1>1, <2>6, <3>1, InFlight DEF FromStore
    <3>4. ~S(j).amo
      <4>1. j # Len(window)
        BY <2>1
      <4> QED  BY <4>1, <3>1, <3>3, <1>1 DEF ServedInv, AmoLast
    <3>5. m[j] = Overlaid(m[j - 1], S(j))
      BY <3>1, <3>3, <3>4, <2>2 DEF History, SentToMemory
    <3>6. S(j).size = L(k).size /\ L(k).value = S(j).value /\ S(j).addr = L(k).addr
      BY <2>6, <3>3, SameAddress DEF FromStore, Hits
    <3>7. Overlaid(m[j - 1], S(j))[S(j).addr + b] = S(j).value[b]
      BY <2>3, <3>1, <3>3, <3>6, OverlaidType
    <3> QED  BY <2>2, <3>2, <3>5, <3>6, <3>7
  <2> QED  BY <2>4, <2>5, <2>6 DEF Exact
<1> QED  BY <1>1, LoadsServed, PTL

=============================================================================
