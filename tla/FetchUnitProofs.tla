-------------------------- MODULE FetchUnitProofs --------------------------
(***************************************************************************)
(* Proofs about the fetch unit, for every size of the branch queue, of the *)
(* bundle, of the return address stack and of the history, and for every   *)
(* program: branch queue, history, training, serialization, and last the   *)
(* return address stack.  The folds of FetchUnit and History are followed  *)
(* with the theorems of Folding.                                           *)
(***************************************************************************)
EXTENDS FetchUnit, RingProofs, TLAPS

Pushes     == INSTANCE Folding WITH Op <- PushBranch
Growth     == INSTANCE Folding WITH Op <- Longer
Histories  == INSTANCE Folding WITH Op <- Enter
CallStacks == INSTANCE Folding WITH Op <- CallStack

(* What the theorems of Folding need of the natural numbers.               *)
LEMMA WellOrder ==
  /\ Growth!WellOrdered
  /\ Pushes!WellOrdered
  /\ Histories!WellOrdered
  /\ CallStacks!WellOrdered
<1>1. \A T \in SUBSET Nat : T # {} => \E x \in T : \A y \in T : x <= y
  BY LeastNumber
<1> QED  BY <1>1 DEF Growth!WellOrdered, Pushes!WellOrdered, Histories!WellOrdered, CallStacks!WellOrdered

-----------------------------------------------------------------------------
(* The types.                                                              *)
Identities == [branch : BOOLEAN, type : BranchKinds, target : PC]
Slots == [pc : PC, cb : Nat, id : Identities, taken : BOOLEAN, next_pc : PC,
          cond : BOOLEAN]
Insts == [pc : PC, next_pc : PC, branch : BOOLEAN, type : BranchKinds, target : PC,
          pred_tag : BQSlot, pred_tag_phase : BOOLEAN, done : BOOLEAN,
          taken : BOOLEAN, fetch : Int \X Int \X Int]
BQEntries == [branch_type : BranchKinds, fetch_pc : PC, fetch_cbID_in_bundle : Int,
              taken : BOOLEAN, next_pc : PC, misp : BOOLEAN]
Queues == [bq : [BQSlot -> BQEntries], head : BQSlot, tail : BQSlot,
           head_phase : BOOLEAN, tail_phase : BOOLEAN]
Predictors == [bhr : Int, fetch2_bhr : Int, context : Int,
               log : [BQSlot -> [precise_bhr : Int, fetch_bhr : Int]]]
RASEntries == [tos_pointer : RASSlot, tos_content : PC, iscall : BOOLEAN,
               isreturn : BOOLEAN]
Stacks == [ras : [RASSlot -> PC], tos : RASSlot, tail : BQSlot,
           log : [BQSlot -> RASEntries],
           fetch2_tos_pointer : RASSlot, fetch2_tos_content : PC]

TypeOK ==
  /\ pc \in PC /\ fetch_active \in BOOLEAN
  /\ fetch2 \in [valid : BOOLEAN, pc : PC, tc_hit : BOOLEAN]
  /\ FETCH2 \in [Bundle -> BOOLEAN]
  /\ window \in Seq(Insts) /\ decode \in Nat
  /\ bq \in Queues /\ CBP \in Predictors /\ RBP \in Stacks
  /\ base_bhr \in Int /\ base_stack \in Seq(PC)

-----------------------------------------------------------------------------
(* FETCH2 holds the bundle in Fetch2 and nothing that a later bundle could *)
(* be taken together with; behind Fetch2 every instruction is what it was  *)
(* fetched as.                                                             *)
Stops(w, k) == Program[w[k].pc].kind \in {"serialize", "fault"}

StageInv ==
  /\ InFetch2 + decode <= Len(window) /\ Len(window) <= MaxWindow
  /\ IF fetch2.valid THEN InFetch2 > 0 ELSE InFetch2 = 0
  /\ ~fetch2.valid /\ fetch_active => \A p \in Bundle : ~FETCH2[p]
  /\ fetch2.valid /\ Serializers = {} => \A p \in Bundle : FETCH2[p] => p < InFetch2

(* An instruction that is what it was fetched as has the direction that    *)
(* its next pc says.                                                       *)
Predicts(i) ==
  /\ i.branch /\ i.type \in Direct => i.next_pc = i.target
  /\ IsCond(i) /\ ~Misidentified(i) => (i.taken <=> i.next_pc # Inc(i.pc))

InstInv ==
  /\ \A k \in 1..Len(window) : Predicts(window[k])
  /\ \A k \in 1..Len(window) : k <= BundleStart \/ fetch2.tc_hit => ~Misidentified(window[k])
  /\ \A k \in 1..Len(window) :
       k > BundleStart /\ Program[window[k].pc].kind = "fault" => k = Len(window)

IdleInv ==
  /\ ~fetch_active => window # <<>> /\ Stops(window, Len(window))
  /\ \A k \in 1..BundleStart : Stops(window, k) => k = Len(window) /\ ~fetch_active

-----------------------------------------------------------------------------
(* The branch queue q follows the first n instructions of w.               *)
Branches(w, n) == {k \in 1..n : w[k].branch}
TagOf(w, k) == <<w[k].pred_tag, w[k].pred_tag_phase>>

Entered(e, i) ==
  /\ e.branch_type = i.type /\ e.next_pc = i.next_pc
  /\ e.taken <=> i.next_pc # Inc(i.pc)
  /\ i.type \in Direct => ~e.misp

QueueOK(q, w, n) ==
  /\ Place(<<q.tail, q.tail_phase>>, Elders(Branches(w, n), n + 1),
           q.head, q.head_phase, bq_size)
  /\ \A k \in Branches(w, n) :
       /\ Place(TagOf(w, k), Elders(Branches(w, n), k), q.head, q.head_phase, bq_size)
       /\ Entered(q.bq[w[k].pred_tag], w[k])

QueueInv == QueueOK(bq, window, BundleStart) /\ RBP.tail = bq.tail

-----------------------------------------------------------------------------
(* h[k] is the history after the first k instructions in flight.  The log  *)
(* of the predictor g has it for each of the first n, and what a           *)
(* conditional branch was predicted with.                                  *)
Follows(h, base, w) ==
  /\ h[0] = base
  /\ \A k \in 1..Len(w) :
       h[k] = IF IsCond(w[k]) THEN update_bhr(h[k - 1], w[k].taken) ELSE h[k - 1]

LoggedOK(q, g, w, n, h) ==
  \A k \in Branches(w, n) :
    LET tag == w[k].pred_tag
    IN  /\ g.log[tag].precise_bhr = h[k - 1]
        /\ IsCond(w[k]) => w[k].fetch = <<q.bq[tag].fetch_pc, g.log[tag].fetch_bhr,
                                          q.bq[tag].fetch_cbID_in_bundle>>

(* The conditional branches of the bundle that follows position b are      *)
(* numbered in program order.                                              *)
Conds(w, b) == {j \in 1..(Len(w) - b) : IsCond(w[b + j])}

FetchedOK(w, b, start, bhr) ==
  \A j \in Conds(w, b) : w[b + j].fetch = <<start, bhr, Elders(Conds(w, b), j)>>

HistoryOK(h) ==
  /\ Follows(h, base_bhr, window)
  /\ LoggedOK(bq, CBP, window, BundleStart, h)
  /\ fetch2.valid => CBP.fetch2_bhr = h[BundleStart]
  /\ fetch_active => CBP.bhr = h[Len(window)]
  /\ FetchedOK(window, BundleStart, fetch2.pc, CBP.fetch2_bhr)

HistoryInv == \E h : HistoryOK(h)

Inv == TypeOK /\ StageInv /\ InstInv /\ IdleInv /\ QueueInv /\ HistoryInv

-----------------------------------------------------------------------------
(* The leading valid bits of FETCH2.                                       *)
Valid(F) == Cardinality({p \in Bundle : \A q \in 0..p : F[q]})

LEMMA ValidIs ==
  ASSUME NEW F, NEW m \in 0..instr_per_cycle, \A q \in 0..(m - 1) : F[q],
         m < instr_per_cycle => ~F[m]
  PROVE  Valid(F) = m
<1>1. instr_per_cycle \in Nat \ {0}
  BY FetchUnitAssumption
<1>2. {p \in Bundle : \A q \in 0..p : F[q]} = 0..(m - 1)
  <2>1. ASSUME NEW p \in Bundle, \A q \in 0..p : F[q]
        PROVE  p \in 0..(m - 1)
    <3>1. p \in Nat /\ p < instr_per_cycle
      BY <1>1 DEF Bundle
    <3>2. m \notin 0..p
      BY <2>1, <3>1, <1>1
    <3> QED  BY <3>1, <3>2, <1>1
  <2>2. ASSUME NEW p \in 0..(m - 1)
        PROVE  p \in Bundle /\ \A q \in 0..p : F[q]
    <3>1. p \in Bundle
      BY <1>1 DEF Bundle
    <3>2. \A q \in 0..p : q \in 0..(m - 1)
      BY <1>1
    <3> QED  BY <3>1, <3>2
  <2> QED  BY <2>1, <2>2
<1>3. Cardinality(0..(m - 1)) = m
  BY <1>1, FS_Interval
<1> QED  BY <1>2, <1>3 DEF Valid

LEMMA ValidHas ==
  ASSUME NEW F
  PROVE  \E m \in 0..instr_per_cycle :
           /\ Valid(F) = m /\ \A q \in 0..(m - 1) : F[q]
           /\ m < instr_per_cycle => ~F[m]
<1>1. instr_per_cycle \in Nat \ {0}
  BY FetchUnitAssumption
<1> DEFINE T == {m \in 0..instr_per_cycle : m = instr_per_cycle \/ ~F[m]}
<1>2. T \in SUBSET Nat /\ instr_per_cycle \in T
  BY <1>1
<1>3. PICK m \in T : \A y \in T : m <= y
  BY <1>2, LeastNumber
<1>4. m \in 0..instr_per_cycle /\ (m < instr_per_cycle => ~F[m])
  BY <1>1
<1>5. ASSUME NEW q \in 0..(m - 1)
      PROVE  F[q]
  <2>1. q \in 0..instr_per_cycle /\ q < m
    BY <1>1
  <2> QED  BY <2>1, <1>3, <1>1
<1>6. Valid(F) = m
  BY <1>4, <1>5, ValidIs
<1> QED  BY <1>4, <1>5, <1>6

LEMMA NoneValid ==
  ASSUME NEW F, ~F[0]
  PROVE  Valid(F) = 0
<1>1. 0 \in 0..instr_per_cycle /\ 0..(0 - 1) = {}
  BY FetchUnitAssumption
<1> QED  BY <1>1, ValidIs

LEMMA InFetch2Valid == InFetch2 = Valid(FETCH2) /\ InFetch2' = Valid(FETCH2')
BY DEF InFetch2, Valid

-----------------------------------------------------------------------------
(* The types of what the operators compute.                                *)
LEMMA IncType ==
  ASSUME NEW p \in PC
  PROVE  Inc(p) \in PC
<1>1. Cardinality(PC) \in Nat
  BY FetchUnitAssumption, FS_CardinalityType
<1>2. PICK n \in Nat : n = Cardinality(PC) /\ PC = 0..(n - 1)
  BY <1>1, FetchUnitAssumption
<1>3. p \in 0..(n - 1)
  BY <1>2
<1>4. (p + 1) % n \in 0..(n - 1)
  BY <1>3
<1> QED  BY <1>2, <1>4 DEF Inc

LEMMA ZeroPC == 0 \in PC
<1>1. Cardinality(PC) \in Nat
  BY FetchUnitAssumption, FS_CardinalityType
<1>2. PICK n \in Nat : PC = 0..(n - 1)
  BY <1>1, FetchUnitAssumption
<1>3. Handler \in 0..(n - 1)
  BY <1>2, FetchUnitAssumption
<1>4. 0 \in 0..(n - 1)
  BY <1>3
<1> QED  BY <1>2, <1>4

LEMMA UpdateType ==
  ASSUME NEW bhr \in Int, NEW taken \in BOOLEAN
  PROVE  update_bhr(bhr, taken) \in Int
<1>1. 2 ^ bhr_length \in Int
  BY HistoryAssumption
<1>2. PICK z \in Int : z = 2 ^ bhr_length
  BY <1>1
<1>3. bhr \div 2 \in Int /\ z \div 2 \in Int
  OBVIOUS
<1> QED  BY <1>2, <1>3 DEF update_bhr

(* What the methods of the branch queue do.                                *)
LEMMA SlotTypes ==
  /\ bq_size \in Nat \ {0} /\ BQSlot = 0..(bq_size - 1) /\ 0 \in BQSlot
  /\ \A i \in BQSlot : Next1(i, bq_size) \in BQSlot
  /\ \A i \in BQSlot, ph \in BOOLEAN : NextPhase(i, ph, bq_size) \in BOOLEAN
<1>1. bq_size \in Nat \ {0} /\ BQSlot = 0..(bq_size - 1)
  BY BranchQueueAssumption DEF BQSlot
<1>2. 0 \in BQSlot
  BY <1>1
<1> QED  BY <1>1, <1>2, AdvanceType

LEMMA PushEffect ==
  ASSUME NEW q \in Queues, NEW e \in BQEntries
  PROVE  /\ push(q, e) \in Queues
         /\ push(q, e).bq = [q.bq EXCEPT ![q.tail] = e]
         /\ push(q, e).head = q.head /\ push(q, e).head_phase = q.head_phase
         /\ push(q, e).tail = Next1(q.tail, bq_size)
         /\ push(q, e).tail_phase = NextPhase(q.tail, q.tail_phase, bq_size)
<1>1. q.tail \in BQSlot /\ q.tail_phase \in BOOLEAN
  BY DEF Queues
<1>2. PICK tl \in BQSlot, tp \in BOOLEAN :
        tl = Next1(q.tail, bq_size) /\ tp = NextPhase(q.tail, q.tail_phase, bq_size)
  BY <1>1, SlotTypes
<1>3. PICK r : r = [q EXCEPT !.bq[q.tail] = e, !.tail = tl, !.tail_phase = tp]
  OBVIOUS
<1>4. push(q, e) = r
  BY <1>2, <1>3 DEF push
<1>5. r.bq = [q.bq EXCEPT ![q.tail] = e]
  BY <1>3 DEF Queues
<1>6. r.head = q.head /\ r.head_phase = q.head_phase /\ r.tail = tl
  BY <1>3 DEF Queues
<1>7. r.tail_phase = tp
  BY <1>3 DEF Queues
<1>8. r \in Queues
  BY <1>1, <1>3 DEF Queues
<1> QED  BY <1>2, <1>4, <1>5, <1>6, <1>7, <1>8

LEMMA PopEffect ==
  ASSUME NEW q \in Queues
  PROVE  /\ pop(q) \in Queues
         /\ pop(q).bq = q.bq
         /\ pop(q).head = Next1(q.head, bq_size)
         /\ pop(q).head_phase = NextPhase(q.head, q.head_phase, bq_size)
         /\ pop(q).tail = q.tail /\ pop(q).tail_phase = q.tail_phase
<1>1. q.head \in BQSlot /\ q.head_phase \in BOOLEAN
  BY DEF Queues
<1>2. PICK hd \in BQSlot, hp \in BOOLEAN :
        hd = Next1(q.head, bq_size) /\ hp = NextPhase(q.head, q.head_phase, bq_size)
  BY <1>1, SlotTypes
<1>3. PICK r : r = [q EXCEPT !.head = hd, !.head_phase = hp]
  OBVIOUS
<1>4. pop(q) = r
  BY <1>2, <1>3 DEF pop
<1>5. r.bq = q.bq /\ r.head = hd /\ r.tail = q.tail /\ r.tail_phase = q.tail_phase
  BY <1>3 DEF Queues
<1>6. r.head_phase = hp
  BY <1>3 DEF Queues
<1>7. r \in Queues
  BY <1>3 DEF Queues
<1> QED  BY <1>2, <1>4, <1>5, <1>6, <1>7

LEMMA RollbackEffect ==
  ASSUME NEW q \in Queues, NEW tag \in BQSlot, NEW phase \in BOOLEAN
  PROVE  /\ rollback(q, tag, phase) \in Queues
         /\ rollback(q, tag, phase).bq = q.bq
         /\ rollback(q, tag, phase).head = q.head
         /\ rollback(q, tag, phase).head_phase = q.head_phase
         /\ rollback(q, tag, phase).tail = tag
         /\ rollback(q, tag, phase).tail_phase = phase
<1>1. PICK r : r = [q EXCEPT !.tail = tag, !.tail_phase = phase]
  OBVIOUS
<1>2. r.bq = q.bq /\ r.head = q.head /\ r.head_phase = q.head_phase /\ r.tail = tag
  BY <1>1 DEF Queues
<1>3. r.tail_phase = phase
  BY <1>1 DEF Queues
<1>4. r \in Queues
  BY <1>1 DEF Queues
<1> QED  BY <1>1, <1>2, <1>3, <1>4 DEF rollback

LEMMA FlushEffect ==
  ASSUME NEW q \in Queues
  PROVE  /\ BQFlush(q) \in Queues
         /\ BQFlush(q).bq = q.bq
         /\ BQFlush(q).head = q.head /\ BQFlush(q).head_phase = q.head_phase
         /\ BQFlush(q).tail = q.head /\ BQFlush(q).tail_phase = q.head_phase
<1>1. q.head \in BQSlot /\ q.head_phase \in BOOLEAN
  BY DEF Queues
<1>2. BQFlush(q) = rollback(q, q.head, q.head_phase)
  BY DEF BQFlush, rollback
<1> QED  BY <1>1, <1>2, RollbackEffect

(* What the methods of the predictor do.                                   *)
LEMMA SpecEffect ==
  ASSUME NEW g \in Predictors, NEW dirs, After(g.bhr, dirs) \in Int
  PROVE  /\ GshareSpec(GshareSave(g), dirs) \in Predictors
         /\ GshareSpec(GshareSave(g), dirs).bhr = After(g.bhr, dirs)
         /\ GshareSpec(GshareSave(g), dirs).fetch2_bhr = g.bhr
         /\ GshareSpec(GshareSave(g), dirs).log = g.log
<1>1. PICK x \in Int : x = After(g.bhr, dirs)
  OBVIOUS
<1>2. GshareSave(g) = [bhr |-> g.bhr, fetch2_bhr |-> g.bhr, context |-> g.context,
                       log |-> g.log]
  BY DEF GshareSave, Predictors
<1>3. GshareSpec(GshareSave(g), dirs)
        = [bhr |-> x, fetch2_bhr |-> g.bhr, context |-> g.context, log |-> g.log]
  BY <1>1, <1>2 DEF GshareSpec
<1> QED  BY <1>1, <1>3 DEF Predictors

LEMMA RestoreEffect ==
  ASSUME NEW g \in Predictors
  PROVE  /\ GshareRestore(g) \in Predictors
         /\ GshareRestore(g).bhr = g.fetch2_bhr
         /\ GshareRestore(g).log = g.log
BY DEF GshareRestore, Predictors

LEMMA BeginEffect ==
  ASSUME NEW g \in Predictors
  PROVE  /\ GshareLogBegin(g) \in Predictors
         /\ GshareLogBegin(g).bhr = g.bhr /\ GshareLogBegin(g).context = g.fetch2_bhr
         /\ GshareLogBegin(g).fetch2_bhr = g.fetch2_bhr
         /\ GshareLogBegin(g).log = g.log
BY DEF GshareLogBegin, Predictors

Logged(f, g, id, iscond, taken) ==
  /\ f \in Predictors /\ f.bhr = g.bhr /\ f.fetch2_bhr = g.fetch2_bhr
  /\ f.log = [g.log EXCEPT ![id] = [precise_bhr |-> g.context,
                                    fetch_bhr |-> g.fetch2_bhr]]
  /\ iscond => f.context = update_bhr(g.context, taken)
  /\ ~iscond => f.context = g.context

LEMMA LogEffect ==
  ASSUME NEW g \in Predictors, NEW id \in BQSlot, NEW iscond \in BOOLEAN,
         NEW taken \in BOOLEAN
  PROVE  Logged(GshareLog(g, id, iscond, taken), g, id, iscond, taken)
<1>1. g.context \in Int /\ update_bhr(g.context, taken) \in Int
  BY UpdateType DEF Predictors
<1>2. PICK c \in Int : c = IF iscond THEN update_bhr(g.context, taken) ELSE g.context
  BY <1>1
<1>3. PICK e \in [precise_bhr : Int, fetch_bhr : Int] :
        e = [precise_bhr |-> g.context, fetch_bhr |-> g.fetch2_bhr]
  BY <1>1 DEF Predictors
<1>4. PICK r : r = [g EXCEPT !.log[id] = e, !.context = c]
  OBVIOUS
<1>5. GshareLog(g, id, iscond, taken) = r
  BY <1>2, <1>3, <1>4 DEF GshareLog, Predictors
<1>6. r.bhr = g.bhr /\ r.fetch2_bhr = g.fetch2_bhr /\ r.context = c
  BY <1>4 DEF Predictors
<1>7. r.log = [g.log EXCEPT ![id] = e]
  BY <1>4 DEF Predictors
<1>8. r \in Predictors
  BY <1>4 DEF Predictors
<1> QED  BY <1>2, <1>3, <1>5, <1>6, <1>7, <1>8 DEF Logged

LEMMA GshareFlushEffect ==
  ASSUME NEW g \in Predictors, NEW id \in BQSlot
  PROVE  /\ GshareFlush(g, id) \in Predictors
         /\ GshareFlush(g, id).bhr = g.log[id].precise_bhr
         /\ GshareFlush(g, id).log = g.log
BY DEF GshareFlush, Predictors

Repaired(f, g, id, iscond, taken) ==
  /\ f \in Predictors /\ f.log = g.log
  /\ iscond => f.bhr = update_bhr(g.log[id].precise_bhr, taken)
  /\ ~iscond => f.bhr = g.log[id].precise_bhr

LEMMA GshareMispredictEffect ==
  ASSUME NEW g \in Predictors, NEW id \in BQSlot, NEW iscond \in BOOLEAN,
         NEW taken \in BOOLEAN
  PROVE  Repaired(GshareMispredict(g, id, iscond, taken), g, id, iscond, taken)
<1>1. g.log[id].precise_bhr \in Int
  BY DEF Predictors
<1>2. update_bhr(g.log[id].precise_bhr, taken) \in Int
  BY <1>1, UpdateType
<1>3. PICK x \in Int : x = IF iscond THEN update_bhr(g.log[id].precise_bhr, taken)
                           ELSE g.log[id].precise_bhr
  BY <1>1, <1>2
<1>4. PICK f : f = GshareMispredict(g, id, iscond, taken) /\ f = [g EXCEPT !.bhr = x]
  BY <1>3 DEF GshareMispredict
<1>5. f \in Predictors /\ f.log = g.log /\ f.bhr = x
  BY <1>4 DEF Predictors
<1> QED  BY <1>3, <1>4, <1>5 DEF Repaired

(* What the methods of the return address stack do to the tail of its log. *)
LEMMA StackTypes ==
  /\ ras_size \in Nat \ {0} /\ RASSlot = 0..(ras_size - 1)
  /\ \A t \in RASSlot : Above(t) \in RASSlot /\ Below(t, ras_size) \in RASSlot
<1>1. ras_size \in Nat \ {0} /\ RASSlot = 0..(ras_size - 1)
  BY ReturnStackAssumption DEF RASSlot
<1>2. ASSUME NEW t \in RASSlot
      PROVE  Above(t) \in RASSlot /\ Below(t, ras_size) \in RASSlot
  BY <1>1 DEF Above, Next1, Below
<1> QED  BY <1>1, <1>2

LEMMA SaveEffect ==
  ASSUME NEW r \in Stacks
  PROVE  RASSaveContext(r) \in Stacks /\ RASSaveContext(r).tail = r.tail
<1>1. r.tos \in RASSlot /\ r.ras[r.tos] \in PC
  BY DEF Stacks
<1>2. PICK t \in RASSlot, c \in PC : t = r.tos /\ c = r.ras[r.tos]
  BY <1>1
<1>3. RASSaveContext(r)
        = [r EXCEPT !.fetch2_tos_pointer = t, !.fetch2_tos_content = c]
  BY <1>2 DEF RASSaveContext
<1> QED  BY <1>3 DEF Stacks

LEMMA RASPushEffect ==
  ASSUME NEW r \in Stacks, NEW x \in PC
  PROVE  RASPush(r, x) \in Stacks /\ RASPush(r, x).tail = r.tail
<1>1. PICK t \in RASSlot : t = Above(r.tos)
  BY StackTypes DEF Stacks
<1>2. PICK s : s = [r EXCEPT !.tos = t, !.ras[t] = x]
  OBVIOUS
<1>3. RASPush(r, x) = s
  BY <1>1, <1>2 DEF RASPush
<1>4. s \in Stacks
  BY <1>2 DEF Stacks
<1>5. s.tail = r.tail
  BY <1>2 DEF Stacks
<1> QED  BY <1>3, <1>4, <1>5

LEMMA RASPopEffect ==
  ASSUME NEW r \in Stacks
  PROVE  RASPop(r) \in Stacks /\ RASPop(r).tail = r.tail
<1>1. PICK t \in RASSlot : t = Below(r.tos, ras_size)
  BY StackTypes DEF Stacks
<1>2. RASPop(r) = [r EXCEPT !.tos = t]
  BY <1>1 DEF RASPop
<1> QED  BY <1>2 DEF Stacks

LEMMA SpecUpdateEffect ==
  ASSUME NEW r \in Stacks, NEW u, u.push_ras_pc \in PC
  PROVE  /\ RASSpecUpdate(RASSaveContext(r), u) \in Stacks
         /\ RASSpecUpdate(RASSaveContext(r), u).tail = r.tail
<1>1. PICK s \in Stacks : s = RASSaveContext(r) /\ s.tail = r.tail
  BY SaveEffect
<1>2. RASPop(s) \in Stacks /\ RASPop(s).tail = s.tail
  BY RASPopEffect
<1>3. RASPush(s, u.push_ras_pc) \in Stacks /\ RASPush(s, u.push_ras_pc).tail = s.tail
  BY RASPushEffect
<1> QED  BY <1>1, <1>2, <1>3 DEF RASSpecUpdate

LEMMA RestoreContextEffect ==
  ASSUME NEW r \in Stacks
  PROVE  RASRestoreContext(r) \in Stacks /\ RASRestoreContext(r).tail = r.tail
BY DEF RASRestoreContext, Stacks

LEMMA LogBranchEffect ==
  ASSUME NEW r \in Stacks, NEW id \in BQSlot, NEW type
  PROVE  /\ RASLogBranch(r, id, type) \in Stacks
         /\ RASLogBranch(r, id, type).tail = Next1(r.tail, bq_size)
<1>1. PICK t \in BQSlot : t = Next1(r.tail, bq_size)
  BY SlotTypes DEF Stacks
<1>2. r.fetch2_tos_pointer \in RASSlot /\ r.fetch2_tos_content \in PC
  BY DEF Stacks
<1>3. PICK e : e = [tos_pointer |-> r.fetch2_tos_pointer,
                    tos_content |-> r.fetch2_tos_content,
                    iscall |-> type \in {"BTB_CALL_DIRECT", "BTB_CALL_INDIRECT"},
                    isreturn |-> type = "BTB_RETURN"]
  OBVIOUS
<1>4. e \in RASEntries
  <2>1. /\ (type \in {"BTB_CALL_DIRECT", "BTB_CALL_INDIRECT"}) \in BOOLEAN
        /\ (type = "BTB_RETURN") \in BOOLEAN
    OBVIOUS
  <2> QED  BY <1>2, <1>3, <2>1, ZenonT(30) DEF RASEntries
<1>5. PICK s : s = [r EXCEPT !.log[id] = e, !.tail = t]
  OBVIOUS
<1>6. RASLogBranch(r, id, type) = s
  BY <1>1, <1>3, <1>5 DEF RASLogBranch
<1>7. s \in Stacks
  BY <1>4, <1>5 DEF Stacks
<1>8. s.tail = t
  BY <1>5 DEF Stacks
<1> QED  BY <1>1, <1>6, <1>7, <1>8

(* The walk of the log only writes what the log has.                       *)
LEMMA UndoneType ==
  ASSUME NEW r \in Stacks, NEW id \in BQSlot
  PROVE  Undone(r, id) \in [RASSlot -> PC]
<1> DEFINE d == Distance(r.tail, id, bq_size)
           n == IF d = 0 THEN bq_size ELSE d
           at(e) == r.log[Ahead(e, id, bq_size)]
           hit(t) == {e \in 0..(n - 1) : at(e).tos_pointer = t}
           val(t) == IF hit(t) = {} THEN r.ras[t]
                     ELSE at(CHOOSE e \in hit(t) : \A f \in hit(t) : e <= f).tos_content
<1>1. Undone(r, id) = [t \in RASSlot |-> val(t)]
  BY DEF Undone
<1>2. d \in 0..(bq_size - 1) /\ r.tail \in 0..(bq_size - 1) /\ id \in 0..(bq_size - 1)
  <2>1. r.tail \in 0..(bq_size - 1) /\ id \in 0..(bq_size - 1)
    BY SlotTypes DEF Stacks
  <2> QED  BY <2>1, SlotTypes, DistanceAhead
<1> HIDE DEF d
<1>3. n \in 1..bq_size
  BY <1>2, SlotTypes
<1>4. ASSUME NEW e \in 0..(n - 1)
      PROVE  at(e).tos_content \in PC
  <2>1. e \in 0..(bq_size - 1)
    BY <1>3, SlotTypes
  <2>2. Ahead(e, id, bq_size) \in BQSlot
    BY <2>1, <1>2, SlotTypes, DistanceAhead
  <2>3. r.log[Ahead(e, id, bq_size)] \in RASEntries
    BY <2>2 DEF Stacks
  <2> QED  BY <2>3 DEF RASEntries
<1> HIDE DEF n, at
<1>5. ASSUME NEW t \in RASSlot
      PROVE  val(t) \in PC
  <2>1. CASE hit(t) = {}
    BY <2>1 DEF Stacks
  <2>2. CASE hit(t) # {}
    <3>1. hit(t) \in SUBSET Nat
      BY <1>3
    <3>2. \E e \in hit(t) : \A f \in hit(t) : e <= f
      BY <2>2, <3>1, LeastNumber
    <3>3. PICK e \in hit(t) : e = CHOOSE x \in hit(t) : \A f \in hit(t) : x <= f
      BY <3>2
    <3>4. at(e).tos_content \in PC
      BY <1>4
    <3> QED  BY <2>2, <3>3, <3>4
  <2> QED  BY <2>1, <2>2
<1> HIDE DEF val
<1> QED  BY <1>1, <1>5

LEMMA RASFlushEffect ==
  ASSUME NEW r \in Stacks, NEW id \in BQSlot
  PROVE  RASFlush(r, id) \in Stacks /\ RASFlush(r, id).tail = id
<1>1. r.log[id] \in RASEntries
  BY DEF Stacks
<1>2. PICK e \in RASEntries : e = r.log[id]
  BY <1>1
<1>3. e.tos_pointer \in RASSlot /\ e.tos_content \in PC
  BY DEF RASEntries
<1>4. PICK u : u = CASE recovery_approach = "TOS_POINTER" -> r.ras
                     [] recovery_approach = "TOS_POINTER_AND_CONTENT" ->
                          [r.ras EXCEPT ![e.tos_pointer] = e.tos_content]
                     [] recovery_approach = "WALK" -> Undone(r, id)
  OBVIOUS
<1>5. u \in [RASSlot -> PC]
  <2>1. r.ras \in [RASSlot -> PC]
    BY DEF Stacks
  <2>2. [r.ras EXCEPT ![e.tos_pointer] = e.tos_content] \in [RASSlot -> PC]
    BY <1>3, <2>1
  <2>3. Undone(r, id) \in [RASSlot -> PC]
    BY UndoneType
  <2> QED  BY <1>4, <2>1, <2>2, <2>3, ReturnStackAssumption
<1>6. RASFlush(r, id) = [r EXCEPT !.tos = e.tos_pointer, !.tail = id, !.ras = u]
  BY <1>2, <1>4 DEF RASFlush, Stacks
<1> QED  BY <1>3, <1>5, <1>6 DEF Stacks

LEMMA RASMispredictEffect ==
  ASSUME NEW r \in Stacks, NEW id \in BQSlot
  PROVE  /\ RASMispredict(r, id) \in Stacks
         /\ RASMispredict(r, id).tail = Next1(id, bq_size)
<1>1. PICK s \in Stacks : s = RASFlush(r, id) /\ s.tail = id
  BY RASFlushEffect
<1>2. PICK t \in Stacks :
        /\ t = IF r.log[id].iscall THEN [s EXCEPT !.tos = Above(@)]
               ELSE IF r.log[id].isreturn THEN RASPop(s)
               ELSE s
        /\ t.tail = id
  <2>1. [s EXCEPT !.tos = Above(@)] \in Stacks /\ [s EXCEPT !.tos = Above(@)].tail = id
    <3>1. PICK a \in RASSlot : a = Above(s.tos)
      BY StackTypes DEF Stacks
    <3>2. [s EXCEPT !.tos = Above(@)] = [s EXCEPT !.tos = a]
      BY <3>1
    <3> QED  BY <1>1, <3>2 DEF Stacks
  <2>2. RASPop(s) \in Stacks /\ RASPop(s).tail = id
    BY <1>1, RASPopEffect
  <2> QED  BY <1>1, <2>1, <2>2
<1>3. PICK a \in BQSlot : a = Next1(id, bq_size)
  BY SlotTypes
<1>4. RASMispredict(r, id) = [t EXCEPT !.tail = a]
  BY <1>1, <1>2, <1>3 DEF RASMispredict
<1> QED  BY <1>3, <1>4 DEF Stacks

-----------------------------------------------------------------------------
(* The bundles that fetch may produce.                                     *)
IsCondID(id) == id.branch /\ id.type = "BTB_BRANCH"

SlotOK(s, tc) ==
  /\ s.id \in Answers(tc, s.pc) /\ s.cond = IsCondID(s.id)
  /\ s.id.branch /\ s.id.type \in Direct => s.next_pc = s.id.target
  /\ s.cond => s.next_pc = IF s.taken THEN s.id.target ELSE Inc(s.pc)

(* A call or a return turns the stack, and ends its bundle.                *)
IsCall(i)   == i.branch /\ i.type \in Calls
IsReturn(i) == i.branch /\ i.type = "BTB_RETURN"
Turns(i)    == IsCall(i) \/ IsReturn(i)

BundleOK(b, tc) ==
  /\ b \in Seq(Slots)
  /\ \A k \in 1..Len(b) :
       /\ SlotOK(b[k], tc)
       /\ b[k].cb = Elders({j \in DOMAIN b : b[j].cond}, k)
       /\ Program[b[k].pc].kind = "fault" \/ Turns(b[k].id) => k = Len(b)

LEMMA AnswerTypes ==
  ASSUME NEW tc, NEW p \in PC
  PROVE  Answers(tc, p) \in SUBSET Identities /\ Real(p) \in Identities
<1>1. 0 \in PC
  BY ZeroPC
<1>2. Real(p) \in Identities
  BY <1>1, FetchUnitAssumption DEF Real, NotABranch, Identities, BranchKinds
<1>3. NotABranch \in Identities
  BY <1>1 DEF NotABranch, Identities, BranchKinds
<1>4. StaleEntry \in Identities
  BY FetchUnitAssumption DEF Identities
<1> QED  BY <1>2, <1>3, <1>4 DEF Answers

LEMMA FetchedAtOK ==
  ASSUME NEW here \in PC, NEW cb \in Nat, NEW tc, NEW id \in Answers(tc, here),
         NEW ras \in PC, NEW s \in FetchedAt(here, cb, id, ras)
  PROVE  s \in Slots /\ s.pc = here /\ s.cb = cb /\ SlotOK(s, tc)
<1>1. id \in Identities
  BY AnswerTypes
<1>2. Inc(here) \in PC /\ id.target \in PC /\ id.branch \in BOOLEAN
  BY <1>1, IncType DEF Identities
<1> DEFINE slot(taken, next_pc) ==
             [pc |-> here, cb |-> cb, id |-> id, taken |-> taken, next_pc |-> next_pc,
              cond |-> IsCondID(id)]
<1>3. IsCondID(id) \in BOOLEAN
  BY DEF IsCondID
<1>4. ASSUME NEW taken \in BOOLEAN, NEW next_pc \in PC
      PROVE  /\ slot(taken, next_pc) \in Slots
             /\ slot(taken, next_pc).pc = here /\ slot(taken, next_pc).cb = cb
             /\ slot(taken, next_pc).id = id
             /\ slot(taken, next_pc).next_pc = next_pc
             /\ slot(taken, next_pc).cond = IsCondID(id)
             /\ slot(taken, next_pc).taken = taken
  BY <1>1, <1>3, ZenonT(30) DEF Slots
<1>5. PICK taken \in BOOLEAN, next_pc \in PC :
        /\ s = slot(taken, next_pc)
        /\ id.branch /\ id.type \in Direct => next_pc = id.target
        /\ IsCondID(id) => next_pc = IF taken THEN id.target ELSE Inc(here)
  <2>1. CASE ~id.branch
    <3>1. s = slot(FALSE, Inc(here))
      BY <2>1 DEF FetchedAt, IsCondID
    <3> QED  BY <3>1, <1>2, <2>1 DEF IsCondID
  <2>2. CASE IsCondID(id)
    <3>1. s = slot(FALSE, Inc(here)) \/ s = slot(TRUE, id.target)
      BY <2>2 DEF FetchedAt, IsCondID
    <3>2. id.type \notin Direct
      BY <2>2 DEF IsCondID, Direct
    <3> QED  BY <3>1, <3>2, <1>2
  <2>3. CASE id.branch /\ id.type \in Direct
    <3>1. id.type # "BTB_BRANCH" /\ id.type # "BTB_RETURN"
      BY <2>3 DEF Direct
    <3>2. s = slot(TRUE, id.target)
      BY <2>3, <3>1 DEF FetchedAt, IsCondID
    <3> QED  BY <3>1, <3>2, <1>2 DEF IsCondID
  <2>4. CASE id.branch /\ ~IsCondID(id) /\ id.type \notin Direct
    <3>1. \E next_pc \in PC : s = slot(TRUE, next_pc)
      BY <2>4 DEF FetchedAt, IsCondID
    <3> QED  BY <3>1, <2>4
  <2> QED  BY <2>1, <2>2, <2>3, <2>4 DEF IsCondID
<1> HIDE DEF slot
<1>6. s.id = id /\ s.pc = here /\ s.cb = cb /\ s \in Slots
  BY <1>4, <1>5
<1>7. s.taken = taken /\ s.next_pc = next_pc /\ s.cond = IsCondID(id)
  BY <1>4, <1>5
<1> QED  BY <1>5, <1>6, <1>7 DEF SlotOK

(* A bundle that grows stays one of the bundles of q.                      *)
LEMMA GrownOK ==
  ASSUME NEW q, q.start \in PC, q.ras \in PC,
         NEW b, BundleOK(b, q.tc), NEW c \in Grown(b, q)
  PROVE  BundleOK(c, q.tc) /\ c # <<>> /\ Len(c) <= Len(b) + 1
<1>1. b \in Seq(Slots) /\ Len(b) \in Nat /\ DOMAIN b = 1..Len(b)
  BY DEF BundleOK
<1>2. CASE b # <<>> /\ EndsBundle(q.tc, Last(b))
  BY <1>1, <1>2 DEF Grown
<1>3. CASE ~(b # <<>> /\ EndsBundle(q.tc, Last(b)))
  <2> DEFINE here == IF b = <<>> THEN q.start ELSE Last(b).next_pc
             M == {j \in DOMAIN b : b[j].cond}
             cb == Cardinality({k \in DOMAIN b : b[k].cond})
  <2>1. here \in PC
    <3>1. CASE b # <<>>
      <4>1. Last(b) \in Slots
        BY <1>1, <3>1 DEF Last
      <4> QED  BY <3>1, <4>1 DEF Slots
    <3> QED  BY <3>1
  <2>2. cb = Elders(M, Len(b) + 1) /\ cb \in Nat
    <3>1. Before(M, Len(b) + 1) = M
      BY <1>1 DEF Before
    <3>2. Len(b) + 1 \in Int
      BY <1>1
    <3> QED  BY <3>1, <3>2, EldersFinite DEF Elders
  <2>2a. PICK id \in Answers(q.tc, here) :
           \E s \in FetchedAt(here, cb, id, q.ras) : c = Append(b, s)
    BY <1>3 DEF Grown
  <2>3. PICK s \in FetchedAt(here, cb, id, q.ras) : c = Append(b, s)
    BY <2>2a
  <2> HIDE DEF here, cb
  <2>4. s \in Slots /\ s.cb = cb /\ SlotOK(s, q.tc)
    BY <2>1, <2>2, FetchedAtOK
  <2>5. /\ c \in Seq(Slots) /\ Len(c) = Len(b) + 1 /\ c[Len(b) + 1] = s
        /\ DOMAIN c = 1..(Len(b) + 1)
        /\ \A k \in 1..Len(b) : c[k] = b[k]
    BY <1>1, <2>3, <2>4
  <2> DEFINE N == {j \in DOMAIN c : c[j].cond}
  <2>6. ASSUME NEW k \in 1..(Len(b) + 1)
        PROVE  Elders(N, k) = Elders(M, k)
    <3>1. \A j \in 1..(k - 1) : j \in 1..Len(b) /\ j \in 1..(Len(b) + 1)
      BY <1>1
    <3>2. \A j \in 1..(k - 1) : j \in N <=> j \in M
      BY <1>1, <2>5, <3>1
    <3>3. k \in Int
      OBVIOUS
    <3> HIDE DEF M, N
    <3> QED  BY <3>2, <3>3, EldersSame
  <2> HIDE DEF M, N
  <2>7. ASSUME NEW k \in 1..Len(c)
        PROVE  /\ SlotOK(c[k], q.tc) /\ c[k].cb = Elders(N, k)
               /\ Program[c[k].pc].kind = "fault" \/ Turns(c[k].id) => k = Len(c)
    <3>1. CASE k = Len(b) + 1
      <4>1. Elders(N, k) = Elders(M, k)
        BY <3>1, <2>5, <2>6
      <4> QED  BY <3>1, <4>1, <2>2, <2>4, <2>5
    <3>2. CASE k \in 1..Len(b)
      <4>1. c[k] = b[k] /\ Elders(N, k) = Elders(M, k)
        BY <3>2, <2>5, <2>6
      <4>2. SlotOK(b[k], q.tc) /\ b[k].cb = Elders(M, k)
        BY <3>2 DEF BundleOK, M
      <4>3. ~(Program[b[k].pc].kind = "fault" \/ Turns(b[k].id))
        <5>1. ASSUME Program[b[k].pc].kind = "fault" \/ Turns(b[k].id)  PROVE FALSE
          <6>1. k = Len(b)
            BY <3>2, <5>1 DEF BundleOK
          <6>2. b # <<>> /\ Last(b) = b[k]
            BY <3>2, <6>1, <1>1 DEF Last
          <6>3. CASE Turns(b[k].id)
            <7>1. /\ b[k].id.branch /\ b[k].id.type # "BTB_BRANCH"
                  /\ b[k].id.type # "BTB_JUMP_DIRECT"
              BY <6>3 DEF Turns, IsCall, IsReturn, Calls
            <7>2. b[k].cond = IsCondID(b[k].id)
              BY <4>2 DEF SlotOK
            <7>3. ~b[k].cond
              BY <7>1, <7>2 DEF IsCondID
            <7> QED  BY <6>2, <7>1, <7>3, <1>3 DEF EndsBundle
          <6> QED  BY <6>2, <6>3, <5>1, <1>3 DEF EndsBundle
        <5> QED  BY <5>1
      <4> QED  BY <4>1, <4>2, <4>3
    <3> QED  BY <3>1, <3>2, <2>5, <1>1
  <2>8. BundleOK(c, q.tc)
    BY <2>5, <2>7 DEF BundleOK, N
  <2>9. c # <<>>
    BY <2>5, <1>1
  <2> QED  BY <2>5, <2>8, <2>9, <1>1
<1> QED  BY <1>2, <1>3

(* Every bundle that fetch may produce is one.                             *)
LEMMA BundlesOK ==
  ASSUME NEW tc, NEW start \in PC, NEW ras \in PC,
         NEW bundle \in Bundles(tc, start, ras)
  PROVE  BundleOK(bundle, tc) /\ Len(bundle) \in 1..instr_per_cycle
<1> DEFINE n == instr_per_cycle
           q == [tc |-> tc, start |-> start, ras |-> ras]
           seq == [p \in 1..n |-> q]
<1>1. n \in Nat \ {0}
  BY FetchUnitAssumption
<1>2. seq \in Seq({q}) /\ Len(seq) = n /\ \A k \in 1..n : seq[k] = q
  BY <1>1
<1>3. Bundles(tc, start, ras) = FoldLeft(Longer, {<<>>}, seq)
  BY DEF Bundles
<1>4. q.tc = tc /\ q.start \in PC /\ q.ras \in PC
  OBVIOUS
<1> HIDE DEF n, q, seq
<1>5. FoldLeft(Longer, {<<>>}, seq) = Growth!Fold({<<>>}, seq)
  BY DEF FoldLeft, MapThenFoldSet, Max,
         Growth!Fold, Growth!Latest
<1>6. PICK f : /\ Growth!Steps(f, {<<>>}, seq)
               /\ Growth!Fold({<<>>}, seq) = f[n]
  BY <1>2, WellOrder, Growth!FoldSteps
<1>7. f[0] = {<<>>} /\ \A k \in 1..n : f[k] = Longer(f[k - 1], q)
  BY <1>2, <1>6 DEF Growth!Steps
<1> DEFINE OK(k) == \A b \in f[k] : /\ BundleOK(b, tc) /\ Len(b) <= k
                                    /\ k > 0 => b # <<>>
           T == {k \in 0..n : ~OK(k)}
<1>8. OK(0)
  <2>1. <<>> \in Seq(Slots) /\ Len(<<>>) = 0 /\ 1..0 = {}
    OBVIOUS
  <2>2. BundleOK(<<>>, tc)
    BY <2>1 DEF BundleOK
  <2> QED  BY <1>7, <2>1, <2>2
<1>9. ASSUME NEW k \in 1..n, OK(k - 1)
      PROVE  OK(k)
  <2> SUFFICES ASSUME NEW c \in f[k]
               PROVE  BundleOK(c, tc) /\ Len(c) <= k /\ c # <<>>
    OBVIOUS
  <2>1. f[k] = UNION {Grown(b, q) : b \in f[k - 1]}
    BY <1>7 DEF Longer
  <2>2. PICK b \in f[k - 1] : c \in Grown(b, q)
    BY <2>1
  <2>3. BundleOK(b, tc) /\ Len(b) <= k - 1 /\ Len(b) \in Nat
    <3>1. BundleOK(b, tc) /\ Len(b) <= k - 1
      BY <1>9
    <3> QED  BY <3>1 DEF BundleOK
  <2>4. BundleOK(c, tc) /\ c # <<>> /\ Len(c) <= Len(b) + 1
    BY <2>2, <2>3, <1>4, GrownOK
  <2>5. Len(c) \in Nat
    BY <2>4 DEF BundleOK
  <2> QED  BY <2>3, <2>4, <2>5, <1>1
<1>10. OK(n)
  <2>1. SUFFICES ASSUME T # {}  PROVE FALSE
    BY <1>1
  <2>2. T \in SUBSET Nat
    BY <1>1
  <2>3. PICK m \in T : \A y \in T : m <= y
    BY <2>1, <2>2, LeastNumber
  <2>4. m \in 1..n
    BY <2>3, <1>8, <1>1
  <2>5. m - 1 \in 0..n /\ m - 1 < m
    BY <2>4, <1>1
  <2>6. m - 1 \notin T
    BY <2>3, <2>5, <2>4, <1>1
  <2>7. OK(m - 1)
    BY <2>5, <2>6
  <2> HIDE DEF OK
  <2>8. OK(m)
    BY <2>4, <2>7, <1>9
  <2> QED  BY <2>8, <2>3
<1>11. bundle \in f[n]
  BY <1>3, <1>5, <1>6
<1>12. BundleOK(bundle, tc) /\ Len(bundle) <= n /\ bundle # <<>>
  BY <1>1, <1>10, <1>11
<1>13. Len(bundle) \in Nat /\ Len(bundle) # 0
  BY <1>12 DEF BundleOK
<1> QED  BY <1>1, <1>12, <1>13 DEF n

-----------------------------------------------------------------------------
(* How the branch queue follows the window.                                *)
SameEntry(i, j) ==
  /\ i.branch = j.branch /\ i.type = j.type /\ i.pc = j.pc /\ i.next_pc = j.next_pc
  /\ i.pred_tag = j.pred_tag /\ i.pred_tag_phase = j.pred_tag_phase

LEMMA BranchesElders ==
  ASSUME NEW w, NEW v, NEW n \in Nat, NEW m \in Nat, m <= n,
         \A j \in 1..m : v[j].branch = w[j].branch,
         NEW k \in 1..(m + 1)
  PROVE  Elders(Branches(v, m), k) = Elders(Branches(w, n), k)
<1>1. \A j \in 1..(k - 1) : j \in 1..m /\ j \in 1..n
  OBVIOUS
<1>2. \A j \in 1..(k - 1) : j \in Branches(v, m) <=> j \in Branches(w, n)
  BY <1>1 DEF Branches
<1>3. k \in Int
  OBVIOUS
<1> QED  BY <1>2, <1>3, EldersSame

(* The slots of the branches: each its own, and the tail is none of them   *)
(* unless the queue is full.                                               *)
LEMMA QueueSlots ==
  ASSUME NEW q \in Queues, NEW w, NEW n \in Nat, QueueOK(q, w, n)
  PROVE  /\ Elders(Branches(w, n), n + 1) \in 0..bq_size
         /\ \A k \in Branches(w, n) :
              /\ w[k].pred_tag \in BQSlot /\ w[k].pred_tag_phase \in BOOLEAN
              /\ Elders(Branches(w, n), k) \in 0..(bq_size - 1)
              /\ Elders(Branches(w, n), k) < Elders(Branches(w, n), n + 1)
              /\ w[k].pred_tag = Ahead(Elders(Branches(w, n), k), q.head, bq_size)
              /\ Distance(w[k].pred_tag, q.head, bq_size) = Elders(Branches(w, n), k)
         /\ \A j, k \in Branches(w, n) : j # k => w[j].pred_tag # w[k].pred_tag
         /\ Elders(Branches(w, n), n + 1) < bq_size =>
              \A k \in Branches(w, n) : w[k].pred_tag # q.tail
<1> DEFINE B == Branches(w, n)
<1>1. /\ bq_size \in Nat \ {0} /\ q.head \in 0..(bq_size - 1) /\ q.head_phase \in BOOLEAN
      /\ BQSlot = 0..(bq_size - 1)
  BY SlotTypes DEF Queues
<1>2. \A k \in B : k \in 1..n
  BY DEF Branches
<1> HIDE DEF B
<1>3. /\ Elders(B, n + 1) \in 0..bq_size
      /\ Elders(B, n + 1) < bq_size =>
           Distance(q.tail, q.head, bq_size) = Elders(B, n + 1)
  <2>1. Place(<<q.tail, q.tail_phase>>, Elders(B, n + 1), q.head, q.head_phase, bq_size)
    BY DEF QueueOK, B
  <2>2. <<q.tail, q.tail_phase>>[1] = q.tail
    OBVIOUS
  <2> QED  BY <1>1, <2>1, <2>2, PlaceAhead
<1>4. ASSUME NEW k \in B
      PROVE  /\ w[k].pred_tag \in BQSlot /\ w[k].pred_tag_phase \in BOOLEAN
             /\ Elders(B, k) \in 0..(bq_size - 1)
             /\ Elders(B, k) < Elders(B, n + 1)
             /\ w[k].pred_tag = Ahead(Elders(B, k), q.head, bq_size)
             /\ Distance(w[k].pred_tag, q.head, bq_size) = Elders(B, k)
  <2>1. k \in Nat \ {0} /\ n + 1 \in Int /\ k < n + 1
    BY <1>2
  <2>2. Elders(B, k) + 1 <= Elders(B, n + 1)
    BY <2>1, EldersStrict
  <2>3. Elders(B, k) \in Nat
    BY <2>1, EldersFinite
  <2>4. Place(TagOf(w, k), Elders(B, k), q.head, q.head_phase, bq_size)
    BY DEF QueueOK, B
  <2>5. Elders(B, k) < bq_size /\ Elders(B, k) \in 0..(bq_size - 1)
        /\ Elders(B, k) < Elders(B, n + 1)
    BY <2>2, <2>3, <1>1, <1>3
  <2>6. TagOf(w, k)[1] = w[k].pred_tag /\ TagOf(w, k)[2] = w[k].pred_tag_phase
    BY DEF TagOf
  <2>7. w[k].pred_tag \in BQSlot /\ w[k].pred_tag_phase \in BOOLEAN
    BY <2>4, <2>6, <1>1 DEF Place
  <2>8. /\ w[k].pred_tag = Ahead(Elders(B, k), q.head, bq_size)
        /\ Distance(w[k].pred_tag, q.head, bq_size) = Elders(B, k)
    BY <2>4, <2>5, <2>6, <1>1, PlaceAhead
  <2> QED  BY <2>5, <2>7, <2>8
<1>5. ASSUME NEW j \in B, NEW k \in B, j < k
      PROVE  w[j].pred_tag # w[k].pred_tag
  <2>1. j \in Nat \ {0} /\ k \in Int
    BY <1>2
  <2>2. Elders(B, j) + 1 <= Elders(B, k)
    BY <2>1, <1>5, EldersStrict
  <2>3. Elders(B, j) # Elders(B, k)
    BY <2>2, <1>4
  <2> QED  BY <2>3, <1>4
<1>6. \A j, k \in B : j # k => w[j].pred_tag # w[k].pred_tag
  <2>1. \A j \in B : j \in Int
    BY <1>2
  <2> QED  BY <2>1, <1>5
<1>7. Elders(B, n + 1) < bq_size => \A k \in B : w[k].pred_tag # q.tail
  BY <1>3, <1>4
<1> QED  BY <1>3, <1>4, <1>6, <1>7 DEF B

(* A window that agrees on the branches.                                   *)
LEMMA QueueSame ==
  ASSUME NEW q, NEW w, NEW v, NEW n \in Nat, QueueOK(q, w, n),
         \A k \in 1..n : SameEntry(v[k], w[k])
  PROVE  QueueOK(q, v, n)
<1>1. Branches(v, n) = Branches(w, n)
  BY DEF Branches, SameEntry
<1>2. ASSUME NEW k \in Branches(w, n)
      PROVE  /\ TagOf(v, k) = TagOf(w, k) /\ v[k].pred_tag = w[k].pred_tag
             /\ Entered(q.bq[w[k].pred_tag], w[k]) => Entered(q.bq[v[k].pred_tag], v[k])
  <2>1. SameEntry(v[k], w[k])
    BY DEF Branches
  <2> QED  BY <2>1 DEF TagOf, SameEntry, Entered
<1> QED  BY <1>1, <1>2 DEF QueueOK

(* An instruction that is no branch goes by.                               *)
LEMMA QueuePass ==
  ASSUME NEW q, NEW w, NEW n \in Nat, QueueOK(q, w, n), ~w[n + 1].branch
  PROVE  QueueOK(q, w, n + 1)
<1>1. Branches(w, n + 1) = Branches(w, n)
  BY DEF Branches
<1>2. n + 1 \notin Branches(w, n) /\ n + 1 \in Nat \ {0}
  BY DEF Branches
<1>3. Elders(Branches(w, n), (n + 1) + 1) = Elders(Branches(w, n), n + 1)
  BY <1>2, EldersStep
<1> QED  BY <1>1, <1>3 DEF QueueOK

(* A branch takes the slot at the tail.                                    *)
LEMMA QueueEnter ==
  ASSUME NEW q \in Queues, NEW w, NEW n \in Nat, QueueOK(q, w, n),
         Elders(Branches(w, n), n + 1) < bq_size,
         NEW v, \A k \in 1..n : SameEntry(v[k], w[k]),
         v[n + 1].branch, TagOf(v, n + 1) = <<q.tail, q.tail_phase>>,
         NEW e \in BQEntries, Entered(e, v[n + 1])
  PROVE  QueueOK(push(q, e), v, n + 1)
<1> DEFINE B == Branches(w, n)
           C == Branches(v, n + 1)
           d == Elders(B, n + 1)
<1>1. /\ bq_size \in Nat \ {0} /\ q.head \in 0..(bq_size - 1) /\ q.head_phase \in BOOLEAN
      /\ q.tail \in BQSlot /\ q.bq \in [BQSlot -> BQEntries]
  BY SlotTypes DEF Queues
<1>2. QueueOK(q, v, n)
  BY QueueSame
<1>3. \A k \in 1..(n + 1) : Elders(C, k) = Elders(B, k)
  <2> SUFFICES ASSUME NEW k \in 1..(n + 1)
               PROVE  Elders(C, k) = Elders(B, k)
    OBVIOUS
  <2>1. \A j \in 1..n : w[j].branch = v[j].branch
    BY DEF SameEntry
  <2>2. n + 1 \in Nat /\ n <= n + 1
    OBVIOUS
  <2> QED  BY <2>1, <2>2, BranchesElders
<1>4. C = Branches(v, n) \cup {n + 1} /\ n + 1 \in C
  BY DEF Branches
<1>5. Elders(C, (n + 1) + 1) = d + 1
  <2>1. n + 1 \in Nat \ {0} /\ n + 1 \in 1..(n + 1)
    OBVIOUS
  <2>2. Elders(C, (n + 1) + 1) = Elders(C, n + 1) + 1
    BY <2>1, <1>4, EldersStep
  <2> QED  BY <2>1, <2>2, <1>3
<1>6. Place(<<q.tail, q.tail_phase>>, d, q.head, q.head_phase, bq_size)
  BY DEF QueueOK
<1> DEFINE r == push(q, e)
<1>7. /\ r.bq = [q.bq EXCEPT ![q.tail] = e] /\ r.head = q.head
      /\ r.head_phase = q.head_phase
      /\ r.tail = Next1(q.tail, bq_size)
      /\ r.tail_phase = NextPhase(q.tail, q.tail_phase, bq_size)
  BY PushEffect
<1> HIDE DEF r
<1>8. Place(<<r.tail, r.tail_phase>>, Elders(C, (n + 1) + 1), r.head, r.head_phase, bq_size)
  <2>1. Place(<<Next1(q.tail, bq_size), NextPhase(q.tail, q.tail_phase, bq_size)>>,
              d + 1, q.head, q.head_phase, bq_size)
    BY <1>1, <1>6, PlaceNext
  <2> QED  BY <2>1, <1>5, <1>7
<1>9. ASSUME NEW k \in C
      PROVE  /\ Place(TagOf(v, k), Elders(C, k), r.head, r.head_phase, bq_size)
             /\ Entered(r.bq[v[k].pred_tag], v[k])
  <2>1. k \in 1..(n + 1)
    BY DEF Branches
  <2>2. Elders(C, k) = Elders(B, k)
    BY <1>3, <2>1
  <2>3. CASE k = n + 1
    <3>1. v[k].pred_tag = q.tail
      BY <2>3 DEF TagOf
    <3>2. r.bq[q.tail] = e
      BY <1>1, <1>7
    <3> QED  BY <3>1, <3>2, <2>2, <2>3, <1>6, <1>7
  <2>4. CASE k # n + 1
    <3>1. k \in Branches(v, n) /\ k \in Branches(w, n)
      <4>1. k \in 1..n /\ k \in Branches(v, n)
        BY <1>4, <2>4 DEF Branches
      <4> QED  BY <4>1 DEF Branches, SameEntry
    <3>2. k \in 1..n
      BY <3>1 DEF Branches
    <3>3. TagOf(v, k) = TagOf(w, k) /\ v[k].pred_tag = w[k].pred_tag
      BY <3>2 DEF TagOf, SameEntry
    <3>4. Place(TagOf(w, k), Elders(B, k), q.head, q.head_phase, bq_size)
      BY <3>1 DEF QueueOK
    <3>5. v[k].pred_tag # q.tail /\ v[k].pred_tag \in BQSlot
      BY <3>1, <3>3, QueueSlots
    <3>6. r.bq[v[k].pred_tag] = q.bq[v[k].pred_tag]
      BY <3>5, <1>1, <1>7
    <3>7. Entered(q.bq[v[k].pred_tag], v[k])
      BY <3>1, <1>2 DEF QueueOK
    <3> QED  BY <3>3, <3>4, <3>6, <3>7, <2>2, <1>7
  <2> QED  BY <2>3, <2>4
<1> QED  BY <1>8, <1>9 DEF QueueOK, r

(* The tail goes back to a branch, which leaves with the ones behind it.   *)
LEMMA QueueCut ==
  ASSUME NEW q \in Queues, NEW w, NEW n \in Nat, QueueOK(q, w, n),
         NEW k \in Branches(w, n)
  PROVE  QueueOK(rollback(q, w[k].pred_tag, w[k].pred_tag_phase), w, k - 1)
<1> DEFINE B == Branches(w, n)
           C == Branches(w, k - 1)
           r == rollback(q, w[k].pred_tag, w[k].pred_tag_phase)
<1>1. k \in 1..n /\ k - 1 \in Nat /\ k - 1 <= n /\ (k - 1) + 1 = k
  BY DEF Branches
<1>2. w[k].pred_tag \in BQSlot /\ w[k].pred_tag_phase \in BOOLEAN
  BY QueueSlots
<1>3. /\ r.bq = q.bq /\ r.head = q.head /\ r.head_phase = q.head_phase
      /\ r.tail = w[k].pred_tag /\ r.tail_phase = w[k].pred_tag_phase
  BY <1>2, RollbackEffect
<1>4. \A j \in 1..((k - 1) + 1) : Elders(C, j) = Elders(B, j)
  BY <1>1, BranchesElders
<1>5. \A j \in C : j \in B /\ j \in 1..((k - 1) + 1)
  BY <1>1 DEF Branches
<1> HIDE DEF r
<1>6. Place(<<r.tail, r.tail_phase>>, Elders(C, (k - 1) + 1), r.head, r.head_phase, bq_size)
  <2>1. Place(TagOf(w, k), Elders(B, k), q.head, q.head_phase, bq_size)
    BY DEF QueueOK
  <2>2. k \in 1..((k - 1) + 1)
    BY <1>1
  <2>3. Elders(C, k) = Elders(B, k)
    BY <1>4, <2>2
  <2> QED  BY <2>1, <2>3, <1>1, <1>3 DEF TagOf
<1>7. ASSUME NEW j \in C
      PROVE  /\ Place(TagOf(w, j), Elders(C, j), r.head, r.head_phase, bq_size)
             /\ Entered(r.bq[w[j].pred_tag], w[j])
  <2>1. /\ Place(TagOf(w, j), Elders(B, j), q.head, q.head_phase, bq_size)
        /\ Entered(q.bq[w[j].pred_tag], w[j])
    BY <1>5 DEF QueueOK
  <2> QED  BY <2>1, <1>3, <1>4, <1>5
<1> QED  BY <1>6, <1>7 DEF QueueOK, r

(* The window moves down by one instruction.                               *)
LEMMA BranchesShift ==
  ASSUME NEW w, NEW v, NEW n \in Nat, \A k \in 1..n : v[k] = w[k + 1]
  PROVE  /\ \A k \in Branches(v, n) : k + 1 \in Branches(w, n + 1)
         /\ \A k \in 1..(n + 1) :
              Elders(Branches(v, n), k)
                = IF w[1].branch THEN Elders(Branches(w, n + 1), k + 1) - 1
                  ELSE Elders(Branches(w, n + 1), k + 1)
<1>1. \A k \in 1..n : k + 1 \in 1..(n + 1)
  OBVIOUS
<1>2. \A k \in 1..n : k \in Branches(v, n) <=> k + 1 \in Branches(w, n + 1)
  BY <1>1 DEF Branches
<1>3. 1 \in Branches(w, n + 1) <=> w[1].branch
  BY DEF Branches
<1>4. ASSUME NEW k \in 1..(n + 1)
      PROVE  Elders(Branches(v, n), k)
               = IF w[1].branch THEN Elders(Branches(w, n + 1), k + 1) - 1
                 ELSE Elders(Branches(w, n + 1), k + 1)
  <2>1. k \in Nat \ {0} /\ \A j \in 1..(k - 1) : j \in 1..n
    OBVIOUS
  <2>2. \A j \in 1..(k - 1) : j \in Branches(v, n) <=> j + 1 \in Branches(w, n + 1)
    BY <1>2, <2>1
  <2> QED  BY <2>1, <2>2, <1>3, EldersShift
<1>5. \A k \in Branches(v, n) : k + 1 \in Branches(w, n + 1)
  BY <1>2 DEF Branches
<1> QED  BY <1>4, <1>5

(* The oldest instruction leaves without an entry.                         *)
LEMMA QueueSkip ==
  ASSUME NEW q, NEW w, NEW v, NEW n \in Nat, QueueOK(q, w, n + 1), ~w[1].branch,
         \A k \in 1..n : v[k] = w[k + 1]
  PROVE  QueueOK(q, v, n)
<1>1. \A k \in Branches(v, n) : k + 1 \in Branches(w, n + 1)
  BY BranchesShift
<1>2. \A k \in 1..(n + 1) : Elders(Branches(v, n), k) = Elders(Branches(w, n + 1), k + 1)
  BY BranchesShift
<1>3. n + 1 \in 1..(n + 1) /\ \A k \in Branches(v, n) : k \in 1..n /\ k \in 1..(n + 1)
  BY DEF Branches
<1>4. Place(<<q.tail, q.tail_phase>>, Elders(Branches(v, n), n + 1),
            q.head, q.head_phase, bq_size)
  BY <1>2, <1>3 DEF QueueOK
<1>5. ASSUME NEW k \in Branches(v, n)
      PROVE  /\ Place(TagOf(v, k), Elders(Branches(v, n), k), q.head, q.head_phase, bq_size)
             /\ Entered(q.bq[v[k].pred_tag], v[k])
  <2>1. v[k] = w[k + 1]
    BY <1>3
  <2>2. /\ Place(TagOf(w, k + 1), Elders(Branches(w, n + 1), k + 1),
                 q.head, q.head_phase, bq_size)
        /\ Entered(q.bq[w[k + 1].pred_tag], w[k + 1])
    BY <1>1 DEF QueueOK
  <2> QED  BY <2>1, <2>2, <1>2, <1>3 DEF TagOf
<1> QED  BY <1>4, <1>5 DEF QueueOK

(* The oldest instruction leaves with the entry at the head.               *)
LEMMA QueueLeave ==
  ASSUME NEW q \in Queues, NEW w, NEW v, NEW n \in Nat, QueueOK(q, w, n + 1),
         w[1].branch, \A k \in 1..n : v[k] = w[k + 1]
  PROVE  /\ w[1].pred_tag = q.head
         /\ QueueOK(pop(q), v, n)
<1> DEFINE B == Branches(w, n + 1)
           C == Branches(v, n)
           r == pop(q)
<1>1. /\ bq_size \in Nat \ {0} /\ q.head \in 0..(bq_size - 1) /\ q.head_phase \in BOOLEAN
      /\ n + 1 \in Nat
  BY SlotTypes DEF Queues
<1>2. /\ r.bq = q.bq /\ r.tail = q.tail /\ r.tail_phase = q.tail_phase
      /\ r.head = Next1(q.head, bq_size)
      /\ r.head_phase = NextPhase(q.head, q.head_phase, bq_size)
  BY PopEffect
<1>3. 1 \in B
  BY DEF Branches
<1>4. w[1].pred_tag = q.head
  <2>1. w[1].pred_tag = Ahead(Elders(B, 1), q.head, bq_size)
    BY <1>1, <1>3, QueueSlots
  <2>2. Ahead(0, q.head, bq_size) = q.head
    BY <1>1 DEF Ahead
  <2> QED  BY <2>1, <2>2, EldersFirst
<1>5. \A k \in C : k + 1 \in B /\ k \in 1..n /\ k \in 1..(n + 1)
  BY BranchesShift DEF Branches
<1>6. \A k \in 1..(n + 1) : Elders(C, k) = Elders(B, k + 1) - 1
  BY BranchesShift
<1>7. \A k \in 1..(n + 1) : Elders(B, k + 1) > 0
  <2> SUFFICES ASSUME NEW k \in 1..(n + 1)
               PROVE  Elders(B, k + 1) > 0
    OBVIOUS
  <2>1. k + 1 \in Int /\ 1 < k + 1 /\ 1 \in Nat \ {0}
    OBVIOUS
  <2>2. Elders(B, 1) + 1 <= Elders(B, k + 1)
    BY <2>1, <1>3, EldersStrict
  <2>3. Elders(B, k + 1) \in Nat /\ Elders(B, 1) = 0
    BY <2>1, EldersFinite, EldersFirst
  <2> QED  BY <2>2, <2>3
<1> HIDE DEF r, B, C
<1>8. \A x, k : k \in 1..(n + 1) /\ Place(x, Elders(B, k + 1), q.head, q.head_phase, bq_size)
        => Place(x, Elders(C, k), r.head, r.head_phase, bq_size)
  BY <1>1, <1>2, <1>6, <1>7, PlacePop
<1>9. Place(<<r.tail, r.tail_phase>>, Elders(C, n + 1), r.head, r.head_phase, bq_size)
  <2>1. Place(<<q.tail, q.tail_phase>>, Elders(B, (n + 1) + 1),
              q.head, q.head_phase, bq_size)
    BY DEF QueueOK, B
  <2>2. n + 1 \in 1..(n + 1)
    OBVIOUS
  <2> QED  BY <2>1, <2>2, <1>2, <1>8
<1>10. ASSUME NEW k \in C
       PROVE  /\ Place(TagOf(v, k), Elders(C, k), r.head, r.head_phase, bq_size)
              /\ Entered(r.bq[v[k].pred_tag], v[k])
  <2>1. v[k] = w[k + 1]
    BY <1>5
  <2>2. /\ Place(TagOf(w, k + 1), Elders(B, k + 1), q.head, q.head_phase, bq_size)
        /\ Entered(q.bq[w[k + 1].pred_tag], w[k + 1])
    BY <1>5 DEF QueueOK, B
  <2>3. TagOf(v, k) = TagOf(w, k + 1)
    BY <2>1 DEF TagOf
  <2>4. Place(TagOf(v, k), Elders(C, k), r.head, r.head_phase, bq_size)
    BY <2>2, <2>3, <1>5, <1>8
  <2> QED  BY <2>1, <2>2, <2>4, <1>2
<1> QED  BY <1>4, <1>9, <1>10 DEF QueueOK, r, C

(* A queue whose tail is at its head follows an empty window.              *)
LEMMA QueueNone ==
  ASSUME NEW q \in Queues, q.tail = q.head, q.tail_phase = q.head_phase, NEW w
  PROVE  QueueOK(q, w, 0)
<1>1. Branches(w, 0) = {}
  BY DEF Branches
<1>2. Elders({}, 0 + 1) = 0
  BY EldersFirst
<1>3. q.head \in 0..(bq_size - 1) /\ q.head_phase \in BOOLEAN
  BY SlotTypes DEF Queues
<1>4. Place(<<q.tail, q.tail_phase>>, 0, q.head, q.head_phase, bq_size)
  BY <1>3 DEF Place, RingOK, Occupancy
<1> QED  BY <1>1, <1>2, <1>4 DEF QueueOK

-----------------------------------------------------------------------------
(* The stages.                                                             *)
LEMMA StageFacts ==
  ASSUME TypeOK, StageInv
  PROVE  /\ Len(window) \in Nat /\ DOMAIN window = 1..Len(window)
         /\ InFetch2 \in 0..instr_per_cycle /\ instr_per_cycle \in Nat \ {0}
         /\ BundleStart \in Nat /\ decode \in Nat /\ decode <= BundleStart
         /\ BundleStart + InFetch2 = Len(window)
         /\ Len(window) <= MaxWindow /\ Len(window) <= bq_size
         /\ \A k \in 1..Len(window) : window[k] \in Insts
<1>1. Len(window) \in Nat /\ decode \in Nat /\ DOMAIN window = 1..Len(window)
      /\ \A k \in 1..Len(window) : window[k] \in Insts
  BY DEF TypeOK
<1>2. InFetch2 \in 0..instr_per_cycle
  BY InFetch2Valid, ValidHas
<1>3. /\ instr_per_cycle \in Nat \ {0} /\ MaxWindow \in 0..bq_size
      /\ bq_size \in Nat \ {0}
  BY FetchUnitAssumption, BranchQueueAssumption
<1>4. InFetch2 + decode <= Len(window) /\ Len(window) <= MaxWindow
  BY DEF StageInv
<1>5. BundleStart = Len(window) - InFetch2
  BY DEF BundleStart
<1> QED  BY <1>1, <1>2, <1>3, <1>4, <1>5

(* Fetch2 keeps the bundle up to its first serializing instruction; an     *)
(* instruction that stops fetch is the last one kept.                      *)
LEMMA KeptFacts ==
  ASSUME TypeOK, StageInv, InstInv, IdleInv, fetch2.valid
  PROVE  /\ Predecoded \in 1..InFetch2
         /\ Serializers = {} => Predecoded = InFetch2
         /\ Serializers # {} => Predecoded - 1 \in Serializers
         /\ Kept \in Seq(Insts) /\ Len(Kept) = BundleStart + Predecoded
         /\ Len(Kept) <= Len(window)
         /\ \A k \in 1..Len(Kept) : Kept[k] = window[k]
         /\ \A k \in 1..BundleStart : ~Stops(window, k)
         /\ \A k \in 1..Len(Kept) :
              k > BundleStart /\ Stops(window, k) => k = Len(Kept) /\ Idles
         /\ Idles \/ ~fetch_active => Stops(window, Len(Kept))
         /\ ~Idles => Serializers = {} /\ Len(Kept) = Len(window)
<1>1. /\ Len(window) \in Nat /\ BundleStart \in Nat
      /\ InFetch2 \in Nat /\ InFetch2 > 0 /\ BundleStart + InFetch2 = Len(window)
  <2>1. InFetch2 > 0
    BY DEF StageInv
  <2> QED  BY <2>1, StageFacts
<1>2. /\ Predecoded \in 1..InFetch2
      /\ Serializers = {} => Predecoded = InFetch2
      /\ Serializers # {} => Predecoded - 1 \in Serializers
      /\ \A p \in Serializers : Predecoded - 1 <= p
  <2>1. CASE Serializers = {}
    BY <2>1, <1>1 DEF Predecoded
  <2>2. CASE Serializers # {}
    <3>1. Serializers \in SUBSET Nat
      BY <1>1 DEF Serializers
    <3>2. \E p \in Serializers : \A q \in Serializers : p <= q
      BY <2>2, <3>1, LeastNumber
    <3>3. PICK p \in Serializers :
            /\ p = CHOOSE x \in Serializers : \A q \in Serializers : x <= q
            /\ \A q \in Serializers : p <= q
      BY <3>2
    <3>4. Predecoded = 1 + p
      BY <2>2, <3>3 DEF Predecoded
    <3>5. p \in 0..(InFetch2 - 1)
      BY DEF Serializers
    <3>6. Predecoded - 1 = p /\ Predecoded \in 1..InFetch2
      BY <3>4, <3>5, <1>1
    <3> QED  BY <2>2, <3>3, <3>6
  <2> QED  BY <2>1, <2>2
<1> DEFINE P == Predecoded
           B == BundleStart
<1> HIDE DEF P, B
<1>3. /\ Kept \in Seq(Insts) /\ Len(Kept) = B + P /\ Len(Kept) <= Len(window)
      /\ \A k \in 1..Len(Kept) : Kept[k] = window[k]
  <2>1. Kept = SubSeq(window, 1, B + P)
    BY DEF Kept, B, P
  <2>2. window \in Seq(Insts)
    BY DEF TypeOK
  <2>3. B + P \in 0..Len(window)
    BY <1>1, <1>2 DEF B, P
  <2> QED  BY <2>1, <2>2, <2>3
<1>4. \A p \in 0..(InFetch2 - 1) :
        /\ Kind(p) = Program[window[B + 1 + p].pc].kind
        /\ B + 1 + p \in 1..Len(window)
  BY <1>1 DEF Kind, Fetched, B
<1>5. \A k \in 1..B : ~Stops(window, k)
  <2> SUFFICES ASSUME NEW k \in 1..B, Stops(window, k)
               PROVE  FALSE
    OBVIOUS
  <2>1. k = Len(window)
    BY DEF IdleInv, B
  <2> QED  BY <2>1, <1>1 DEF B
<1>6. ASSUME NEW k \in 1..Len(Kept), k > B, Stops(window, k)
      PROVE  k = Len(Kept) /\ Idles
  <2>1. PICK p \in 0..(P - 1) : k = B + 1 + p
    <3>1. k - B - 1 \in 0..(P - 1) /\ k = B + 1 + (k - B - 1)
      BY <1>1, <1>2, <1>3, <1>6 DEF B, P
    <3> QED  BY <3>1
  <2>2. p \in 0..(InFetch2 - 1) /\ p \in Nat /\ P \in Nat
    BY <1>1, <1>2 DEF P
  <2>3. Kind(p) \in {"serialize", "fault"}
    BY <1>4, <1>6, <2>1, <2>2 DEF Stops
  <2>4. Idles
    BY <2>3 DEF Idles, P
  <2>5. CASE Kind(p) = "serialize"
    <3>1. p \in Serializers
      BY <2>2, <2>5 DEF Serializers
    <3>2. P - 1 <= p
      BY <3>1, <1>2 DEF P
    <3> QED  BY <3>2, <2>1, <2>2, <2>4, <1>3, <1>1 DEF B
  <2>6. CASE Kind(p) = "fault"
    <3>1. k \in 1..Len(window) /\ Program[window[k].pc].kind = "fault"
      BY <2>1, <2>2, <2>6, <1>4
    <3>2. k = Len(window)
      BY <3>1, <1>6 DEF InstInv, B
    <3> QED  BY <3>2, <2>4, <1>3, <1>6, <1>1
  <2> QED  BY <2>3, <2>5, <2>6
<1>7. ASSUME Idles
      PROVE  Stops(window, Len(Kept))
  <2>1. PICK p \in 0..(P - 1) : Kind(p) \in {"serialize", "fault"}
    BY <1>7 DEF Idles, P
  <2>2. p \in 0..(InFetch2 - 1) /\ B + 1 + p \in 1..Len(Kept) /\ B + 1 + p > B
    BY <1>1, <1>2, <1>3 DEF B, P
  <2>3. Stops(window, B + 1 + p)
    BY <2>1, <2>2, <1>4 DEF Stops
  <2>4. B + 1 + p = Len(Kept)
    BY <2>2, <2>3, <1>6
  <2> QED  BY <2>3, <2>4
<1>8. ~Idles => Serializers = {} /\ Len(Kept) = Len(window)
  <2>1. ASSUME Serializers # {}
        PROVE  Idles
    <3>1. P - 1 \in Serializers
      BY <2>1, <1>2 DEF P
    <3>2. P - 1 \in 0..(P - 1) /\ Kind(P - 1) = "serialize"
      BY <3>1, <1>2, <1>1 DEF Serializers, P
    <3> QED  BY <3>2 DEF Idles, P
  <2>2. Serializers = {} => Len(Kept) = Len(window)
    BY <1>1, <1>2, <1>3 DEF P, B
  <2> QED  BY <2>1, <2>2
<1>9. ASSUME ~fetch_active
      PROVE  Idles
  <2>1. Stops(window, Len(window))
    BY <1>9 DEF IdleInv
  <2>2. CASE Serializers = {}
    <3>1. Len(window) = Len(Kept) /\ Len(Kept) \in 1..Len(Kept) /\ Len(Kept) > B
      BY <2>2, <1>1, <1>2, <1>3 DEF P, B
    <3> QED  BY <3>1, <2>1, <1>6
  <2>3. CASE Serializers # {}
    BY <2>3, <1>8
  <2> QED  BY <2>2, <2>3
<1> QED  BY <1>2, <1>3, <1>5, <1>6, <1>7, <1>8, <1>9 DEF B, P

-----------------------------------------------------------------------------
(* A bundle enters the branch queue.                                       *)
Alike(i, j) ==
  /\ i.pc = j.pc /\ i.next_pc = j.next_pc /\ i.branch = j.branch /\ i.type = j.type
  /\ i.target = j.target /\ i.done = j.done /\ i.taken = j.taken /\ i.fetch = j.fetch

Put(w, j, x) == [w EXCEPT ![j] = x]

LEMMA PutEffect ==
  ASSUME NEW w \in Seq(Insts), NEW j \in 1..Len(w), NEW x \in Insts
  PROVE  /\ Put(w, j, x) \in Seq(Insts) /\ Len(Put(w, j, x)) = Len(w)
         /\ Put(w, j, x)[j] = x
         /\ \A k \in 1..Len(w) : k # j => Put(w, j, x)[k] = w[k]
<1>1. PICK v : v = Put(w, j, x) /\ v = [w EXCEPT ![j] = x]
  BY DEF Put
<1>2. v \in Seq(Insts)
  BY <1>1
<1>3. Len(v) = Len(w)
  BY <1>1
<1>4. v[j] = x /\ \A k \in 1..Len(w) : k # j => v[k] = w[k]
  BY <1>1
<1> QED  BY <1>1, <1>2, <1>3, <1>4

Named(v, w, j, tag, phase) ==
  v = [w EXCEPT ![j].pred_tag = tag, ![j].pred_tag_phase = phase]

LEMMA NameEffect ==
  ASSUME NEW w \in Seq(Insts), NEW j \in 1..Len(w), NEW tag \in BQSlot,
         NEW phase \in BOOLEAN, NEW v, Named(v, w, j, tag, phase)
  PROVE  /\ v \in Seq(Insts) /\ Len(v) = Len(w)
         /\ \A k \in 1..Len(w) : k # j => v[k] = w[k]
         /\ v[j].pred_tag = tag /\ v[j].pred_tag_phase = phase /\ Alike(v[j], w[j])
<1>1. w[j] \in Insts
  OBVIOUS
<1>2. PICK a : a = [w[j] EXCEPT !.pred_tag = tag]
  OBVIOUS
<1>3. PICK b : b = [a EXCEPT !.pred_tag_phase = phase]
  OBVIOUS
<1>4. a \in Insts /\ a.pred_tag = tag /\ Alike(a, w[j])
  <2>1. a \in Insts
    BY <1>1, <1>2 DEF Insts
  <2>2. a.pred_tag = tag
    BY <1>1, <1>2 DEF Insts
  <2>3. Alike(a, w[j])
    BY <1>1, <1>2 DEF Insts, Alike
  <2> QED  BY <2>1, <2>2, <2>3
<1>5. b \in Insts /\ b.pred_tag = tag /\ b.pred_tag_phase = phase /\ Alike(b, w[j])
  <2>1. b \in Insts
    BY <1>3, <1>4 DEF Insts
  <2>2. b.pred_tag = tag
    BY <1>3, <1>4 DEF Insts
  <2>3. b.pred_tag_phase = phase
    BY <1>3, <1>4 DEF Insts
  <2>4. Alike(b, a)
    BY <1>3, <1>4 DEF Insts, Alike
  <2> QED  BY <2>1, <2>2, <2>3, <2>4, <1>4 DEF Alike
<1>6. v = Put(w, j, b)
  BY <1>2, <1>3 DEF Put, Named
<1>7. w \in Seq(Insts) /\ j \in 1..Len(w) /\ b \in Insts
  BY <1>5
<1>8. /\ v \in Seq(Insts) /\ Len(v) = Len(w) /\ v[j] = b
      /\ \A k \in 1..Len(w) : k # j => v[k] = w[k]
  BY ONLY <1>6, <1>7, PutEffect
<1> QED  BY <1>5, <1>8

EntryOf(e, i, start, cbID, misp) ==
  e = [branch_type |-> i.type, fetch_pc |-> start, fetch_cbID_in_bundle |-> cbID,
       taken |-> i.next_pc # Inc(i.pc), next_pc |-> i.next_pc, misp |-> misp]

LEMMA EntryOK ==
  ASSUME NEW i \in Insts, NEW start \in PC, NEW cbID \in Int, NEW misp \in BOOLEAN,
         NEW e, EntryOf(e, i, start, cbID, misp), i.type \in Direct => ~misp
  PROVE  /\ e \in BQEntries /\ Entered(e, i)
         /\ e.fetch_pc = start /\ e.fetch_cbID_in_bundle = cbID
<1>1. i.type \in BranchKinds /\ i.next_pc \in PC /\ (i.next_pc # Inc(i.pc)) \in BOOLEAN
  BY DEF Insts
<1>2. PICK taken \in BOOLEAN : taken = (i.next_pc # Inc(i.pc))
  BY <1>1
<1>3. e = [branch_type |-> i.type, fetch_pc |-> start, fetch_cbID_in_bundle |-> cbID,
           taken |-> taken, next_pc |-> i.next_pc, misp |-> misp]
  BY <1>2 DEF EntryOf
<1>4. e \in BQEntries
  BY <1>1, <1>3 DEF BQEntries
<1>5. /\ e.branch_type = i.type /\ e.next_pc = i.next_pc /\ e.taken = taken
      /\ e.misp = misp /\ e.fetch_pc = start /\ e.fetch_cbID_in_bundle = cbID
  BY <1>3
<1>6. Entered(e, i)
  BY <1>2, <1>5 DEF Entered
<1> QED  BY <1>4, <1>5, <1>6

(* The log of the predictor, when one more branch is logged.               *)
LEMMA LogEnter ==
  ASSUME NEW q \in Queues, NEW g \in Predictors, NEW w, NEW n \in Nat, NEW h,
         QueueOK(q, w, n), LoggedOK(q, g, w, n, h), g.context = h[n],
         Elders(Branches(w, n), n + 1) < bq_size,
         NEW v, \A k \in 1..n : SameEntry(v[k], w[k]) /\ v[k].fetch = w[k].fetch,
         v[n + 1].pred_tag = q.tail, NEW e \in BQEntries,
         IsCond(v[n + 1]) =>
           v[n + 1].fetch = <<e.fetch_pc, g.fetch2_bhr, e.fetch_cbID_in_bundle>>,
         NEW iscond \in BOOLEAN, NEW taken \in BOOLEAN
  PROVE  LoggedOK(push(q, e), GshareLog(g, q.tail, iscond, taken), v, n + 1, h)
<1> DEFINE r == push(q, e)
           f == GshareLog(g, q.tail, iscond, taken)
           l == [precise_bhr |-> g.context, fetch_bhr |-> g.fetch2_bhr]
<1>1. q.tail \in BQSlot /\ q.bq \in [BQSlot -> BQEntries]
      /\ g.log \in [BQSlot -> [precise_bhr : Int, fetch_bhr : Int]]
  BY DEF Queues, Predictors
<1>2. r.bq = [q.bq EXCEPT ![q.tail] = e] /\ f.log = [g.log EXCEPT ![q.tail] = l]
  <2>1. Logged(f, g, q.tail, iscond, taken)
    BY <1>1, LogEffect
  <2> HIDE DEF f
  <2> QED  BY <2>1, PushEffect DEF Logged
<1> HIDE DEF r, f
<1>3. ASSUME NEW k \in Branches(v, n + 1)
      PROVE  /\ f.log[v[k].pred_tag].precise_bhr = h[k - 1]
             /\ IsCond(v[k]) => v[k].fetch = <<r.bq[v[k].pred_tag].fetch_pc,
                                               f.log[v[k].pred_tag].fetch_bhr,
                                               r.bq[v[k].pred_tag].fetch_cbID_in_bundle>>
  <2>1. CASE k = n + 1
    <3>1. r.bq[v[k].pred_tag] = e /\ f.log[v[k].pred_tag] = l
      BY <2>1, <1>1, <1>2
    <3>2. l.precise_bhr = h[n] /\ l.fetch_bhr = g.fetch2_bhr /\ k - 1 = n
      BY <2>1
    <3> HIDE DEF l
    <3> QED  BY <3>1, <3>2, <2>1
  <2>2. CASE k # n + 1
    <3>1. k \in 1..n /\ v[k].branch
      BY <2>2 DEF Branches
    <3>2. SameEntry(v[k], w[k]) /\ v[k].fetch = w[k].fetch
      BY <3>1
    <3>3. k \in Branches(w, n) /\ v[k].pred_tag = w[k].pred_tag
          /\ (IsCond(v[k]) <=> IsCond(w[k]))
      BY <3>1, <3>2 DEF Branches, SameEntry, IsCond
    <3>4. w[k].pred_tag # q.tail /\ w[k].pred_tag \in BQSlot
      BY <3>3, QueueSlots
    <3>5. r.bq[w[k].pred_tag] = q.bq[w[k].pred_tag]
          /\ f.log[w[k].pred_tag] = g.log[w[k].pred_tag]
      BY <3>4, <1>1, <1>2
    <3>6. /\ g.log[w[k].pred_tag].precise_bhr = h[k - 1]
          /\ IsCond(w[k]) => w[k].fetch = <<q.bq[w[k].pred_tag].fetch_pc,
                                            g.log[w[k].pred_tag].fetch_bhr,
                                            q.bq[w[k].pred_tag].fetch_cbID_in_bundle>>
      BY <3>3 DEF LoggedOK
    <3> QED  BY <3>2, <3>3, <3>5, <3>6
  <2> QED  BY <2>1, <2>2
<1> QED  BY <1>3 DEF LoggedOK, r, f

(* A log that has the same at the slots of the branches.                   *)
LEMMA LogSame ==
  ASSUME NEW q, NEW g, NEW w, NEW n \in Nat, NEW h, LoggedOK(q, g, w, n, h),
         NEW r, NEW f, NEW v, NEW m \in Nat, m <= n, NEW i,
         \A k \in 1..m : SameEntry(v[k], w[k]) /\ v[k].fetch = w[k].fetch,
         \A k \in 0..m : i[k] = h[k],
         f.log = g.log, r.bq = q.bq
  PROVE  LoggedOK(r, f, v, m, i)
<1>1. ASSUME NEW k \in Branches(v, m)
      PROVE  /\ f.log[v[k].pred_tag].precise_bhr = i[k - 1]
             /\ IsCond(v[k]) => v[k].fetch = <<r.bq[v[k].pred_tag].fetch_pc,
                                               f.log[v[k].pred_tag].fetch_bhr,
                                               r.bq[v[k].pred_tag].fetch_cbID_in_bundle>>
  <2>1. k \in 1..m /\ v[k].branch /\ k \in 1..n /\ k - 1 \in 0..m
    BY DEF Branches
  <2>2. SameEntry(v[k], w[k]) /\ v[k].fetch = w[k].fetch /\ i[k - 1] = h[k - 1]
    BY <2>1
  <2>3. k \in Branches(w, n) /\ v[k].pred_tag = w[k].pred_tag
        /\ (IsCond(v[k]) <=> IsCond(w[k]))
    BY <2>1, <2>2 DEF Branches, SameEntry, IsCond
  <2> QED  BY <2>2, <2>3 DEF LoggedOK
<1> QED  BY <1>1 DEF LoggedOK

(* After k instructions of the bundle, the record s of the fold has the    *)
(* branches among them in its queue and logs.                              *)
Partial(s, k, h) ==
  /\ s.bq \in Queues /\ s.CBP \in Predictors /\ s.RBP \in Stacks
  /\ s.window \in Seq(Insts) /\ Len(s.window) = Len(Kept)
  /\ \A j \in 1..Len(Kept) : Alike(s.window[j], window[j])
  /\ s.cbID = Elders(Conds(window, BundleStart), k + 1)
  /\ s.CBP.bhr = CBP.bhr /\ s.CBP.fetch2_bhr = CBP.fetch2_bhr
  /\ s.CBP.context = h[BundleStart + k]
  /\ s.RBP.tail = s.bq.tail
  /\ QueueOK(s.bq, s.window, BundleStart + k)
  /\ LoggedOK(s.bq, s.CBP, s.window, BundleStart + k, h)

LEMMA PartialStep ==
  ASSUME TypeOK, StageInv, InstInv, IdleInv, fetch2.valid, ~Misfetch,
         NEW h, HistoryOK(h), NEW k \in 0..(Predecoded - 1),
         NEW s, Partial(s, k, h)
  PROVE  Partial(PushBranch(s, k), k + 1, h)
<1> DEFINE B == BundleStart
           n == B + k
           i == window[n + 1]
           M == Conds(window, B)
<1>1. /\ B \in Nat /\ Predecoded \in Nat /\ Len(window) \in Nat /\ Len(window) <= bq_size
      /\ Len(Kept) = B + Predecoded /\ Len(Kept) <= Len(window)
      /\ k \in Nat /\ n \in Nat /\ n + 1 \in 1..Len(Kept) /\ n + 1 \in 1..Len(window)
      /\ B + Predecoded <= B + InFetch2 /\ B + 1 + k = n + 1
      /\ i \in Insts /\ B + (k + 1) = n + 1
  <2>1. /\ B \in Nat /\ Predecoded \in 1..InFetch2 /\ InFetch2 \in Nat
        /\ Len(window) \in Nat /\ Len(window) <= bq_size
        /\ Len(Kept) = B + Predecoded /\ B + InFetch2 = Len(window)
    BY StageFacts, KeptFacts
  <2> HIDE DEF B
  <2>2. /\ k \in Nat /\ n + 1 \in 1..Len(window) /\ n \in Nat /\ n + 1 \in 1..Len(Kept)
        /\ B + 1 + k = n + 1 /\ B + (k + 1) = n + 1
    BY <2>1
  <2>3. i \in Insts
    BY <2>2, StageFacts
  <2> QED  BY <2>1, <2>2, <2>3
<1>2. Fetched(k) = i
  BY <1>1 DEF Fetched, B
<1>3. h[n + 1] = IF IsCond(i) THEN update_bhr(h[n], i.taken) ELSE h[n]
  <2>1. (n + 1) - 1 = n
    BY <1>1
  <2> QED  BY <1>1, <2>1 DEF HistoryOK, Follows
<1>4. Elders(M, (k + 1) + 1) = IF IsCond(i) THEN Elders(M, k + 1) + 1 ELSE Elders(M, k + 1)
  <2>1. k + 1 \in Nat \ {0} /\ k + 1 \in 1..(Len(window) - B)
    BY <1>1
  <2>2. k + 1 \in M <=> IsCond(i)
    BY <2>1, <1>1 DEF Conds
  <2> QED  BY <2>1, <2>2, EldersStep
<1>5. /\ s.bq \in Queues /\ s.CBP \in Predictors /\ s.RBP \in Stacks
      /\ s.window \in Seq(Insts) /\ Len(s.window) = Len(Kept)
      /\ \A j \in 1..Len(Kept) : Alike(s.window[j], window[j])
      /\ s.cbID = Elders(M, k + 1)
      /\ s.CBP.bhr = CBP.bhr /\ s.CBP.fetch2_bhr = CBP.fetch2_bhr
      /\ s.CBP.context = h[n] /\ s.RBP.tail = s.bq.tail
      /\ QueueOK(s.bq, s.window, n) /\ LoggedOK(s.bq, s.CBP, s.window, n, h)
  BY DEF Partial
<1>6. Alike(s.window[n + 1], i)
  BY <1>1, <1>5
<1>7. CASE ~i.branch
  <2>1. PushBranch(s, k) = s
    BY <1>2, <1>7 DEF PushBranch
  <2>2. ~IsCond(i) /\ ~s.window[n + 1].branch
    BY <1>6, <1>7 DEF IsCond, Alike
  <2>3. QueueOK(s.bq, s.window, n + 1)
    BY <1>1, <1>5, <2>2, QueuePass
  <2>4. LoggedOK(s.bq, s.CBP, s.window, n + 1, h)
    <3>1. Branches(s.window, n + 1) = Branches(s.window, n)
      BY <2>2, <1>1 DEF Branches
    <3> QED  BY <3>1, <1>5 DEF LoggedOK
  <2>5. s.CBP.context = h[n + 1] /\ s.cbID = Elders(M, (k + 1) + 1)
    BY <2>2, <1>3, <1>4, <1>5
  <2> QED  BY <2>1, <2>3, <2>4, <2>5, <1>1, <1>5 DEF Partial
<1>8. CASE i.branch
  <2>0. PICK iscond \in BOOLEAN, taken \in BOOLEAN :
          /\ iscond = (i.type = "BTB_BRANCH") /\ taken = (i.next_pc # Inc(i.pc))
    OBVIOUS
  <2>0a. PICK cbID : cbID = IF iscond THEN s.cbID ELSE 0
    OBVIOUS
  <2>1. (iscond <=> IsCond(i)) /\ cbID \in Int /\ fetch2.pc \in PC
    <3>1. Elders(M, k + 1) \in Nat
      <4>1. k + 1 \in Int
        BY <1>1
      <4> QED  BY <4>1, EldersFinite
    <3>2. cbID \in Int
      BY <3>1, <1>5, <2>0a
    <3>3. iscond <=> IsCond(i)
      BY <1>8, <2>0 DEF IsCond
    <3> QED  BY <3>2, <3>3 DEF TypeOK
  <2>2. iscond => (i.taken <=> taken)
    <3>1. fetch2.tc_hit => ~Misidentified(i)
      BY <1>1 DEF InstInv
    <3>2. ~fetch2.tc_hit => ~Misidentified(i)
      BY <1>2 DEF Misfetch
    <3>3. Predicts(i)
      BY <1>1 DEF InstInv
    <3> QED  BY <3>1, <3>2, <3>3, <2>0, <2>1 DEF Predicts
  <2>2a. PICK e : EntryOf(e, i, fetch2.pc, cbID, FALSE)
    BY DEF EntryOf
  <2>2b. PICK v : Named(v, s.window, n + 1, s.bq.tail, s.bq.tail_phase)
    BY DEF Named
  <2>2c. PICK g : g = GshareLog(s.CBP, s.bq.tail, iscond, taken)
    OBVIOUS
  <2>2d. PICK r : r = RASLogBranch(s.RBP, s.bq.tail, i.type)
    OBVIOUS
  <2>3. PushBranch(s, k)
          = [bq |-> push(s.bq, e), cbID |-> IF iscond THEN s.cbID + 1 ELSE s.cbID,
             CBP |-> g, RBP |-> r, window |-> v]
    BY <1>1, <1>2, <1>8, <2>0, <2>0a, <2>2a, <2>2b, <2>2c, <2>2d
       DEF PushBranch, EntryOf, Named
  <2>4. PICK t : /\ PushBranch(s, k) = t
                 /\ t.bq = push(s.bq, e) /\ t.CBP = g /\ t.RBP = r /\ t.window = v
                 /\ t.cbID = IF iscond THEN s.cbID + 1 ELSE s.cbID
    BY <2>3
  <2>5. s.bq.tail \in BQSlot /\ s.bq.tail_phase \in BOOLEAN
    BY <1>5 DEF Queues
  <2>6. /\ v \in Seq(Insts) /\ Len(v) = Len(Kept)
        /\ \A j \in 1..Len(Kept) : j # n + 1 => v[j] = s.window[j]
        /\ v[n + 1].pred_tag = s.bq.tail /\ v[n + 1].pred_tag_phase = s.bq.tail_phase
        /\ Alike(v[n + 1], s.window[n + 1])
    <3>1. /\ s.window \in Seq(Insts) /\ Len(s.window) = Len(Kept)
          /\ n + 1 \in 1..Len(s.window)
      BY <1>1, <1>5
    <3> HIDE DEF n
    <3> QED  BY ONLY <3>1, <2>2b, <2>5, NameEffect
  <2>7. Alike(v[n + 1], i) /\ v[n + 1] \in Insts
    BY <1>1, <1>6, <2>6 DEF Alike
  <2>8. /\ e \in BQEntries /\ Entered(e, i)
        /\ e.fetch_pc = fetch2.pc /\ e.fetch_cbID_in_bundle = cbID
    BY <1>1, <2>1, <2>2a, EntryOK, Zenon
  <2>9. Entered(e, v[n + 1])
    BY <2>7, <2>8 DEF Entered, Alike
  <2>10. Elders(Branches(s.window, n), n + 1) < bq_size
    <3>1. n + 1 \in Nat \ {0}
      BY <1>1
    <3>2. Elders(Branches(s.window, n), n + 1) <= (n + 1) - 1
      BY <3>1, EldersAtMost
    <3>3. Elders(Branches(s.window, n), n + 1) \in Nat /\ bq_size \in Nat
      BY <3>1, EldersFinite, SlotTypes
    <3> QED  BY <3>2, <3>3, <1>1
  <2>11. \A j \in 1..n : SameEntry(v[j], s.window[j]) /\ v[j].fetch = s.window[j].fetch
    <3>1. \A j \in 1..n : j \in 1..Len(Kept) /\ j # n + 1
      BY <1>1
    <3> QED  BY <3>1, <2>6 DEF SameEntry
  <2>12. QueueOK(t.bq, v, n + 1)
    <3>1. v[n + 1].branch /\ TagOf(v, n + 1) = <<s.bq.tail, s.bq.tail_phase>>
      BY <2>6, <2>7, <1>8 DEF TagOf, Alike
    <3> QED  BY <3>1, <1>1, <1>5, <2>4, <2>8, <2>9, <2>10, <2>11, QueueEnter
  <2>13. LoggedOK(t.bq, g, v, n + 1, h)
    <3>1. IsCond(v[n + 1]) =>
            v[n + 1].fetch = <<e.fetch_pc, s.CBP.fetch2_bhr, e.fetch_cbID_in_bundle>>
      <4> SUFFICES ASSUME IsCond(v[n + 1])
                   PROVE  v[n + 1].fetch = <<e.fetch_pc, s.CBP.fetch2_bhr,
                                             e.fetch_cbID_in_bundle>>
        OBVIOUS
      <4>1. IsCond(i) /\ iscond /\ v[n + 1].fetch = i.fetch
        BY <2>7, <2>1 DEF Alike, IsCond
      <4>2. k + 1 \in M /\ B + (k + 1) = n + 1
        BY <4>1, <1>1 DEF Conds
      <4>3. i.fetch = <<fetch2.pc, CBP.fetch2_bhr, Elders(M, k + 1)>>
        BY <4>2 DEF HistoryOK, FetchedOK
      <4> QED  BY <4>1, <4>3, <2>0a, <2>8, <1>5
    <3>2. /\ s.bq \in Queues /\ s.CBP \in Predictors /\ n \in Nat
          /\ QueueOK(s.bq, s.window, n) /\ LoggedOK(s.bq, s.CBP, s.window, n, h)
          /\ s.CBP.context = h[n] /\ v[n + 1].pred_tag = s.bq.tail
          /\ e \in BQEntries /\ iscond \in BOOLEAN /\ taken \in BOOLEAN
      BY <1>1, <1>5, <2>6, <2>8
    <3> HIDE DEF n
    <3>3. LoggedOK(push(s.bq, e), GshareLog(s.CBP, s.bq.tail, iscond, taken), v, n + 1, h)
      BY ONLY <3>1, <3>2, <2>10, <2>11, LogEnter
    <3> QED  BY <3>3, <2>4, <2>2c
  <2>14. /\ g \in Predictors /\ g.bhr = s.CBP.bhr /\ g.fetch2_bhr = s.CBP.fetch2_bhr
         /\ iscond => g.context = update_bhr(s.CBP.context, taken)
         /\ ~iscond => g.context = s.CBP.context
    <3>1. PICK f \in Predictors, id \in BQSlot : f = s.CBP /\ id = s.bq.tail
      BY <1>5, <2>5
    <3>2. g = GshareLog(f, id, iscond, taken)
      BY <3>1, <2>2c
    <3>3. Logged(g, f, id, iscond, taken)
      BY <3>2, LogEffect
    <3> QED  BY <3>1, <3>3 DEF Logged
  <2>15. g.context = h[n + 1]
    <3>1. iscond => update_bhr(h[n], i.taken) = update_bhr(h[n], taken)
      BY <2>1, <2>2 DEF update_bhr
    <3> QED  BY <3>1, <2>14, <1>3, <1>5, <2>1
  <2>16. r \in Stacks /\ r.tail = Next1(s.RBP.tail, bq_size)
    BY <1>5, <2>5, <2>2d, LogBranchEffect
  <2>17. t.bq \in Queues /\ t.bq.tail = Next1(s.bq.tail, bq_size)
    <3>1. PICK q \in Queues, d \in BQEntries : q = s.bq /\ d = e
      BY <1>5, <2>8
    <3>2. push(q, d) \in Queues /\ push(q, d).tail = Next1(q.tail, bq_size)
      BY PushEffect
    <3> QED  BY <3>1, <3>2, <2>4
  <2>18. \A j \in 1..Len(Kept) : Alike(v[j], window[j])
    BY <2>6, <2>7, <1>5
  <2>19. t.cbID = Elders(M, (k + 1) + 1)
    BY <2>1, <2>4, <1>4, <1>5
  <2> HIDE DEF n, M, i
  <2>20. Partial(t, k + 1, h)
    <3>1. B + (k + 1) = n + 1
      BY <1>1
    <3>2. /\ t.bq \in Queues /\ t.CBP \in Predictors /\ t.RBP \in Stacks
          /\ t.window \in Seq(Insts) /\ Len(t.window) = Len(Kept)
          /\ \A j \in 1..Len(Kept) : Alike(t.window[j], window[j])
      BY <2>4, <2>6, <2>14, <2>16, <2>17, <2>18
    <3>3. /\ t.cbID = Elders(M, (k + 1) + 1)
          /\ t.CBP.bhr = CBP.bhr /\ t.CBP.fetch2_bhr = CBP.fetch2_bhr
          /\ t.CBP.context = h[n + 1] /\ t.RBP.tail = t.bq.tail
      BY <1>5, <2>4, <2>14, <2>15, <2>16, <2>17, <2>19
    <3>4. QueueOK(t.bq, t.window, n + 1) /\ LoggedOK(t.bq, t.CBP, t.window, n + 1, h)
      BY <2>4, <2>12, <2>13
    <3> QED  BY <3>1, <3>2, <3>3, <3>4 DEF Partial, M, B
  <2> QED  BY <2>4, <2>20
<1> QED  BY <1>7, <1>8

PushStart == [bq |-> bq, cbID |-> 0, CBP |-> GshareLogBegin(CBP), RBP |-> RBP,
              window |-> Kept]
PushOrder == [k \in 1..Predecoded |-> k - 1]

LEMMA PartialStart ==
  ASSUME TypeOK, StageInv, InstInv, IdleInv, QueueInv, fetch2.valid,
         NEW h, HistoryOK(h)
  PROVE  Partial(PushStart, 0, h)
<1> DEFINE B == BundleStart
           M == Conds(window, B)
<1>1. /\ B \in Nat /\ Kept \in Seq(Insts) /\ Len(Kept) \in Nat /\ B <= Len(Kept)
      /\ \A k \in 1..Len(Kept) : Kept[k] = window[k]
  <2>1. /\ B \in Nat /\ Predecoded \in 1..InFetch2 /\ InFetch2 \in Nat
        /\ Kept \in Seq(Insts) /\ Len(Kept) = B + Predecoded
        /\ \A k \in 1..Len(Kept) : Kept[k] = window[k]
    BY StageFacts, KeptFacts
  <2> HIDE DEF B
  <2> QED  BY <2>1
<1>2. bq \in Queues /\ CBP \in Predictors /\ RBP \in Stacks
  BY DEF TypeOK
<1>3. PICK g : /\ g = GshareLogBegin(CBP) /\ g \in Predictors
               /\ g.bhr = CBP.bhr /\ g.context = CBP.fetch2_bhr
               /\ g.fetch2_bhr = CBP.fetch2_bhr /\ g.log = CBP.log
  BY <1>2, BeginEffect
<1>4. g.context = h[B]
  BY <1>3 DEF HistoryOK
<1>5. Elders(M, 1) = 0
  BY EldersFirst
<1> HIDE DEF B, M
<1>6. \A k \in 1..B : SameEntry(Kept[k], window[k]) /\ Kept[k].fetch = window[k].fetch
  <2>1. \A k \in 1..B : k \in 1..Len(Kept)
    BY <1>1
  <2> QED  BY <1>1, <2>1 DEF SameEntry
<1>7. QueueOK(bq, Kept, B)
  <2>1. QueueOK(bq, window, B)
    BY DEF QueueInv, B
  <2> QED  BY <2>1, <1>1, <1>6, QueueSame
<1>8. LoggedOK(bq, g, Kept, B, h)
  <2>1. LoggedOK(bq, CBP, window, B, h)
    BY DEF HistoryOK, B
  <2>2. B <= B
    BY <1>1
  <2> QED  BY <2>1, <2>2, <1>1, <1>3, <1>6, LogSame
<1>9. PICK s : /\ s = PushStart
               /\ s.bq = bq /\ s.CBP = g /\ s.RBP = RBP /\ s.window = Kept /\ s.cbID = 0
  <2>1. PICK c : c = GshareLogBegin(CBP) /\ c = g
    BY <1>3
  <2>2. PICK s : s = [bq |-> bq, cbID |-> 0, CBP |-> c, RBP |-> RBP, window |-> Kept]
    OBVIOUS
  <2>3. s = PushStart
    BY <2>1, <2>2 DEF PushStart
  <2>4. s.bq = bq /\ s.CBP = c /\ s.RBP = RBP /\ s.window = Kept /\ s.cbID = 0
    BY <2>2
  <2> QED  BY <2>1, <2>3, <2>4
<1>10. \A j \in 1..Len(Kept) : Alike(Kept[j], window[j])
  BY <1>1 DEF Alike
<1>11. s.cbID = Elders(M, 0 + 1) /\ B + 0 = B
  BY <1>1, <1>5, <1>9
<1>12. RBP.tail = bq.tail
  BY DEF QueueInv
<1> QED  BY <1>1, <1>2, <1>3, <1>4, <1>7, <1>8, <1>9, <1>10, <1>11, <1>12 DEF Partial, B, M

(* The records of the fold, one after each instruction of the bundle.      *)
PushedBy(f) ==
  /\ f[0] = PushStart
  /\ \A k \in 1..Predecoded : f[k] = PushBranch(f[k - 1], k - 1)
  /\ FoldLeft(PushBranch, PushStart, PushOrder) = f[Predecoded]

LEMMA PushSteps ==
  ASSUME TypeOK, StageInv, InstInv, IdleInv, fetch2.valid
  PROVE  \E f : PushedBy(f)
<1> DEFINE P == Predecoded
<1>1. P \in Nat
  <2>1. P \in 1..InFetch2 /\ InFetch2 \in Nat
    BY StageFacts, KeptFacts
  <2> QED  BY <2>1
<1> HIDE DEF P
<1>2. PICK seq : seq = PushOrder /\ seq \in Seq(Nat) /\ Len(seq) = P
                 /\ \A k \in 1..P : seq[k] = k - 1
  <2>1. PushOrder = [k \in 1..P |-> k - 1]
    BY DEF PushOrder, P
  <2>2. PushOrder \in Seq(Nat)
    BY <2>1, <1>1
  <2>3. Len(PushOrder) = P
    BY <2>1, <1>1
  <2>4. \A k \in 1..P : PushOrder[k] = k - 1
    BY <2>1
  <2> QED  BY <2>2, <2>3, <2>4
<1>3. FoldLeft(PushBranch, PushStart, seq) = Pushes!Fold(PushStart, seq)
  BY DEF FoldLeft, MapThenFoldSet, Max,
         Pushes!Fold, Pushes!Latest
<1>4. PICK f : /\ Pushes!Steps(f, PushStart, seq)
               /\ Pushes!Fold(PushStart, seq) = f[P]
  BY <1>2, WellOrder, Pushes!FoldSteps
<1>5. f[0] = PushStart /\ \A k \in 1..P : f[k] = PushBranch(f[k - 1], k - 1)
  BY <1>2, <1>4 DEF Pushes!Steps
<1>6. PushedBy(f)
  BY <1>2, <1>3, <1>4, <1>5 DEF PushedBy, P
<1> QED  BY <1>6

LEMMA PushBundle ==
  ASSUME TypeOK, StageInv, InstInv, IdleInv, QueueInv, fetch2.valid, ~Misfetch,
         NEW h, HistoryOK(h), NEW f, PushedBy(f)
  PROVE  \A k \in 0..Predecoded : Partial(f[k], k, h)
<1> DEFINE P == Predecoded
<1>1. P \in Nat
  <2>1. P \in 1..InFetch2 /\ InFetch2 \in Nat
    BY StageFacts, KeptFacts
  <2> QED  BY <2>1
<1>5. f[0] = PushStart /\ \A k \in 1..P : f[k] = PushBranch(f[k - 1], k - 1)
  BY DEF PushedBy
<1> HIDE DEF P
<1> DEFINE T == {k \in 0..P : ~Partial(f[k], k, h)}
<1>6. SUFFICES ASSUME T # {}  PROVE FALSE
  BY DEF P
<1>7. T \in SUBSET Nat
  BY <1>1
<1>8. PICK m \in T : \A y \in T : m <= y
  BY <1>6, <1>7, LeastNumber
<1>9. m # 0
  BY <1>5, <1>8, PartialStart
<1>10. /\ m \in 1..P /\ m - 1 \in 0..P /\ m - 1 \in 0..(P - 1)
       /\ m - 1 < m /\ (m - 1) + 1 = m
  BY <1>1, <1>8, <1>9
<1>11. m - 1 \notin T
  BY <1>8, <1>10
<1>12. Partial(f[m - 1], m - 1, h)
  BY <1>10, <1>11
<1>13. Partial(PushBranch(f[m - 1], m - 1), (m - 1) + 1, h)
  <2>1. m - 1 \in 0..(Predecoded - 1)
    BY <1>10 DEF P
  <2> QED  BY <2>1, <1>12, PartialStep
<1>14. f[m] = PushBranch(f[m - 1], m - 1)
  BY <1>5, <1>10
<1> QED  BY <1>8, <1>10, <1>13, <1>14

-----------------------------------------------------------------------------
(* What an action leaves of the invariant.                                 *)

(* Nothing is in Fetch2.                                                   *)
Drained ==
  /\ ~fetch2.valid /\ InFetch2 = 0
  /\ Len(window) \in Nat /\ Len(window) <= MaxWindow
  /\ decode \in Nat /\ decode <= Len(window)
  /\ fetch_active => \A p \in Bundle : ~FETCH2[p]

LEMMA DrainedStages ==
  ASSUME Drained'
  PROVE  /\ StageInv' /\ BundleStart' = Len(window')
         /\ \A start, bhr : FetchedOK(window', BundleStart', start, bhr)
<1>1. BundleStart' = Len(window')
  BY DEF Drained, BundleStart
<1>2. StageInv'
  <2>1. InFetch2' + decode' <= Len(window') /\ Len(window') <= MaxWindow
    BY DEF Drained
  <2>2. /\ IF fetch2'.valid THEN InFetch2' > 0 ELSE InFetch2' = 0
        /\ ~fetch2'.valid /\ fetch_active' => \A p \in Bundle : ~FETCH2'[p]
        /\ fetch2'.valid /\ Serializers' = {} =>
             \A p \in Bundle : FETCH2'[p] => p < InFetch2'
    BY DEF Drained
  <2> QED  BY <2>1, <2>2 DEF StageInv
<1>3. Conds(window', BundleStart') = {}
  BY <1>1 DEF Conds, Drained
<1> QED  BY <1>1, <1>2, <1>3 DEF FetchedOK

(* squash_fetch2 drains Fetch2.                                            *)
LEMMA SquashDrains ==
  ASSUME TypeOK, squash_fetch2
  PROVE  /\ ~fetch2'.valid /\ InFetch2' = 0
         /\ \A p \in Bundle : ~FETCH2'[p]
         /\ FETCH2' \in [Bundle -> BOOLEAN]
         /\ fetch2' \in [valid : BOOLEAN, pc : PC, tc_hit : BOOLEAN]
         /\ fetch2'.pc = fetch2.pc
<1>1. 0 \in Bundle
  BY FetchUnitAssumption DEF Bundle
<1>2. FETCH2' = [p \in Bundle |-> FALSE] /\ fetch2' = [fetch2 EXCEPT !.valid = FALSE]
  BY DEF squash_fetch2
<1>3. InFetch2' = 0
  BY <1>1, <1>2, NoneValid, InFetch2Valid
<1>4. /\ fetch2' \in [valid : BOOLEAN, pc : PC, tc_hit : BOOLEAN]
      /\ ~fetch2'.valid /\ fetch2'.pc = fetch2.pc
  BY <1>2 DEF TypeOK
<1> QED  BY <1>2, <1>3, <1>4

LEMMA AlikeSame ==
  ASSUME NEW i, NEW j, Alike(i, j)
  PROVE  /\ Predicts(j) => Predicts(i)
         /\ Misidentified(i) <=> Misidentified(j)
         /\ IsCond(i) <=> IsCond(j)
<1>1. Misidentified(i) <=> Misidentified(j)
  BY DEF Alike, Misidentified
<1>2. IsCond(i) <=> IsCond(j)
  BY DEF Alike, IsCond
<1> QED  BY <1>1, <1>2 DEF Alike, Predicts

(* The history of a window that is cut short.                              *)
LEMMA FollowsPrefix ==
  ASSUME NEW h, NEW base, NEW w, Follows(h, base, w), Len(w) \in Nat,
         NEW v, Len(v) \in Nat, Len(v) <= Len(w),
         \A k \in 1..Len(v) : Alike(v[k], w[k])
  PROVE  Follows(h, base, v)
<1> SUFFICES ASSUME NEW k \in 1..Len(v)
             PROVE  h[k] = IF IsCond(v[k]) THEN update_bhr(h[k - 1], v[k].taken)
                           ELSE h[k - 1]
  BY DEF Follows
<1>1. k \in 1..Len(w) /\ Alike(v[k], w[k])
  OBVIOUS
<1>2. (IsCond(v[k]) <=> IsCond(w[k])) /\ v[k].taken = w[k].taken
  BY <1>1, AlikeSame DEF Alike
<1> QED  BY <1>1, <1>2 DEF Follows

LEMMA AdvanceInv ==
  ASSUME Inv, Fetch2Advance
  PROVE  Inv'
<1>0. TypeOK /\ StageInv /\ InstInv /\ IdleInv /\ QueueInv /\ HistoryInv
  BY DEF Inv
<1>1. PICK h : HistoryOK(h)
  BY <1>0 DEF HistoryInv
<1>2. fetch2.valid /\ ~Misfetch
  BY DEF Fetch2Advance
<1> DEFINE B == BundleStart
           P == Predecoded
<1>3. /\ B \in Nat /\ P \in Nat /\ P > 0 /\ P <= InFetch2 /\ InFetch2 \in Nat
      /\ Len(window) \in Nat /\ B + InFetch2 = Len(window) /\ Len(window) <= MaxWindow
      /\ Len(Kept) = B + P /\ Len(Kept) <= Len(window) /\ MaxWindow \in Nat
  <2>1. /\ B \in Nat /\ P \in 1..InFetch2 /\ InFetch2 \in Nat
        /\ Len(window) \in Nat /\ B + InFetch2 = Len(window) /\ Len(window) <= MaxWindow
        /\ Len(Kept) = B + P /\ Len(Kept) <= Len(window)
    BY <1>0, <1>2, StageFacts, KeptFacts
  <2>2. MaxWindow \in Nat
    BY FetchUnitAssumption, BranchQueueAssumption
  <2> HIDE DEF B, P
  <2> QED  BY <2>1, <2>2
<1>4. /\ Serializers = {} => P = InFetch2
      /\ Serializers # {} => P - 1 \in Serializers
      /\ \A k \in 1..B : ~Stops(window, k)
      /\ \A k \in 1..Len(Kept) : k > B /\ Stops(window, k) => k = Len(Kept) /\ Idles
      /\ Idles \/ ~fetch_active => Stops(window, Len(Kept))
  BY <1>0, <1>2, KeptFacts
<1>5. ~Idles => Serializers = {} /\ P = InFetch2 /\ Len(Kept) = Len(window)
  BY <1>0, <1>2, <1>4, KeptFacts
<1>6. PICK s : s = FoldLeft(PushBranch, PushStart, PushOrder) /\ Partial(s, P, h)
  <2>1. PICK f : PushedBy(f)
    BY <1>0, <1>2, PushSteps
  <2>2. P \in 0..P
    BY <1>3
  <2>3. Partial(f[P], P, h)
    BY <2>1, <2>2, <1>0, <1>1, <1>2, PushBundle
  <2> QED  BY <2>1, <2>3 DEF PushedBy
<1>7. /\ bq' = s.bq /\ CBP' = s.CBP /\ RBP' = s.RBP /\ window' = s.window
      /\ decode' = P /\ fetch_active' = (fetch_active /\ ~Idles)
      /\ FETCH2' = [p \in Bundle |-> Invalidated[p] /\ p >= P]
      /\ fetch2' = [fetch2 EXCEPT !.valid = FALSE]
      /\ pc' = pc /\ base_bhr' = base_bhr /\ base_stack' = base_stack
  BY <1>6 DEF Fetch2Advance, PushStart, PushOrder
<1>8. /\ bq' \in Queues /\ CBP' \in Predictors /\ RBP' \in Stacks
      /\ window' \in Seq(Insts) /\ Len(window') = Len(Kept)
      /\ \A j \in 1..Len(Kept) : Alike(window'[j], window[j])
      /\ CBP'.bhr = CBP.bhr /\ CBP'.fetch2_bhr = CBP.fetch2_bhr
      /\ RBP'.tail = bq'.tail
      /\ QueueOK(bq', window', Len(Kept)) /\ LoggedOK(bq', CBP', window', Len(Kept), h)
  BY <1>3, <1>6, <1>7 DEF Partial
<1> HIDE DEF B, P
<1>9. 0 \in Bundle /\ ~FETCH2'[0]
  <2>1. 0 \in Bundle
    BY FetchUnitAssumption DEF Bundle
  <2>2. FETCH2'[0] => 0 >= P
    BY <2>1, <1>7
  <2> QED  BY <2>1, <2>2, <1>3
<1>10. InFetch2' = 0
  BY <1>9, NoneValid, InFetch2Valid
<1>11. TypeOK'
  <2>1. /\ fetch2' \in [valid : BOOLEAN, pc : PC, tc_hit : BOOLEAN]
        /\ FETCH2' \in [Bundle -> BOOLEAN] /\ decode' \in Nat
    <3>1. fetch2' \in [valid : BOOLEAN, pc : PC, tc_hit : BOOLEAN]
      BY <1>0, <1>7 DEF TypeOK
    <3>2. \A p \in Bundle : (Invalidated[p] /\ p >= P) \in BOOLEAN
      OBVIOUS
    <3>3. FETCH2' \in [Bundle -> BOOLEAN]
      BY <3>2, <1>7
    <3> QED  BY <3>1, <3>3, <1>3, <1>7
  <2>2. fetch_active' \in BOOLEAN
    BY <1>7
  <2> QED  BY <2>1, <2>2, <1>0, <1>7, <1>8 DEF TypeOK
<1>12. Drained'
  <2>1. ASSUME fetch_active', NEW p \in Bundle
        PROVE  ~FETCH2'[p]
    <3>1. ~Idles
      BY <2>1, <1>7
    <3>2. Serializers = {} /\ P = InFetch2
      BY <3>1, <1>5
    <3>3. FETCH2[p] => p < InFetch2
      BY <3>2, <1>0, <1>2 DEF StageInv
    <3>4. FETCH2'[p] => FETCH2[p] /\ p >= P
      BY <1>7 DEF Invalidated
    <3>5. p \in Int
      BY DEF Bundle
    <3> QED  BY <3>2, <3>3, <3>4, <3>5, <1>3
  <2>2. ~fetch2'.valid
    BY <1>0, <1>7 DEF TypeOK
  <2>3. /\ Len(window') \in Nat /\ Len(window') <= MaxWindow
        /\ decode' \in Nat /\ decode' <= Len(window')
    BY <1>3, <1>7, <1>8
  <2> QED  BY <2>1, <2>2, <2>3, <1>10 DEF Drained
<1>13. StageInv' /\ BundleStart' = Len(Kept)
       /\ FetchedOK(window', BundleStart', fetch2'.pc, CBP'.fetch2_bhr)
  BY <1>8, <1>12, DrainedStages
<1>14. InstInv'
  <2>1. ASSUME NEW k \in 1..Len(Kept)
        PROVE  Predicts(window'[k]) /\ ~Misidentified(window'[k])
    <3>1. k \in 1..Len(window) /\ Alike(window'[k], window[k])
      BY <1>3, <1>8
    <3>2. Predicts(window[k])
      BY <3>1, <1>0 DEF InstInv
    <3>3. ~Misidentified(window[k])
      <4>1. CASE k <= B \/ fetch2.tc_hit
        BY <4>1, <3>1, <1>0 DEF InstInv, B
      <4>2. CASE k > B /\ ~fetch2.tc_hit
        <5>1. k - B - 1 \in 0..(P - 1) /\ B + 1 + (k - B - 1) = k
          BY <1>3, <4>2
        <5>2. Fetched(k - B - 1) = window[k]
          BY <5>1 DEF Fetched, B
        <5> QED  BY <5>1, <5>2, <4>2, <1>2 DEF Misfetch, P
      <4> QED  BY <4>1, <4>2, <1>3
    <3> QED  BY <3>1, <3>2, <3>3, AlikeSame
  <2>2. \A k \in 1..Len(window') : ~(k > BundleStart')
    BY <1>8, <1>13, <1>3
  <2> QED  BY <2>1, <2>2, <1>8 DEF InstInv
<1>15. IdleInv'
  <2>1. \A k \in 1..Len(Kept) : Stops(window', k) <=> Stops(window, k)
    BY <1>8 DEF Stops, Alike
  <2>2. Len(Kept) \in 1..Len(Kept)
    BY <1>3
  <2>3. ~fetch_active' => window' # <<>> /\ Stops(window', Len(window'))
    <3>1. window' # <<>>
      BY <1>3, <1>8
    <3> QED  BY <3>1, <2>1, <2>2, <1>4, <1>7, <1>8
  <2>4. ASSUME NEW k \in 1..Len(Kept), Stops(window', k)
        PROVE  k = Len(window') /\ ~fetch_active'
    <3>1. Stops(window, k)
      BY <2>1, <2>4
    <3>2. k > B
      BY <3>1, <1>3, <1>4
    <3> QED  BY <3>1, <3>2, <1>4, <1>7, <1>8
  <2> QED  BY <2>3, <2>4, <1>13 DEF IdleInv
<1>16. QueueInv'
  BY <1>8, <1>13 DEF QueueInv
<1>17. HistoryOK(h)'
  <2>1. Follows(h, base_bhr', window')
    <3>1. Follows(h, base_bhr, window)
      BY <1>1 DEF HistoryOK
    <3>2. /\ Len(window) \in Nat /\ Len(window') \in Nat /\ Len(window') <= Len(window)
          /\ \A j \in 1..Len(window') : Alike(window'[j], window[j])
      BY <1>3, <1>8
    <3>3. Follows(h, base_bhr, window')
      BY ONLY <3>1, <3>2, FollowsPrefix
    <3> QED  BY <3>3, <1>7
  <2>2. fetch_active' => CBP'.bhr = h[Len(window')]
    BY <1>1, <1>5, <1>7, <1>8 DEF HistoryOK
  <2>3. ~fetch2'.valid
    BY <1>12 DEF Drained
  <2> QED  BY <2>1, <2>2, <2>3, <1>8, <1>13 DEF HistoryOK
<1> QED  BY <1>11, <1>13, <1>14, <1>15, <1>16, <1>17 DEF Inv, HistoryInv

LEMMA CutEffect ==
  ASSUME NEW w \in Seq(Insts), NEW n \in 0..Len(w)
  PROVE  /\ SubSeq(w, 1, n) \in Seq(Insts) /\ Len(SubSeq(w, 1, n)) = n
         /\ \A k \in 1..n : SubSeq(w, 1, n)[k] = w[k]
OBVIOUS

LEMMA AlikeSelf ==
  ASSUME NEW i, NEW j, i = j
  PROVE  Alike(i, j) /\ SameEntry(i, j) /\ i.fetch = j.fetch
BY DEF Alike, SameEntry

LEMMA MisfetchInv ==
  ASSUME Inv, Fetch2Misfetch
  PROVE  Inv'
<1>0. TypeOK /\ StageInv /\ InstInv /\ IdleInv /\ QueueInv /\ HistoryInv
  BY DEF Inv
<1>1. PICK h : HistoryOK(h)
  BY <1>0 DEF HistoryInv
<1> DEFINE B == BundleStart
<1>2. /\ fetch2.valid /\ fetch_active' /\ squash_fetch2 /\ pc' = fetch2.pc
      /\ CBP' = GshareRestore(CBP) /\ RBP' = RASRestoreContext(RBP)
      /\ window' = SubSeq(window, 1, B)
      /\ decode' = decode /\ bq' = bq /\ base_bhr' = base_bhr /\ base_stack' = base_stack
  BY DEF Fetch2Misfetch
<1>2a. fetch_active' = TRUE
  BY DEF Fetch2Misfetch
<1>3. /\ B \in Nat /\ InFetch2 \in Nat /\ InFetch2 > 0 /\ decode \in Nat /\ decode <= B
      /\ Len(window) \in Nat /\ B + InFetch2 = Len(window) /\ Len(window) <= MaxWindow
      /\ MaxWindow \in Nat
  <2>1. /\ B \in Nat /\ InFetch2 \in Nat /\ decode \in Nat /\ decode <= B
        /\ Len(window) \in Nat /\ B + InFetch2 = Len(window) /\ Len(window) <= MaxWindow
    BY <1>0, StageFacts
  <2>2. MaxWindow \in Nat /\ InFetch2 > 0
    BY <1>0, <1>2, FetchUnitAssumption, BranchQueueAssumption DEF StageInv
  <2> QED  BY <2>1, <2>2
<1> HIDE DEF B
<1>4. /\ window' \in Seq(Insts) /\ Len(window') = B
      /\ \A k \in 1..B : window'[k] = window[k] /\ k \in 1..Len(window)
  <2>1. window \in Seq(Insts) /\ B \in 0..Len(window)
    BY <1>0, <1>3 DEF TypeOK
  <2>2. \A k \in 1..B : k \in 1..Len(window)
    BY <1>3
  <2> QED  BY <2>1, <2>2, <1>2, CutEffect
<1>5. /\ CBP' \in Predictors /\ CBP'.bhr = CBP.fetch2_bhr /\ CBP'.log = CBP.log
  BY <1>0, <1>2, RestoreEffect DEF TypeOK
<1>6. RBP' \in Stacks /\ RBP'.tail = RBP.tail
  BY <1>0, <1>2, RestoreContextEffect DEF TypeOK
<1>7. /\ ~fetch2'.valid /\ InFetch2' = 0 /\ \A p \in Bundle : ~FETCH2'[p]
      /\ FETCH2' \in [Bundle -> BOOLEAN]
      /\ fetch2' \in [valid : BOOLEAN, pc : PC, tc_hit : BOOLEAN]
  BY <1>0, <1>2, SquashDrains
<1>8. TypeOK'
  BY <1>0, <1>2, <1>2a, <1>4, <1>5, <1>6, <1>7 DEF TypeOK
<1>9. Drained'
  BY <1>2, <1>3, <1>4, <1>7 DEF Drained
<1>10. StageInv' /\ BundleStart' = B
       /\ FetchedOK(window', BundleStart', fetch2'.pc, CBP'.fetch2_bhr)
  BY <1>4, <1>9, DrainedStages
<1>11. InstInv'
  <2>1. \A k \in 1..B : Predicts(window'[k]) /\ ~Misidentified(window'[k])
    BY <1>0, <1>4 DEF InstInv, B
  <2>2. \A k \in 1..Len(window') : ~(k > BundleStart')
    BY <1>3, <1>4, <1>10
  <2> QED  BY <2>1, <2>2, <1>4 DEF InstInv
<1>12. IdleInv'
  <2>1. ASSUME NEW k \in 1..B, Stops(window', k)
        PROVE  FALSE
    <3>1. Stops(window, k)
      BY <2>1, <1>4 DEF Stops
    <3>2. k = Len(window)
      BY <3>1, <1>0 DEF IdleInv, B
    <3> QED  BY <3>2, <1>3
  <2> QED  BY <2>1, <1>2, <1>10 DEF IdleInv
<1>13. QueueInv'
  <2>1. QueueOK(bq, window, B)
    BY <1>0 DEF QueueInv, B
  <2>2. \A k \in 1..B : SameEntry(window'[k], window[k])
    BY <1>4, AlikeSelf
  <2>3. QueueOK(bq, window', B)
    BY <2>1, <2>2, <1>3, QueueSame
  <2> QED  BY <2>3, <1>0, <1>2, <1>6, <1>10 DEF QueueInv
<1>14. HistoryOK(h)'
  <2>1. \A k \in 1..B : /\ Alike(window'[k], window[k])
                        /\ SameEntry(window'[k], window[k])
                        /\ window'[k].fetch = window[k].fetch
    BY <1>4, AlikeSelf
  <2>2. Follows(h, base_bhr', window')
    <3>1. Follows(h, base_bhr, window)
      BY <1>1 DEF HistoryOK
    <3>2. /\ Len(window) \in Nat /\ Len(window') \in Nat /\ Len(window') <= Len(window)
          /\ \A j \in 1..Len(window') : Alike(window'[j], window[j])
      BY <2>1, <1>3, <1>4
    <3>3. Follows(h, base_bhr, window')
      BY ONLY <3>1, <3>2, FollowsPrefix
    <3> QED  BY <3>3, <1>2
  <2>3. LoggedOK(bq', CBP', window', B, h)
    <3>1. LoggedOK(bq, CBP, window, B, h)
      BY <1>1 DEF HistoryOK, B
    <3>2. B <= B /\ CBP'.log = CBP.log /\ bq'.bq = bq.bq
      BY <1>2, <1>3, <1>5
    <3> QED  BY <3>1, <3>2, <2>1, <1>3, LogSame
  <2>4. CBP'.bhr = h[Len(window')]
    BY <1>1, <1>2, <1>4, <1>5 DEF HistoryOK, B
  <2> QED  BY <2>2, <2>3, <2>4, <1>7, <1>10 DEF HistoryOK
<1> QED  BY <1>8, <1>10, <1>11, <1>12, <1>13, <1>14 DEF Inv, HistoryInv

(* A stalled Fetch2 keeps its bundle, up to a serializing instruction.     *)
LEMMA StallStays ==
  ASSUME Inv, Fetch2Stall
  PROVE  InFetch2' = Predecoded /\ BundleStart' = BundleStart
<1>0. TypeOK /\ StageInv /\ InstInv /\ IdleInv
  BY DEF Inv
<1> DEFINE B == BundleStart
           P == Predecoded
<1>2. fetch2.valid /\ window' = Kept /\ FETCH2' = Invalidated
  BY DEF Fetch2Stall
<1>3. /\ B \in Nat /\ P \in Nat /\ P > 0 /\ P <= InFetch2 /\ InFetch2 \in Nat
      /\ InFetch2 <= instr_per_cycle /\ instr_per_cycle \in Nat
      /\ Len(Kept) = B + P
  <2>1. /\ B \in Nat /\ P \in 1..InFetch2 /\ InFetch2 \in 0..instr_per_cycle
        /\ Len(Kept) = B + P /\ instr_per_cycle \in Nat
    BY <1>0, <1>2, StageFacts, KeptFacts
  <2> HIDE DEF B, P
  <2> QED  BY <2>1
<1>4. Serializers = {} => P = InFetch2
  BY <1>0, <1>2, KeptFacts
<1> HIDE DEF B, P
<1>6. Len(window') = B + P
  BY <1>2, <1>3
<1>7. InFetch2' = P
  <2>1. PICK m \in 0..instr_per_cycle :
          /\ InFetch2 = m /\ \A q \in 0..(m - 1) : FETCH2[q]
          /\ m < instr_per_cycle => ~FETCH2[m]
    BY InFetch2Valid, ValidHas
  <2>2. \A p \in Bundle :
          Invalidated[p] <=> FETCH2[p] /\ ~(Serializers # {} /\ p = P)
    BY DEF Invalidated, P
  <2>3. \A q \in 0..(P - 1) : Invalidated[q]
    <3>1. \A q \in 0..(P - 1) : q \in Bundle /\ q \in 0..(m - 1) /\ q # P
      BY <2>1, <1>3 DEF Bundle
    <3> QED  BY <3>1, <2>1, <2>2
  <2>4. P < instr_per_cycle => ~Invalidated[P]
    <3> SUFFICES ASSUME P < instr_per_cycle, Invalidated[P]
                 PROVE  FALSE
      OBVIOUS
    <3>1. P \in Bundle
      BY <1>3 DEF Bundle
    <3>2. FETCH2[P] /\ Serializers = {}
      BY <3>1, <2>2
    <3> QED  BY <3>2, <2>1, <1>4
  <2>5. P \in 0..instr_per_cycle
    BY <1>3
  <2>6. Valid(Invalidated) = P
    BY <2>3, <2>4, <2>5, ValidIs
  <2> QED  BY <2>6, <1>2, InFetch2Valid
<1>8. BundleStart' = B
  BY <1>3, <1>6, <1>7 DEF BundleStart
<1> QED  BY <1>7, <1>8 DEF B, P

LEMMA StallInv ==
  ASSUME Inv, Fetch2Stall
  PROVE  Inv'
<1>0. TypeOK /\ StageInv /\ InstInv /\ IdleInv /\ QueueInv /\ HistoryInv
  BY DEF Inv
<1>1. PICK h : HistoryOK(h)
  BY <1>0 DEF HistoryInv
<1> DEFINE B == BundleStart
           P == Predecoded
<1>2. /\ fetch2.valid /\ window' = Kept /\ FETCH2' = Invalidated
      /\ fetch_active' = (fetch_active /\ ~Idles)
      /\ pc' = pc /\ fetch2' = fetch2 /\ decode' = decode /\ bq' = bq
      /\ CBP' = CBP /\ RBP' = RBP /\ base_bhr' = base_bhr /\ base_stack' = base_stack
  BY DEF Fetch2Stall
<1>3. /\ B \in Nat /\ P \in Nat /\ P > 0 /\ P <= InFetch2 /\ InFetch2 \in Nat
      /\ InFetch2 <= instr_per_cycle /\ instr_per_cycle \in Nat
      /\ Len(window) \in Nat /\ B + InFetch2 = Len(window) /\ Len(window) <= MaxWindow
      /\ Len(Kept) = B + P /\ Len(Kept) <= Len(window) /\ MaxWindow \in Nat
      /\ decode \in Nat /\ decode <= B
  <2>1. /\ B \in Nat /\ P \in 1..InFetch2 /\ InFetch2 \in 0..instr_per_cycle
        /\ Len(window) \in Nat /\ B + InFetch2 = Len(window) /\ Len(window) <= MaxWindow
        /\ Len(Kept) = B + P /\ Len(Kept) <= Len(window) /\ instr_per_cycle \in Nat
        /\ decode \in Nat /\ decode <= B
    BY <1>0, <1>2, StageFacts, KeptFacts
  <2>2. MaxWindow \in Nat
    BY FetchUnitAssumption, BranchQueueAssumption
  <2> HIDE DEF B, P
  <2> QED  BY <2>1, <2>2
<1>4. /\ Serializers = {} => P = InFetch2
      /\ Serializers # {} => P - 1 \in Serializers
      /\ \A k \in 1..B : ~Stops(window, k)
      /\ \A k \in 1..Len(Kept) : k > B /\ Stops(window, k) => k = Len(Kept) /\ Idles
      /\ Idles \/ ~fetch_active => Stops(window, Len(Kept))
      /\ Kept \in Seq(Insts) /\ \A k \in 1..Len(Kept) : Kept[k] = window[k]
  BY <1>0, <1>2, KeptFacts
<1> HIDE DEF B, P
<1>5. ~Idles => Len(Kept) = Len(window)
  BY <1>0, <1>2, KeptFacts
<1>6. /\ window' \in Seq(Insts) /\ Len(window') = Len(Kept) /\ Len(window') = B + P
      /\ \A k \in 1..Len(Kept) : window'[k] = window[k] /\ k \in 1..Len(window)
  BY <1>2, <1>3, <1>4
<1>7. InFetch2' = P
  BY StallStays DEF P
<1>8. BundleStart' = B
  BY StallStays DEF B
<1>9. TypeOK'
  <2>1. \A p \in Bundle : (FETCH2[p] /\ ~(Serializers # {} /\ p = Predecoded)) \in BOOLEAN
    OBVIOUS
  <2>2. FETCH2' \in [Bundle -> BOOLEAN]
    BY <2>1, <1>2 DEF Invalidated
  <2>3. fetch_active' \in BOOLEAN
    BY <1>2
  <2> QED  BY <2>2, <2>3, <1>0, <1>2, <1>6 DEF TypeOK
<1>10. StageInv'
  <2>1. InFetch2' + decode' <= Len(window') /\ Len(window') <= MaxWindow
    BY <1>2, <1>3, <1>6, <1>7
  <2>2. fetch2'.valid /\ InFetch2' > 0
    BY <1>2, <1>3, <1>7
  <2>3. ASSUME Serializers' = {}, NEW p \in Bundle, FETCH2'[p]
        PROVE  p < InFetch2'
    <3>1. Serializers = {}
      <4>1. SUFFICES ASSUME Serializers # {}
                     PROVE  \E z : z \in Serializers'
        BY <2>3
      <4>2. PICK z \in 0..(P - 1) : z = P - 1 /\ B + 1 + z = B + P
        BY <1>3
      <4>3. Kind(P - 1) = "serialize"
        BY <1>4, <4>1 DEF Serializers
      <4>4. Program[window[B + P].pc].kind = "serialize"
        BY <4>2, <4>3 DEF Kind, Fetched, B
      <4>5. B + P \in 1..Len(Kept)
        BY <1>3
      <4>6. window'[B + P] = window[B + P]
        BY <4>5, <1>6
      <4>7. z \in 0..(InFetch2' - 1) /\ BundleStart' + 1 + z = B + P
        BY <4>2, <1>7, <1>8
      <4>8. Program[window'[BundleStart' + 1 + z].pc].kind = "serialize"
        BY <4>4, <4>6, <4>7
      <4>9. z \in Serializers'
        BY <4>7, <4>8 DEF Serializers, Kind, Fetched
      <4> QED  BY <4>9
    <3>2. FETCH2[p]
      BY <2>3, <1>2 DEF Invalidated
    <3> QED  BY <3>1, <3>2, <1>0, <1>2, <1>4, <1>7 DEF StageInv
  <2> QED  BY <2>1, <2>2, <2>3 DEF StageInv
<1>11. InstInv'
  <2>1. \A k \in 1..Len(Kept) : Predicts(window'[k])
    BY <1>0, <1>6 DEF InstInv
  <2>2. \A k \in 1..Len(Kept) :
          k <= B \/ fetch2'.tc_hit => ~Misidentified(window'[k])
    BY <1>0, <1>2, <1>6 DEF InstInv, B
  <2>3. ASSUME NEW k \in 1..Len(Kept), k > B, Program[window'[k].pc].kind = "fault"
        PROVE  k = Len(Kept)
    <3>1. Stops(window, k)
      BY <2>3, <1>6 DEF Stops
    <3> QED  BY <3>1, <2>3, <1>4
  <2> QED  BY <2>1, <2>2, <2>3, <1>6, <1>8 DEF InstInv
<1>12. IdleInv'
  <2>1. \A k \in 1..Len(Kept) : Stops(window', k) <=> Stops(window, k)
    BY <1>6 DEF Stops
  <2>2. Len(Kept) \in 1..Len(Kept) /\ \A k \in 1..B : k \in 1..Len(Kept)
    BY <1>3
  <2>3. ~fetch_active' => window' # <<>> /\ Stops(window', Len(window'))
    <3>1. window' # <<>>
      BY <1>3, <1>6
    <3> QED  BY <3>1, <2>1, <2>2, <1>2, <1>4, <1>6
  <2>4. \A k \in 1..B : ~Stops(window', k)
    BY <2>1, <2>2, <1>4
  <2> QED  BY <2>3, <2>4, <1>8 DEF IdleInv
<1>13. \A k \in 1..Len(Kept) : /\ Alike(window'[k], window[k])
                               /\ SameEntry(window'[k], window[k])
                               /\ window'[k].fetch = window[k].fetch
  BY <1>6, AlikeSelf
<1>14. \A k \in 1..B : k \in 1..Len(Kept)
  BY <1>3
<1>15. QueueInv'
  <2>1. QueueOK(bq, window, B)
    BY <1>0 DEF QueueInv, B
  <2>2. \A k \in 1..B : SameEntry(window'[k], window[k])
    BY <1>13, <1>14
  <2>3. QueueOK(bq, window', B)
    BY <2>1, <2>2, <1>3, QueueSame
  <2> QED  BY <2>3, <1>0, <1>2, <1>8 DEF QueueInv
<1>16. HistoryOK(h)'
  <2>2. Follows(h, base_bhr', window')
    <3>1. Follows(h, base_bhr, window)
      BY <1>1 DEF HistoryOK
    <3>2. /\ Len(window) \in Nat /\ Len(window') \in Nat /\ Len(window') <= Len(window)
          /\ \A j \in 1..Len(window') : Alike(window'[j], window[j])
      BY <1>13, <1>3, <1>6
    <3>3. Follows(h, base_bhr, window')
      BY ONLY <3>1, <3>2, FollowsPrefix
    <3> QED  BY <3>3, <1>2
  <2>3. LoggedOK(bq', CBP', window', B, h)
    <3>1. LoggedOK(bq, CBP, window, B, h)
      BY <1>1 DEF HistoryOK, B
    <3>2. B <= B /\ CBP'.log = CBP.log /\ bq'.bq = bq.bq
      BY <1>2, <1>3
    <3> QED  BY <3>1, <3>2, <1>13, <1>14, <1>3, LogSame
  <2>4. fetch_active' => CBP'.bhr = h[Len(window')]
    BY <1>1, <1>2, <1>5, <1>6 DEF HistoryOK
  <2>5. CBP'.fetch2_bhr = h[B]
    BY <1>1, <1>2 DEF HistoryOK, B
  <2>6. FetchedOK(window', B, fetch2'.pc, CBP'.fetch2_bhr)
    <3> DEFINE M == Conds(window, B)
               N == Conds(window', B)
    <3>1. \A j \in 1..P : B + j \in 1..Len(Kept)
      BY <1>3
    <3>2. \A j \in 1..P : window'[B + j] = window[B + j]
      BY <3>1, <1>6
    <3>3. \A j \in 1..P : j \in M <=> j \in N
      <4>1. \A j \in 1..P : j \in 1..(Len(window) - B) /\ j \in 1..(Len(window') - B)
        BY <1>3, <1>6
      <4> QED  BY <4>1, <3>2 DEF Conds
    <3>4. \A j \in N : j \in 1..P
      BY <1>3, <1>6 DEF Conds
    <3> HIDE DEF M, N
    <3>5. ASSUME NEW j \in N
          PROVE  window'[B + j].fetch = <<fetch2.pc, CBP.fetch2_bhr, Elders(N, j)>>
      <4>1. j \in 1..P /\ j \in M
        BY <3>3, <3>4
      <4>2. window[B + j].fetch = <<fetch2.pc, CBP.fetch2_bhr, Elders(M, j)>>
        BY <4>1, <1>1 DEF HistoryOK, FetchedOK, B, M
      <4>3. Elders(N, j) = Elders(M, j)
        <5>1. \A i \in 1..(j - 1) : i \in 1..P
          BY <4>1, <1>3
        <5>2. \A i \in 1..(j - 1) : i \in N <=> i \in M
          BY <5>1, <3>3
        <5>3. j \in Int
          BY <4>1
        <5> QED  BY <5>2, <5>3, EldersSame
      <4> QED  BY <4>1, <4>2, <4>3, <3>2
    <3> QED  BY <3>5, <1>2 DEF FetchedOK, N
  <2> QED  BY <2>2, <2>3, <2>4, <2>5, <2>6, <1>8 DEF HistoryOK
<1> QED  BY <1>9, <1>10, <1>11, <1>12, <1>15, <1>16 DEF Inv, HistoryInv

(* Steps that change nothing but whether instructions are done and what is *)
(* in DECODE.                                                              *)
Resembles(i, j) ==
  /\ i.pc = j.pc /\ i.next_pc = j.next_pc /\ i.branch = j.branch /\ i.type = j.type
  /\ i.target = j.target /\ i.taken = j.taken /\ i.fetch = j.fetch
  /\ i.pred_tag = j.pred_tag /\ i.pred_tag_phase = j.pred_tag_phase

LEMMA ResemblesSame ==
  ASSUME NEW i, NEW j, Resembles(i, j)
  PROVE  /\ Predicts(j) => Predicts(i)
         /\ Misidentified(i) <=> Misidentified(j)
         /\ IsCond(i) <=> IsCond(j)
         /\ SameEntry(i, j)
<1>1. Predicts(j) => Predicts(i)
  BY DEF Resembles, Predicts, Misidentified, IsCond
<1>2. Misidentified(i) <=> Misidentified(j)
  BY DEF Resembles, Misidentified
<1>3. IsCond(i) <=> IsCond(j)
  BY DEF Resembles, IsCond
<1>4. SameEntry(i, j)
  BY DEF Resembles, SameEntry
<1> QED  BY <1>1, <1>2, <1>3, <1>4

LEMMA KeepInv ==
  ASSUME Inv, window' \in Seq(Insts), Len(window') = Len(window),
         \A k \in 1..Len(window) : Resembles(window'[k], window[k]),
         decode' \in Nat, decode' <= decode,
         UNCHANGED <<pc, fetch_active, fetch2, FETCH2, bq, CBP, RBP, base_bhr,
                     base_stack>>
  PROVE  Inv'
<1>0. TypeOK /\ StageInv /\ InstInv /\ IdleInv /\ QueueInv /\ HistoryInv
  BY DEF Inv
<1>1. PICK h : HistoryOK(h)
  BY <1>0 DEF HistoryInv
<1>2. /\ pc' = pc /\ fetch_active' = fetch_active /\ fetch2' = fetch2
      /\ FETCH2' = FETCH2 /\ bq' = bq /\ CBP' = CBP /\ RBP' = RBP
      /\ base_bhr' = base_bhr /\ base_stack' = base_stack
  OBVIOUS
<1> DEFINE N == Len(window)
           B == BundleStart
<1>3. /\ N \in Nat /\ B \in Nat /\ InFetch2 \in Nat /\ B + InFetch2 = N
      /\ N <= MaxWindow /\ MaxWindow \in Nat /\ decode \in Nat /\ decode <= B
      /\ DOMAIN window = 1..N
  <2>1. /\ N \in Nat /\ B \in Nat /\ InFetch2 \in 0..instr_per_cycle
        /\ instr_per_cycle \in Nat /\ B + InFetch2 = N
        /\ N <= MaxWindow /\ decode \in Nat /\ decode <= B /\ DOMAIN window = 1..N
    BY <1>0, StageFacts
  <2>2. MaxWindow \in Nat
    BY FetchUnitAssumption, BranchQueueAssumption
  <2> HIDE DEF B
  <2> QED  BY <2>1, <2>2
<1>4. InFetch2' = InFetch2
  BY <1>2 DEF InFetch2
<1>5. BundleStart' = B
  BY <1>4 DEF BundleStart
<1>6. \A k \in 1..N : /\ Resembles(window'[k], window[k])
                      /\ window'[k].pc = window[k].pc
                      /\ SameEntry(window'[k], window[k])
                      /\ window'[k].fetch = window[k].fetch
                      /\ window'[k].taken = window[k].taken
                      /\ IsCond(window'[k]) <=> IsCond(window[k])
  BY ResemblesSame DEF Resembles
<1>7. \A k \in 1..N : Stops(window', k) <=> Stops(window, k)
  BY <1>6 DEF Stops
<1> HIDE DEF B
<1>8. TypeOK'
  BY <1>0, <1>2 DEF TypeOK
<1>9. StageInv'
  <2>1. Serializers' = {} => Serializers = {}
    <3>1. SUFFICES ASSUME NEW z \in Serializers
                   PROVE  \E y : y \in Serializers'
      OBVIOUS
    <3>2. z \in 0..(InFetch2 - 1) /\ Program[window[B + 1 + z].pc].kind = "serialize"
      BY DEF Serializers, Kind, Fetched, B
    <3>3. B + 1 + z \in 1..N
      BY <3>2, <1>3
    <3>4. Program[window'[BundleStart' + 1 + z].pc].kind = "serialize"
      BY <3>2, <3>3, <1>5, <1>6
    <3>5. z \in Serializers'
      BY <3>2, <3>4, <1>4 DEF Serializers, Kind, Fetched
    <3> QED  BY <3>5
  <2>2. InFetch2' + decode' <= Len(window') /\ Len(window') <= MaxWindow
    BY <1>3, <1>4
  <2> QED  BY <2>1, <2>2, <1>0, <1>2, <1>4 DEF StageInv
<1>10. InstInv'
  <2>1. \A k \in 1..N : Predicts(window'[k])
    BY <1>0, <1>6, ResemblesSame DEF InstInv
  <2>2. \A k \in 1..N : k <= B \/ fetch2'.tc_hit => ~Misidentified(window'[k])
    BY <1>0, <1>2, <1>6, ResemblesSame DEF InstInv, B
  <2>3. \A k \in 1..N :
          k > B /\ Program[window'[k].pc].kind = "fault" => k = N
    BY <1>0, <1>6 DEF InstInv, B
  <2> QED  BY <2>1, <2>2, <2>3, <1>5 DEF InstInv
<1>11. IdleInv'
  <2>1. \A k \in 1..B : k \in 1..N
    BY <1>3
  <2>2. ~fetch_active' => window' # <<>> /\ Stops(window', Len(window'))
    <3>1. SUFFICES ASSUME ~fetch_active
                   PROVE  window' # <<>> /\ Stops(window', Len(window'))
      BY <1>2
    <3>2. window # <<>> /\ Stops(window, N)
      BY <3>1, <1>0 DEF IdleInv
    <3>3. N \in 1..N
      BY <3>2, <1>0, <1>3 DEF TypeOK
    <3>4. window' # <<>>
      BY <3>3, <1>3
    <3> QED  BY <3>2, <3>3, <3>4, <1>7
  <2>3. \A k \in 1..B : Stops(window', k) => k = N /\ ~fetch_active
    BY <2>1, <1>0, <1>7 DEF IdleInv, B
  <2> QED  BY <2>2, <2>3, <1>2, <1>5 DEF IdleInv
<1>12. QueueInv'
  <2>1. QueueOK(bq, window, B)
    BY <1>0 DEF QueueInv, B
  <2>2. \A k \in 1..B : SameEntry(window'[k], window[k])
    BY <1>3, <1>6
  <2>3. QueueOK(bq, window', B)
    BY <2>1, <2>2, <1>3, QueueSame
  <2> QED  BY <2>3, <1>0, <1>2, <1>5 DEF QueueInv
<1>13. HistoryOK(h)'
  <2>1. Follows(h, base_bhr', window')
    <3>1. Follows(h, base_bhr, window)
      BY <1>1 DEF HistoryOK
    <3> QED  BY <3>1, <1>2, <1>6 DEF Follows
  <2>2. LoggedOK(bq', CBP', window', B, h)
    <3>1. LoggedOK(bq, CBP, window, B, h)
      BY <1>1 DEF HistoryOK, B
    <3>2. \A k \in 1..B : SameEntry(window'[k], window[k])
                          /\ window'[k].fetch = window[k].fetch
      BY <1>3, <1>6
    <3>3. B <= B /\ CBP'.log = CBP.log /\ bq'.bq = bq.bq
      BY <1>2, <1>3
    <3> QED  BY <3>1, <3>2, <3>3, <1>3, LogSame
  <2>3. FetchedOK(window', B, fetch2'.pc, CBP'.fetch2_bhr)
    <3>1. FetchedOK(window, B, fetch2.pc, CBP.fetch2_bhr)
      BY <1>1 DEF HistoryOK, B
    <3>2. \A j \in 1..(N - B) : B + j \in 1..N
      BY <1>3
    <3>3. Conds(window', B) = Conds(window, B)
      BY <3>2, <1>6 DEF Conds
    <3>4. \A j \in Conds(window, B) : window'[B + j].fetch = window[B + j].fetch
      BY <3>2, <1>6 DEF Conds
    <3> QED  BY <3>1, <3>3, <3>4, <1>2 DEF FetchedOK
  <2>4. /\ fetch2'.valid => CBP'.fetch2_bhr = h[B]
        /\ fetch_active' => CBP'.bhr = h[Len(window')]
    BY <1>1, <1>2 DEF HistoryOK, B
  <2> QED  BY <2>1, <2>2, <2>3, <2>4, <1>5 DEF HistoryOK
<1> QED  BY <1>8, <1>9, <1>10, <1>11, <1>12, <1>13 DEF Inv, HistoryInv

LEMMA DecodeInv ==
  ASSUME Inv, Decode
  PROVE  Inv'
<1>1. TypeOK /\ decode \in Nat /\ window \in Seq(Insts)
  BY DEF Inv, TypeOK
<1>2. /\ decode' = 0 /\ window' = window
      /\ UNCHANGED <<pc, fetch_active, fetch2, FETCH2, bq, CBP, RBP, base_bhr,
                     base_stack>>
  BY DEF Decode
<1>3. \A k \in 1..Len(window) : Resembles(window'[k], window[k])
  BY <1>2 DEF Resembles
<1>4. decode' \in Nat /\ decode' <= decode
  BY <1>1, <1>2
<1> QED  BY <1>1, <1>2, <1>3, <1>4, KeepInv

LEMMA StutterInv ==
  ASSUME Inv, UNCHANGED vars
  PROVE  Inv'
<1>1. TypeOK /\ decode \in Nat /\ window \in Seq(Insts)
  BY DEF Inv, TypeOK
<1>2. /\ decode' = decode /\ window' = window
      /\ UNCHANGED <<pc, fetch_active, fetch2, FETCH2, bq, CBP, RBP, base_bhr,
                     base_stack>>
  BY DEF vars
<1>3. \A k \in 1..Len(window) : Resembles(window'[k], window[k])
  BY <1>2 DEF Resembles
<1>4. decode' \in Nat /\ decode' <= decode
  BY <1>1, <1>2
<1> QED  BY <1>1, <1>2, <1>3, <1>4, KeepInv

(* An instruction completes.                                               *)
Finished(v, w, j) == v = [w EXCEPT ![j].done = TRUE]

LEMMA FinishEffect ==
  ASSUME NEW w \in Seq(Insts), NEW j \in 1..Len(w), NEW v, Finished(v, w, j)
  PROVE  /\ v \in Seq(Insts) /\ Len(v) = Len(w)
         /\ \A k \in 1..Len(w) : Resembles(v[k], w[k])
<1>1. w[j] \in Insts
  OBVIOUS
<1>2. PICK x : x = [w[j] EXCEPT !.done = TRUE]
  OBVIOUS
<1>3. x \in Insts
  BY <1>1, <1>2 DEF Insts
<1>4. Resembles(x, w[j])
  BY <1>1, <1>2 DEF Insts, Resembles
<1>5. v = Put(w, j, x)
  BY <1>2 DEF Put, Finished
<1>6. /\ v \in Seq(Insts) /\ Len(v) = Len(w) /\ v[j] = x
      /\ \A k \in 1..Len(w) : k # j => v[k] = w[k]
  BY <1>3, <1>5, PutEffect
<1>7. ASSUME NEW k \in 1..Len(w)
      PROVE  Resembles(v[k], w[k])
  <2>1. CASE k = j
    BY <2>1, <1>4, <1>6
  <2>2. CASE k # j
    <3>1. v[k] = w[k]
      BY <2>2, <1>6
    <3> QED  BY <3>1 DEF Resembles
  <2> QED  BY <2>1, <2>2
<1> QED  BY <1>6, <1>7

LEMMA ResolveInv ==
  ASSUME Inv, NEW k \in 1..Len(window), ResolveCorrect(k)
  PROVE  Inv'
<1>1. TypeOK /\ decode \in Nat /\ window \in Seq(Insts)
  BY DEF Inv, TypeOK
<1>2. /\ decode' = decode /\ Finished(window', window, k)
      /\ UNCHANGED <<pc, fetch_active, fetch2, FETCH2, bq, CBP, RBP, base_bhr,
                     base_stack>>
  BY DEF ResolveCorrect, Finished
<1>3. /\ window' \in Seq(Insts) /\ Len(window') = Len(window)
      /\ \A j \in 1..Len(window) : Resembles(window'[j], window[j])
  BY <1>1, <1>2, FinishEffect
<1>4. decode' \in Nat /\ decode' <= decode
  BY <1>1, <1>2
<1> QED  BY <1>2, <1>3, <1>4, KeepInv

-----------------------------------------------------------------------------
(* A bundle is fetched.                                                    *)
PayloadOf(i, s, tc, start, bhr) ==
  /\ i \in Insts /\ i.pc = s.pc /\ i.taken = s.taken /\ (IsCond(i) <=> s.cond)
  /\ i.branch = s.id.branch /\ i.type = s.id.type
  /\ Predicts(i) /\ (tc => ~Misidentified(i))
  /\ s.cond => i.fetch = <<start, bhr, s.cb>>

LEMMA PayloadEffect ==
  ASSUME TypeOK, NEW tc \in BOOLEAN, NEW s \in Slots, SlotOK(s, tc)
  PROVE  PayloadOf(Payload(s), s, tc, pc, CBP.bhr)
<1>1. /\ s.pc \in PC /\ s.cb \in Nat /\ s.id \in Identities /\ s.taken \in BOOLEAN
      /\ s.next_pc \in PC /\ s.cond \in BOOLEAN
  BY DEF Slots
<1>2. PICK id \in Identities : id = s.id
  BY <1>1
<1>3. id.branch \in BOOLEAN /\ id.type \in BranchKinds /\ id.target \in PC
  BY DEF Identities
<1>4. PICK f : f = IF s.cond THEN <<pc, CBP.bhr, s.cb>> ELSE <<0, 0, 0>>
  OBVIOUS
<1>5. PICK i : i = Payload(s)
  OBVIOUS
<1>6. i = [pc |-> s.pc, next_pc |-> s.next_pc, branch |-> id.branch, type |-> id.type,
           target |-> id.target, pred_tag |-> 0, pred_tag_phase |-> FALSE,
           done |-> ~id.branch, taken |-> s.taken, fetch |-> f]
  BY <1>2, <1>4, <1>5 DEF Payload
<1>7. f \in Int \X Int \X Int
  <2>1. PC \in SUBSET Int
    <3>1. Cardinality(PC) \in Nat
      BY FetchUnitAssumption, FS_CardinalityType
    <3>2. PICK n \in Nat : PC = 0..(n - 1)
      BY <3>1, FetchUnitAssumption
    <3> QED  BY <3>2
  <2>2. pc \in Int
    BY <2>1 DEF TypeOK
  <2>3. CBP.bhr \in Int
    BY DEF TypeOK, Predictors
  <2>4. s.cb \in Int
    BY <1>1
  <2> QED  BY <1>4, <2>2, <2>3, <2>4
<1>8. 0 \in BQSlot
  BY SlotTypes
<1>9. i \in Insts
  BY <1>1, <1>3, <1>6, <1>7, <1>8 DEF Insts
<1>10. /\ i.pc = s.pc /\ i.taken = s.taken /\ i.next_pc = s.next_pc
       /\ i.branch = id.branch /\ i.type = id.type /\ i.target = id.target
       /\ i.fetch = f
  BY <1>6
<1> HIDE DEF Misidentified
<1>11. /\ id \in Answers(tc, s.pc) /\ s.cond = IsCondID(id)
       /\ id.branch /\ id.type \in Direct => s.next_pc = id.target
       /\ s.cond => s.next_pc = IF s.taken THEN id.target ELSE Inc(s.pc)
  BY <1>2 DEF SlotOK
<1>12. IsCond(i) <=> s.cond
  BY <1>10, <1>11 DEF IsCond, IsCondID
<1>13. ASSUME IsCond(i), ~Misidentified(i)
       PROVE  i.taken <=> i.next_pc # Inc(i.pc)
  <2>1. i.branch /\ i.type = "BTB_BRANCH"
    BY <1>13 DEF IsCond
  <2>2. PICK r : r = Real(i.pc)
    OBVIOUS
  <2>3. r.branch /\ r.type = i.type /\ (r.type \in {"BTB_BRANCH"} => i.target = r.target)
    <3>1. r.branch \in BOOLEAN
      BY <1>1, <1>10, <2>2, AnswerTypes DEF Identities
    <3> QED  BY <1>13, <2>1, <2>2, <3>1, <1>3, <1>10 DEF Misidentified
  <2>4. Program[i.pc].kind = "BTB_BRANCH" /\ r.target = Program[i.pc].target
    BY <2>1, <2>2, <2>3 DEF Real, NotABranch
  <2>5. i.target # Inc(i.pc)
    BY <1>1, <1>10, <2>1, <2>3, <2>4, FetchUnitAssumption
  <2>6. s.next_pc = IF s.taken THEN i.target ELSE Inc(i.pc)
    BY <1>13, <1>10, <1>11, <1>12
  <2> QED  BY <2>5, <2>6, <1>1, <1>10
<1>14. Predicts(i)
  BY <1>10, <1>11, <1>13 DEF Predicts
<1>15. tc => ~Misidentified(i)
  <2>1. SUFFICES ASSUME tc  PROVE ~Misidentified(i)
    OBVIOUS
  <2>2. id = Real(i.pc)
    BY <2>1, <1>10, <1>11 DEF Answers
  <2> QED  BY <2>2, <1>10 DEF Misidentified
<1> QED  BY <1>2, <1>4, <1>5, <1>9, <1>10, <1>12, <1>14, <1>15 DEF PayloadOf

LEMMA AppendEffect ==
  ASSUME NEW w \in Seq(Insts), NEW v \in Seq(Insts)
  PROVE  /\ w \o v \in Seq(Insts) /\ Len(w \o v) = Len(w) + Len(v)
         /\ \A k \in 1..Len(w) : (w \o v)[k] = w[k]
         /\ \A k \in 1..Len(v) : (w \o v)[Len(w) + k] = v[k]
OBVIOUS

(* The histories after each element of a sequence of directions.           *)
Entering(g, c, t, n) ==
  \A k \in 1..n : g[k] = IF c[k] THEN update_bhr(g[k - 1], t[k]) ELSE g[k - 1]

LEMMA StepsInt ==
  ASSUME NEW n \in Nat, NEW g, g[0] \in Int,
         NEW c, NEW t, \A k \in 1..n : c[k] \in BOOLEAN /\ t[k] \in BOOLEAN,
         Entering(g, c, t, n)
  PROVE  \A k \in 0..n : g[k] \in Int
<1> DEFINE T == {k \in 0..n : g[k] \notin Int}
<1>1. SUFFICES ASSUME T # {}  PROVE FALSE
  OBVIOUS
<1>2. T \in SUBSET Nat
  OBVIOUS
<1>3. PICK m \in T : \A y \in T : m <= y
  BY <1>1, <1>2, LeastNumber
<1>4. m \in 1..n /\ m - 1 \in 0..n /\ m - 1 \notin T
  BY <1>3
<1>5. g[m - 1] \in Int
  BY <1>4
<1>6. update_bhr(g[m - 1], t[m]) \in Int
  BY <1>4, <1>5, UpdateType
<1>7. g[m] = IF c[m] THEN update_bhr(g[m - 1], t[m]) ELSE g[m - 1]
  BY <1>4 DEF Entering
<1> QED  BY <1>3, <1>5, <1>6, <1>7

DirectionsEnter(g, base, dirs, n) ==
  /\ g[0] = base /\ After(base, dirs) = g[n]
  /\ \A k \in 1..n : g[k] = IF dirs[k].cond THEN update_bhr(g[k - 1], dirs[k].taken)
                           ELSE g[k - 1]
  /\ \A k \in 0..n : g[k] \in Int

LEMMA AfterSteps ==
  ASSUME NEW base \in Int, NEW dirs, NEW n \in Nat,
         NEW S, dirs \in Seq(S), Len(dirs) = n,
         \A k \in 1..n : dirs[k].cond \in BOOLEAN /\ dirs[k].taken \in BOOLEAN
  PROVE  \E g : DirectionsEnter(g, base, dirs, n)
<1>1. After(base, dirs) = Histories!Fold(base, dirs)
  BY DEF After, FoldLeft, MapThenFoldSet, Max,
         Histories!Fold, Histories!Latest
<1>2. PICK g : /\ Histories!Steps(g, base, dirs)
               /\ Histories!Fold(base, dirs) = g[n]
  BY WellOrder, Histories!FoldSteps
<1>3. g[0] = base /\ \A k \in 1..n : g[k] = IF dirs[k].cond
                                            THEN update_bhr(g[k - 1], dirs[k].taken)
                                            ELSE g[k - 1]
  BY <1>2, Zenon DEF Histories!Steps, Enter
<1> DEFINE c == [k \in 1..n |-> dirs[k].cond]
           t == [k \in 1..n |-> dirs[k].taken]
<1>4. \A k \in 1..n : /\ c[k] = dirs[k].cond /\ t[k] = dirs[k].taken
                      /\ c[k] \in BOOLEAN /\ t[k] \in BOOLEAN
  OBVIOUS
<1> HIDE DEF c, t
<1>5. Entering(g, c, t, n)
  BY <1>3, <1>4 DEF Entering
<1>6. \A k \in 0..n : g[k] \in Int
  BY <1>3, <1>4, <1>5, StepsInt
<1> QED  BY <1>1, <1>2, <1>3, <1>6 DEF DirectionsEnter

(* A log follows any history that has the same values.                    *)
LEMMA LogHistory ==
  ASSUME NEW q, NEW g, NEW w, NEW n \in Nat, NEW h, LoggedOK(q, g, w, n, h),
         NEW i, \A k \in 0..n : i[k] = h[k]
  PROVE  LoggedOK(q, g, w, n, i)
<1>1. \A k \in Branches(w, n) : k - 1 \in 0..n
  BY DEF Branches
<1>2. \A k \in Branches(w, n) : i[k - 1] = h[k - 1]
  BY <1>1
<1> QED  BY <1>2 DEF LoggedOK

LEMMA Fetch1Inv ==
  ASSUME Inv, Fetch1
  PROVE  Inv'
<1>0. TypeOK /\ StageInv /\ InstInv /\ IdleInv /\ QueueInv /\ HistoryInv
  BY DEF Inv
<1>1. PICK h : HistoryOK(h)
  BY <1>0 DEF HistoryInv
<1>2a. PICK tc \in TraceHits :
         \E bundle \in Bundles(tc, pc, RASPredict(RBP)) :
           /\ Len(window) + Len(bundle) <= MaxWindow
           /\ fetch2' = [valid |-> TRUE, pc |-> pc, tc_hit |-> tc]
           /\ window' = window \o [p \in 1..Len(bundle) |-> Payload(bundle[p])]
           /\ FETCH2' = [p \in Bundle |-> p < Len(bundle) \/ FETCH2[p]]
           /\ CBP' = GshareSpec(GshareSave(CBP), Update(bundle).directions)
           /\ RBP' = RASSpecUpdate(RASSaveContext(RBP), Update(bundle))
           /\ pc' = Update(bundle).next_pc
  BY DEF Fetch1
<1>2. PICK bundle \in Bundles(tc, pc, RASPredict(RBP)) :
        /\ Len(window) + Len(bundle) <= MaxWindow
        /\ fetch2' = [valid |-> TRUE, pc |-> pc, tc_hit |-> tc]
        /\ window' = window \o [p \in 1..Len(bundle) |-> Payload(bundle[p])]
        /\ FETCH2' = [p \in Bundle |-> p < Len(bundle) \/ FETCH2[p]]
        /\ CBP' = GshareSpec(GshareSave(CBP), Update(bundle).directions)
        /\ RBP' = RASSpecUpdate(RASSaveContext(RBP), Update(bundle))
        /\ pc' = Update(bundle).next_pc
  BY <1>2a
<1>3. /\ ~fetch2.valid /\ fetch_active /\ fetch_active' = fetch_active /\ decode' = decode
      /\ bq' = bq /\ base_bhr' = base_bhr /\ base_stack' = base_stack
  BY DEF Fetch1
<1> DEFINE N == Len(window)
           n == Len(bundle)
           dirs == Update(bundle).directions
<1>4. /\ N \in Nat /\ BundleStart = N /\ InFetch2 = 0 /\ decode \in Nat /\ decode <= N
      /\ instr_per_cycle \in Nat /\ MaxWindow \in Nat
      /\ \A p \in Bundle : ~FETCH2[p]
  <2>1. /\ N \in Nat /\ BundleStart \in Nat /\ decode \in Nat /\ decode <= BundleStart
        /\ BundleStart + InFetch2 = N /\ instr_per_cycle \in Nat
    BY <1>0, StageFacts
  <2>2. InFetch2 = 0 /\ \A p \in Bundle : ~FETCH2[p]
    BY <1>0, <1>3 DEF StageInv
  <2>3. MaxWindow \in Nat
    BY FetchUnitAssumption, BranchQueueAssumption
  <2> QED  BY <2>1, <2>2, <2>3
<1>5. pc \in PC /\ RASPredict(RBP) \in PC /\ tc \in BOOLEAN
  <2>1. RBP.ras[RBP.tos] \in PC
    BY <1>0 DEF TypeOK, Stacks
  <2> QED  BY <2>1, <1>0, <1>2, FetchUnitAssumption DEF TypeOK, RASPredict
<1>6. BundleOK(bundle, tc) /\ n \in 1..instr_per_cycle
  BY <1>2, <1>5, BundlesOK
<1>7. /\ bundle \in Seq(Slots) /\ n \in Nat /\ DOMAIN bundle = 1..n
      /\ \A k \in 1..n :
           /\ bundle[k] \in Slots /\ SlotOK(bundle[k], tc)
           /\ bundle[k].pc \in PC /\ bundle[k].next_pc \in PC
           /\ bundle[k].cond \in BOOLEAN /\ bundle[k].taken \in BOOLEAN
           /\ bundle[k].cb = Elders({j \in DOMAIN bundle : bundle[j].cond}, k)
           /\ Program[bundle[k].pc].kind = "fault" => k = n
  <2>1. bundle \in Seq(Slots)
    BY <1>6 DEF BundleOK
  <2>2. n \in Nat /\ DOMAIN bundle = 1..n /\ \A k \in 1..n : bundle[k] \in Slots
    BY <2>1
  <2>3. \A s \in Slots : s.pc \in PC /\ s.next_pc \in PC /\ s.cond \in BOOLEAN
                         /\ s.taken \in BOOLEAN
    BY DEF Slots
  <2> QED  BY <2>1, <2>2, <2>3, <1>6, Zenon DEF BundleOK
<1> HIDE DEF N, n
<1>8. /\ window' \in Seq(Insts) /\ Len(window') = N + n
      /\ \A k \in 1..N : window'[k] = window[k]
      /\ \A k \in 1..n : PayloadOf(window'[N + k], bundle[k], tc, pc, CBP.bhr)
  <2> DEFINE v == [p \in 1..n |-> Payload(bundle[p])]
  <2>1. \A k \in 1..n : PayloadOf(Payload(bundle[k]), bundle[k], tc, pc, CBP.bhr)
    BY <1>0, <1>5, <1>7, PayloadEffect
  <2>2. \A k \in 1..n : Payload(bundle[k]) \in Insts
    BY <2>1 DEF PayloadOf
  <2>3. v \in Seq(Insts) /\ Len(v) = n /\ \A k \in 1..n : v[k] = Payload(bundle[k])
    <3>1. v \in [1..n -> Insts]
      BY <2>2
    <3> QED  BY <3>1, <1>7
  <2>4. window' = window \o v /\ window \in Seq(Insts)
    BY <1>0, <1>2 DEF n, TypeOK
  <2> HIDE DEF v
  <2>5. /\ window' \in Seq(Insts) /\ Len(window') = N + n
        /\ \A k \in 1..N : window'[k] = window[k]
        /\ \A k \in 1..n : window'[N + k] = v[k]
    BY <2>3, <2>4, AppendEffect DEF N
  <2> QED  BY <2>1, <2>3, <2>5
<1>9. \A k \in (N + 1)..(N + n) : k - N \in 1..n /\ k = N + (k - N)
  BY <1>4, <1>7
<1>10. \A k \in 1..(N + n) : k \in 1..N \/ k \in (N + 1)..(N + n)
  BY <1>4, <1>7
<1>11. InFetch2' = n
  <2>1. n \in 0..instr_per_cycle
    BY <1>6, <1>4
  <2>2. \A p \in Bundle : FETCH2'[p] <=> p < n
    BY <1>2, <1>4 DEF n
  <2>3. \A q \in 0..(n - 1) : FETCH2'[q]
    BY <2>1, <2>2, <1>4 DEF Bundle
  <2>4. n < instr_per_cycle => ~FETCH2'[n]
    BY <2>1, <2>2, <1>4, <1>7 DEF Bundle
  <2> QED  BY <2>1, <2>3, <2>4, ValidIs, InFetch2Valid
<1>12. BundleStart' = N
  BY <1>4, <1>7, <1>8, <1>11 DEF BundleStart
<1>13. n \in 1..n /\ Last(bundle) = bundle[n]
  <2>1. n \in 1..n
    BY <1>6, <1>4
  <2> QED  BY <2>1 DEF Last, n
<1>14. pc' \in PC /\ Update(bundle).push_ras_pc \in PC
  <2>1. bundle[n].pc \in PC /\ bundle[n].next_pc \in PC
    BY <1>7, <1>13
  <2>2. Inc(bundle[n].pc) \in PC
    BY <2>1, IncType
  <2>3. Update(bundle).next_pc = bundle[n].next_pc
        /\ Update(bundle).push_ras_pc = Inc(bundle[n].pc)
    BY <1>13 DEF Update
  <2> QED  BY <2>1, <2>2, <2>3, <1>2
<1>15. RBP' \in Stacks /\ RBP'.tail = RBP.tail
  <2>1. RBP \in Stacks
    BY <1>0 DEF TypeOK
  <2> QED  BY <2>1, <1>2, <1>14, SpecUpdateEffect
<1>16. PICK g : /\ g[0] = CBP.bhr /\ After(CBP.bhr, dirs) = g[n]
                /\ \A k \in 1..n : g[k] = IF bundle[k].cond
                                          THEN update_bhr(g[k - 1], bundle[k].taken)
                                          ELSE g[k - 1]
                /\ \A k \in 0..n : g[k] \in Int
  <2> DEFINE S == [cond : BOOLEAN, taken : BOOLEAN]
  <2>1. dirs = [k \in 1..n |-> [cond |-> bundle[k].cond, taken |-> bundle[k].taken]]
    BY <1>7 DEF Update
  <2>2. \A k \in 1..n : [cond |-> bundle[k].cond, taken |-> bundle[k].taken] \in S
    BY <1>7
  <2>3. dirs \in [1..n -> S]
    BY <2>1, <2>2
  <2>4. \A k \in 1..n : dirs[k].cond = bundle[k].cond /\ dirs[k].taken = bundle[k].taken
    BY <2>1
  <2> HIDE DEF dirs, S
  <2>5. dirs \in Seq(S) /\ Len(dirs) = n
    BY <2>1, <2>3, <1>7
  <2>6. PICK base \in Int : base = CBP.bhr
    BY <1>0 DEF TypeOK, Predictors
  <2>7. \A k \in 1..n : dirs[k].cond \in BOOLEAN /\ dirs[k].taken \in BOOLEAN
    BY <2>4, <1>7
  <2>8. PICK g : DirectionsEnter(g, base, dirs, n)
    BY <2>5, <2>7, <1>7, AfterSteps
  <2> QED  BY <2>4, <2>6, <2>8 DEF DirectionsEnter
<1> HIDE DEF dirs
<1>17. /\ CBP' \in Predictors /\ CBP'.bhr = g[n] /\ CBP'.fetch2_bhr = CBP.bhr
       /\ CBP'.log = CBP.log
  <2>1. CBP \in Predictors /\ CBP' = GshareSpec(GshareSave(CBP), dirs)
    BY <1>0, <1>2 DEF TypeOK, dirs
  <2>2. After(CBP.bhr, dirs) \in Int
    <3>1. n \in 0..n
      BY <1>7
    <3> QED  BY <3>1, <1>16
  <2> QED  BY <2>1, <2>2, <1>16, SpecEffect
<1>18. TypeOK'
  <2>1. fetch2' \in [valid : BOOLEAN, pc : PC, tc_hit : BOOLEAN]
    BY <1>2, <1>5
  <2>2. FETCH2' \in [Bundle -> BOOLEAN]
    <3>1. \A p \in Bundle : (p < Len(bundle) \/ FETCH2[p]) \in BOOLEAN
      OBVIOUS
    <3> QED  BY <3>1, <1>2
  <2> QED  BY <2>1, <2>2, <1>0, <1>3, <1>8, <1>14, <1>15, <1>17 DEF TypeOK
<1>19. StageInv'
  <2>1. InFetch2' + decode' <= Len(window') /\ Len(window') <= MaxWindow
    <3>1. N + n <= MaxWindow
      BY <1>2 DEF N, n
    <3>2. Len(window') = N + n /\ InFetch2' = n /\ decode' = decode
      BY <1>3, <1>8, <1>11
    <3> QED  BY <3>1, <3>2, <1>4, <1>7
  <2>2. fetch2'.valid /\ InFetch2' > 0
    BY <1>2, <1>4, <1>6, <1>11
  <2>3. \A p \in Bundle : FETCH2'[p] => p < InFetch2'
    BY <1>2, <1>4, <1>11 DEF n
  <2> QED  BY <2>1, <2>2, <2>3 DEF StageInv
<1>20. \A k \in (N + 1)..(N + n) : PayloadOf(window'[k], bundle[k - N], tc, pc, CBP.bhr)
  BY <1>8, <1>9
<1>21. InstInv'
  <2>1. \A k \in 1..(N + n) : Predicts(window'[k])
    BY <1>0, <1>8, <1>10, <1>20 DEF InstInv, PayloadOf, N
  <2>2. \A k \in 1..(N + n) : k <= N \/ fetch2'.tc_hit => ~Misidentified(window'[k])
    <3>1. \A k \in 1..N : ~Misidentified(window'[k])
      <4>1. \A k \in 1..N : k <= BundleStart
        BY <1>4
      <4> QED  BY <4>1, <1>0, <1>8 DEF InstInv, N
    <3>2. \A k \in (N + 1)..(N + n) :
            ~(k <= N) /\ (fetch2'.tc_hit => ~Misidentified(window'[k]))
      <4>1. fetch2'.tc_hit = tc
        BY <1>2
      <4>2. \A k \in (N + 1)..(N + n) : ~(k <= N)
        BY <1>4
      <4> QED  BY <4>1, <4>2, <1>20 DEF PayloadOf
    <3> QED  BY <3>1, <3>2, <1>10
  <2>3. ASSUME NEW k \in 1..(N + n), k > N, Program[window'[k].pc].kind = "fault"
        PROVE  k = N + n
    <3>1. k \in (N + 1)..(N + n) /\ k - N \in 1..n /\ k = N + (k - N)
      BY <2>3, <1>4, <1>7, <1>9
    <3>2. window'[k].pc = bundle[k - N].pc
      BY <3>1, <1>20 DEF PayloadOf
    <3>3. k - N = n
      BY <3>1, <3>2, <2>3, <1>7
    <3> QED  BY <3>1, <3>3
  <2> QED  BY <2>1, <2>2, <2>3, <1>8, <1>12 DEF InstInv
<1>22. IdleInv'
  <2>1. ASSUME NEW k \in 1..N, Stops(window', k)
        PROVE  FALSE
    <3>1. Stops(window, k)
      BY <2>1, <1>8 DEF Stops
    <3> QED  BY <3>1, <1>0, <1>3, <1>4 DEF IdleInv
  <2> QED  BY <2>1, <1>3, <1>12 DEF IdleInv
<1>23. \A k \in 1..N : SameEntry(window'[k], window[k]) /\ window'[k].fetch = window[k].fetch
  BY <1>8, AlikeSelf
<1>24. QueueInv'
  <2>1. QueueOK(bq, window, N)
    BY <1>0, <1>4 DEF QueueInv
  <2>2. QueueOK(bq, window', N)
    BY <2>1, <1>4, <1>23, QueueSame
  <2> QED  BY <2>2, <1>0, <1>3, <1>12, <1>15 DEF QueueInv
<1>25a. PICK e : e = [k \in 0..(N + n) |-> IF k <= N THEN h[k] ELSE g[k - N]]
  OBVIOUS
<1>25. HistoryOK(e)'
  <2>1. CBP.bhr = h[N]
    BY <1>1, <1>3 DEF HistoryOK, N
  <2>2. \A k \in 0..N : e[k] = h[k]
    BY <1>4, <1>7, <1>25a
  <2>3. \A k \in 0..n : e[N + k] = g[k]
    <3>1. ASSUME NEW k \in 0..n, k # 0
          PROVE  e[N + k] = g[k]
      <4>1. N + k \in 0..(N + n) /\ ~(N + k <= N) /\ (N + k) - N = k
        BY <3>1, <1>4, <1>7
      <4> QED  BY <4>1, <1>25a
    <3>2. e[N + 0] = g[0]
      <4>1. N + 0 = N /\ N \in 0..N
        BY <1>4
      <4> QED  BY <4>1, <2>1, <2>2, <1>16
    <3> QED  BY <3>1, <3>2
  <2>4. Follows(e, base_bhr', window')
    <3>1. Follows(h, base_bhr, window)
      BY <1>1 DEF HistoryOK
    <3>2. e[0] = base_bhr'
      <4>1. 0 \in 0..N
        BY <1>4
      <4> QED  BY <4>1, <3>1, <2>2, <1>3 DEF Follows
    <3>3. ASSUME NEW k \in 1..N
          PROVE  e[k] = IF IsCond(window'[k]) THEN update_bhr(e[k - 1], window'[k].taken)
                        ELSE e[k - 1]
      <4>1. k \in 0..N /\ k - 1 \in 0..N
        BY <1>4
      <4>2. e[k] = h[k] /\ e[k - 1] = h[k - 1] /\ window'[k] = window[k]
        BY <4>1, <2>2, <1>8
      <4> QED  BY <4>2, <3>1 DEF Follows, N
    <3>4. ASSUME NEW k \in (N + 1)..(N + n)
          PROVE  e[k] = IF IsCond(window'[k]) THEN update_bhr(e[k - 1], window'[k].taken)
                        ELSE e[k - 1]
      <4>1. PICK j \in 1..n : k = N + j /\ k - 1 = N + (j - 1) /\ j \in 0..n /\ j - 1 \in 0..n
        <5>1. k - N \in 1..n /\ k = N + (k - N) /\ k - 1 = N + ((k - N) - 1)
              /\ k - N \in 0..n /\ (k - N) - 1 \in 0..n
          BY <1>4, <1>7, <1>9
        <5> QED  BY <5>1
      <4>2. e[k] = g[j] /\ e[k - 1] = g[j - 1]
        BY <4>1, <2>3
      <4>3. /\ IsCond(window'[k]) <=> bundle[j].cond
            /\ window'[k].taken = bundle[j].taken
        BY <4>1, <1>8 DEF PayloadOf
      <4>4. g[j] = IF bundle[j].cond THEN update_bhr(g[j - 1], bundle[j].taken)
                   ELSE g[j - 1]
        BY <1>16
      <4> QED  BY <4>2, <4>3, <4>4
    <3> QED  BY <3>2, <3>3, <3>4, <1>8, <1>10 DEF Follows
  <2>5. LoggedOK(bq', CBP', window', N, e)
    <3>1. LoggedOK(bq, CBP, window, N, h)
      BY <1>1, <1>4 DEF HistoryOK
    <3>2. N \in Nat /\ N <= N /\ CBP'.log = CBP.log /\ bq'.bq = bq.bq
      BY <1>3, <1>4, <1>17
    <3>3. PICK r, f, v : r = bq' /\ f = CBP' /\ v = window'
      OBVIOUS
    <3>4. /\ f.log = CBP.log /\ r.bq = bq.bq
          /\ \A k \in 1..N : SameEntry(v[k], window[k]) /\ v[k].fetch = window[k].fetch
      BY <3>2, <3>3, <1>23
    <3>5. N \in Nat /\ N <= N
      BY <3>2
    <3>6. LoggedOK(bq, CBP, window, N, e)
      BY <3>1, <3>5, <2>2, LogHistory
    <3>7. LoggedOK(r, f, v, N, e)
      BY <3>4, <3>5, <3>6, LogSame
    <3> QED  BY <3>3, <3>7
  <2>6. CBP'.fetch2_bhr = e[N]
    <3>1. N \in 0..N
      BY <1>4
    <3> QED  BY <3>1, <2>1, <2>2, <1>17
  <2>7. CBP'.bhr = e[Len(window')]
    <3>1. n \in 0..n
      BY <1>7
    <3> QED  BY <3>1, <2>3, <1>8, <1>17
  <2>8. FetchedOK(window', N, fetch2'.pc, CBP'.fetch2_bhr)
    <3> DEFINE C == {j \in DOMAIN bundle : bundle[j].cond}
    <3>1. Conds(window', N) = C
      <4>1. Len(window') - N = n
        BY <1>4, <1>7, <1>8
      <4> QED  BY <4>1, <1>7, <1>8 DEF Conds, PayloadOf
    <3>2. ASSUME NEW j \in C
          PROVE  window'[N + j].fetch = <<pc, CBP.bhr, Elders(C, j)>>
      <4>1. j \in 1..n /\ bundle[j].cond /\ bundle[j].cb = Elders(C, j)
        BY <1>7
      <4> QED  BY <4>1, <1>8 DEF PayloadOf
    <3>3. fetch2'.pc = pc /\ CBP'.fetch2_bhr = CBP.bhr
      BY <1>2, <1>17
    <3> HIDE DEF C
    <3> QED  BY <3>1, <3>2, <3>3 DEF FetchedOK
  <2> QED  BY <2>4, <2>5, <2>6, <2>7, <2>8, <1>12 DEF HistoryOK
<1> QED  BY <1>18, <1>19, <1>21, <1>22, <1>24, <1>25 DEF Inv, HistoryInv

-----------------------------------------------------------------------------
(* A misprediction.                                                        *)
LEMMA TrueKind ==
  ASSUME NEW i \in Insts, i.branch, ~Misidentified(i)
  PROVE  /\ Program[i.pc].kind = i.type
         /\ i.type \in {"BTB_BRANCH"} \cup Direct => i.target = Program[i.pc].target
<1>1. i.pc \in PC
  BY DEF Insts
<1>2. PICK r \in Identities : r = Real(i.pc)
  BY <1>1, AnswerTypes
<1>3. r.branch \in BOOLEAN /\ i.branch \in BOOLEAN
  BY DEF Identities, Insts
<1>4. /\ r.branch /\ i.type = r.type
      /\ r.type \in {"BTB_BRANCH"} \cup Direct => i.target = r.target
  BY <1>2, <1>3 DEF Misidentified
<1>5. /\ Program[i.pc].kind = r.type
      /\ r.type \in {"BTB_BRANCH"} \cup Direct => r.target = Program[i.pc].target
  <2>1. CASE Program[i.pc].kind \in BranchKinds
    <3>1. r = [branch |-> TRUE, type |-> Program[i.pc].kind,
               target |-> IF Program[i.pc].kind \in {"BTB_BRANCH"} \cup Direct
                          THEN Program[i.pc].target ELSE 0]
      BY <2>1, <1>2 DEF Real
    <3> QED  BY <3>1
  <2>2. CASE Program[i.pc].kind \notin BranchKinds
    <3>1. r = NotABranch
      BY <2>2, <1>2 DEF Real
    <3> QED  BY <3>1, <1>4 DEF NotABranch
  <2> QED  BY <2>1, <2>2
<1> QED  BY <1>4, <1>5

Corrected(v, w, k, next_pc, taken) ==
  v = [SubSeq(w, 1, k) EXCEPT ![k].next_pc = next_pc, ![k].taken = taken,
                              ![k].done = TRUE]

Corrects(x, i, next_pc, taken) ==
  /\ x \in Insts /\ x.pc = i.pc /\ x.branch = i.branch /\ x.type = i.type
  /\ x.target = i.target /\ x.fetch = i.fetch
  /\ x.pred_tag = i.pred_tag /\ x.pred_tag_phase = i.pred_tag_phase
  /\ x.next_pc = next_pc /\ x.taken = taken

LEMMA CorrectEffect ==
  ASSUME NEW w \in Seq(Insts), NEW k \in 1..Len(w), NEW next_pc \in PC,
         NEW taken \in BOOLEAN, NEW v, Corrected(v, w, k, next_pc, taken)
  PROVE  /\ v \in Seq(Insts) /\ Len(v) = k
         /\ \A j \in 1..(k - 1) : v[j] = w[j]
         /\ Corrects(v[k], w[k], next_pc, taken)
<1>1. PICK u : u = SubSeq(w, 1, k)
  OBVIOUS
<1>2. u \in Seq(Insts) /\ Len(u) = k /\ \A j \in 1..k : u[j] = w[j]
  <2>1. k \in 0..Len(w)
    OBVIOUS
  <2> QED  BY <2>1, <1>1, CutEffect
<1>3. k \in 1..k
  OBVIOUS
<1>4. u[k] \in Insts /\ u[k] = w[k]
  BY <1>2, <1>3
<1>5. PICK x : x = [u[k] EXCEPT !.next_pc = next_pc, !.taken = taken, !.done = TRUE]
  OBVIOUS
<1>6. x \in Insts
  BY <1>4, <1>5 DEF Insts
<1>7. /\ x.pc = u[k].pc /\ x.branch = u[k].branch /\ x.type = u[k].type
      /\ x.target = u[k].target /\ x.fetch = u[k].fetch
      /\ x.pred_tag = u[k].pred_tag /\ x.pred_tag_phase = u[k].pred_tag_phase
  BY <1>4, <1>5 DEF Insts
<1>8. x.next_pc = next_pc /\ x.taken = taken
  BY <1>4, <1>5 DEF Insts
<1>9. v = [u EXCEPT ![k].next_pc = next_pc, ![k].taken = taken, ![k].done = TRUE]
  BY <1>1 DEF Corrected
<1>10. v = Put(u, k, x)
  BY <1>2, <1>3, <1>5, <1>9 DEF Put
<1>11. /\ v \in Seq(Insts) /\ Len(v) = k /\ v[k] = x
       /\ \A j \in 1..k : j # k => v[j] = u[j]
  BY <1>2, <1>3, <1>6, <1>10, PutEffect, Zenon
<1>12. \A j \in 1..(k - 1) : j \in 1..k /\ j # k
  OBVIOUS
<1>13. \A j \in 1..(k - 1) : v[j] = w[j]
  BY <1>2, <1>11, <1>12
<1>14. Corrects(x, w[k], next_pc, taken)
  BY <1>4, <1>6, <1>7, <1>8 DEF Corrects
<1> QED  BY <1>11, <1>13, <1>14

(* The entry of a corrected branch.                                        *)
Amended(e, f, next_pc, taken) ==
  e = [f EXCEPT !.next_pc = next_pc, !.taken = taken, !.misp = TRUE]

LEMMA AmendEffect ==
  ASSUME NEW f \in BQEntries, NEW next_pc \in PC, NEW taken \in BOOLEAN,
         NEW e, Amended(e, f, next_pc, taken)
  PROVE  /\ e \in BQEntries /\ e.branch_type = f.branch_type
         /\ e.fetch_pc = f.fetch_pc
         /\ e.fetch_cbID_in_bundle = f.fetch_cbID_in_bundle
         /\ e.next_pc = next_pc /\ e.taken = taken
<1>1. e \in BQEntries
  BY DEF Amended, BQEntries
<1>2. /\ e.branch_type = f.branch_type /\ e.fetch_pc = f.fetch_pc
      /\ e.fetch_cbID_in_bundle = f.fetch_cbID_in_bundle
  BY DEF Amended, BQEntries
<1>3. e.next_pc = next_pc /\ e.taken = taken
  BY DEF Amended, BQEntries
<1> QED  BY <1>1, <1>2, <1>3

LEMMA OutcomesType ==
  ASSUME NEW p \in PC
  PROVE  /\ Outcomes(p) \in SUBSET PC
         /\ Program[p].kind \in Direct => Outcomes(p) = {Program[p].target}
<1>1. Program[p].target \in PC /\ Inc(p) \in PC
  BY FetchUnitAssumption, IncType
<1>2. "BTB_BRANCH" \notin Direct
  BY DEF Direct
<1> QED  BY <1>1, <1>2 DEF Outcomes

(* The branch queue and the log when branch k of w becomes x, and leaves   *)
(* the branches behind it.                                                 *)
LEMMA QueueAmend ==
  ASSUME NEW q \in Queues, NEW w, NEW n \in Nat, QueueOK(q, w, n), n <= bq_size,
         NEW k \in Branches(w, n), NEW v,
         \A j \in 1..(k - 1) : v[j] = w[j],
         v[k].branch, v[k].pred_tag = w[k].pred_tag,
         v[k].pred_tag_phase = w[k].pred_tag_phase,
         NEW e \in BQEntries, Entered(e, v[k]),
         NEW r, r = push(rollback(q, w[k].pred_tag, w[k].pred_tag_phase), e)
  PROVE  /\ r \in Queues /\ QueueOK(r, v, k)
         /\ r.bq = [q.bq EXCEPT ![w[k].pred_tag] = e]
         /\ r.tail = Next1(w[k].pred_tag, bq_size)
<1>1. k \in 1..n /\ k - 1 \in Nat /\ (k - 1) + 1 = k /\ bq_size \in Nat
  BY BranchQueueAssumption DEF Branches
<1>2. PICK tag \in BQSlot, phase \in BOOLEAN :
        tag = w[k].pred_tag /\ phase = w[k].pred_tag_phase
  BY QueueSlots
<1>3. PICK s : s = rollback(q, tag, phase)
  OBVIOUS
<1>4. s \in Queues /\ s.bq = q.bq /\ s.tail = tag /\ s.tail_phase = phase
  BY <1>2, <1>3, RollbackEffect
<1>5. QueueOK(s, w, k - 1)
  BY <1>2, <1>3, QueueCut
<1>6. Elders(Branches(w, k - 1), k) < bq_size
  <2>1. PICK b : b = Branches(w, k - 1)
    OBVIOUS
  <2>2. Elders(b, k) <= k - 1 /\ Elders(b, k) \in Nat
    BY <1>1, EldersAtMost, EldersFinite
  <2>3. k <= bq_size
    BY <1>1
  <2> QED  BY <2>1, <2>2, <2>3, <1>1
<1>7. TagOf(v, k) = <<s.tail, s.tail_phase>>
  BY <1>2, <1>4 DEF TagOf
<1>8. \A j \in 1..(k - 1) : SameEntry(v[j], w[j])
  BY AlikeSelf
<1>9. QueueOK(push(s, e), v, k)
  <2>1. PICK m \in Nat : m = k - 1
    BY <1>1
  <2>2. /\ QueueOK(s, w, m) /\ Elders(Branches(w, m), m + 1) < bq_size
        /\ \A j \in 1..m : SameEntry(v[j], w[j])
        /\ v[m + 1].branch /\ TagOf(v, m + 1) = <<s.tail, s.tail_phase>>
        /\ Entered(e, v[m + 1]) /\ m + 1 = k
    BY <2>1, <1>1, <1>5, <1>6, <1>7, <1>8
  <2>3. QueueOK(push(s, e), v, m + 1)
    BY <2>2, <1>4, QueueEnter
  <2> QED  BY <2>2, <2>3
<1>10. r = push(s, e)
  BY <1>2, <1>3
<1> QED  BY <1>2, <1>4, <1>9, <1>10, PushEffect

(* A misprediction is never one of a direct jump or call.                  *)
LEMMA NotDirect ==
  ASSUME NEW i \in Insts, i.branch, ~Misidentified(i), Predicts(i),
         NEW next_pc \in Outcomes(i.pc) \ {i.next_pc}
  PROVE  i.type \notin Direct
<1>1. SUFFICES ASSUME i.type \in Direct  PROVE FALSE
  OBVIOUS
<1>2. Program[i.pc].kind \in Direct /\ i.target = Program[i.pc].target
  BY <1>1, TrueKind
<1>3. i.pc \in PC
  BY DEF Insts
<1>4. Outcomes(i.pc) = {i.target}
  BY <1>2, <1>3, OutcomesType
<1>5. i.next_pc = i.target
  BY <1>1 DEF Predicts
<1> QED  BY <1>4, <1>5

LEMMA TagsDiffer ==
  ASSUME NEW q \in Queues, NEW w, NEW n \in Nat, QueueOK(q, w, n),
         NEW j \in Branches(w, n), NEW k \in Branches(w, n), j # k
  PROVE  w[j].pred_tag # w[k].pred_tag
BY QueueSlots

LEMMA MispredictInv ==
  ASSUME Inv, NEW k \in 1..Len(window), Mispredict(k)
  PROVE  Inv'
<1>0. TypeOK /\ StageInv /\ InstInv /\ IdleInv /\ QueueInv /\ HistoryInv
  BY DEF Inv
<1>1. PICK h : HistoryOK(h)
  BY <1>0 DEF HistoryInv
<1> DEFINE B == BundleStart
<1>2. /\ k <= BackEnd /\ window[k].branch
      /\ fetch_active' = TRUE /\ squash_fetch2 /\ decode' = 0
      /\ base_bhr' = base_bhr /\ base_stack' = base_stack
  BY DEF Mispredict
<1>3. /\ B \in Nat /\ InFetch2 \in Nat /\ decode \in Nat /\ Len(window) \in Nat
      /\ B + InFetch2 = Len(window) /\ Len(window) <= MaxWindow /\ Len(window) <= bq_size
      /\ MaxWindow \in Nat /\ bq_size \in Nat
  <2>1. /\ B \in Nat /\ InFetch2 \in Nat /\ decode \in Nat /\ Len(window) \in Nat
        /\ B + InFetch2 = Len(window) /\ Len(window) <= MaxWindow
        /\ Len(window) <= bq_size
    BY <1>0, StageFacts
  <2>2. MaxWindow \in Nat /\ bq_size \in Nat
    BY FetchUnitAssumption, BranchQueueAssumption
  <2> QED  BY <2>1, <2>2
<1>4. k \in 1..B /\ k <= bq_size /\ k <= MaxWindow /\ k \in Nat /\ B <= bq_size
  BY <1>2, <1>3 DEF BackEnd, B
<1> HIDE DEF B
<1>5. PICK i \in Insts : i = window[k]
  BY <1>0 DEF TypeOK
<1>6. /\ i.branch /\ Predicts(i) /\ ~Misidentified(i) /\ i.pc \in PC
      /\ k \in Branches(window, B)
  <2>1. k <= BundleStart
    BY <1>3, <1>4 DEF B
  <2>2. i.pc \in PC
    BY DEF Insts
  <2> QED  BY <2>1, <2>2, <1>0, <1>2, <1>4, <1>5 DEF InstInv, Branches
<1>7. QueueOK(bq, window, B) /\ bq \in Queues /\ LoggedOK(bq, CBP, window, B, h)
  BY <1>0, <1>1 DEF QueueInv, TypeOK, HistoryOK, B
<1>8. PICK tag \in BQSlot : tag = i.pred_tag
  BY <1>5, <1>6, <1>7, <1>3, QueueSlots
<1>9. PICK f \in BQEntries : f = bq.bq[tag]
  BY <1>7 DEF Queues
<1>10. Entered(f, i)
  BY <1>5, <1>6, <1>7, <1>8, <1>9 DEF QueueOK
<1>11. PICK next_pc \in Outcomes(i.pc) \ {i.next_pc} :
         /\ bq' = push(rollback(bq, tag, i.pred_tag_phase),
                       [f EXCEPT !.next_pc = next_pc,
                                 !.taken = next_pc # Inc(i.pc), !.misp = TRUE])
         /\ CBP' = GshareMispredict(CBP, tag, f.branch_type = "BTB_BRANCH",
                                    next_pc # Inc(i.pc))
         /\ RBP' = RASMispredict(RBP, tag)
         /\ pc' = next_pc
         /\ window' = [SubSeq(window, 1, k) EXCEPT ![k].next_pc = next_pc,
                                                   ![k].taken = next_pc # Inc(i.pc),
                                                   ![k].done = TRUE]
  BY <1>5, <1>8, <1>9, Zenon DEF Mispredict
<1>12. PICK taken \in BOOLEAN : taken <=> next_pc # Inc(i.pc)
  OBVIOUS
<1>13. PICK iscond \in BOOLEAN : iscond <=> f.branch_type = "BTB_BRANCH"
  OBVIOUS
<1>14. (next_pc # Inc(i.pc)) = taken /\ (f.branch_type = "BTB_BRANCH") = iscond
  BY <1>12, <1>13
<1>15. next_pc \in PC /\ i.type \notin Direct
  <2>1. Outcomes(i.pc) \in SUBSET PC
    BY <1>6, OutcomesType
  <2> QED  BY <2>1, <1>6, NotDirect
<1>16. PICK e : Amended(e, f, next_pc, taken)
  BY DEF Amended
<1>17. /\ bq' = push(rollback(bq, tag, i.pred_tag_phase), e)
       /\ CBP' = GshareMispredict(CBP, tag, iscond, taken)
       /\ Corrected(window', window, k, next_pc, taken)
  BY <1>11, <1>14, <1>16 DEF Amended, Corrected
<1>18. /\ e \in BQEntries /\ e.branch_type = f.branch_type
       /\ e.fetch_pc = f.fetch_pc /\ e.fetch_cbID_in_bundle = f.fetch_cbID_in_bundle
       /\ e.next_pc = next_pc /\ e.taken = taken
  BY <1>15, <1>16, AmendEffect
<1>19. /\ window' \in Seq(Insts) /\ Len(window') = k
       /\ \A j \in 1..(k - 1) : window'[j] = window[j]
       /\ Corrects(window'[k], i, next_pc, taken)
  <2>1. window \in Seq(Insts)
    BY <1>0 DEF TypeOK
  <2> QED  BY <2>1, <1>5, <1>15, <1>17, CorrectEffect
<1>20. PICK x : x = window'[k]
  OBVIOUS
<1>21. /\ x.pc = i.pc /\ x.branch = i.branch /\ x.type = i.type /\ x.target = i.target
       /\ x.fetch = i.fetch /\ x.pred_tag = i.pred_tag
       /\ x.pred_tag_phase = i.pred_tag_phase /\ x.next_pc = next_pc /\ x.taken = taken
  BY <1>19, <1>20 DEF Corrects
<1>22. Entered(e, x)
  BY <1>10, <1>12, <1>15, <1>18, <1>21 DEF Entered
<1>23. /\ bq' \in Queues /\ QueueOK(bq', window', k)
       /\ bq'.bq = [bq.bq EXCEPT ![tag] = e]
       /\ bq'.tail = Next1(tag, bq_size)
  <2>1. PICK v, r : v = window' /\ r = bq'
    OBVIOUS
  <2>2. /\ \A j \in 1..(k - 1) : v[j] = window[j]
        /\ v[k].branch /\ v[k].pred_tag = window[k].pred_tag
        /\ v[k].pred_tag_phase = window[k].pred_tag_phase
        /\ Entered(e, v[k])
    BY <2>1, <1>5, <1>6, <1>19, <1>20, <1>21, <1>22
  <2>3. r = push(rollback(bq, window[k].pred_tag, window[k].pred_tag_phase), e)
    BY <2>1, <1>5, <1>8, <1>17
  <2>4. /\ r \in Queues /\ QueueOK(r, v, k)
        /\ r.bq = [bq.bq EXCEPT ![window[k].pred_tag] = e]
        /\ r.tail = Next1(window[k].pred_tag, bq_size)
    BY <2>2, <2>3, <1>3, <1>4, <1>6, <1>7, <1>18, QueueAmend
  <2> QED  BY <2>1, <2>4, <1>5, <1>8
<1>24. RBP' \in Stacks /\ RBP'.tail = bq'.tail
  <2>1. RBP \in Stacks
    BY <1>0 DEF TypeOK
  <2> QED  BY <2>1, <1>11, <1>23, RASMispredictEffect
<1>25. Repaired(CBP', CBP, tag, iscond, taken)
  <2>1. CBP \in Predictors
    BY <1>0 DEF TypeOK
  <2> QED  BY <2>1, <1>17, GshareMispredictEffect
<1>26. /\ ~fetch2'.valid /\ InFetch2' = 0 /\ \A p \in Bundle : ~FETCH2'[p]
       /\ FETCH2' \in [Bundle -> BOOLEAN]
       /\ fetch2' \in [valid : BOOLEAN, pc : PC, tc_hit : BOOLEAN]
  BY <1>0, <1>2, SquashDrains
<1>27. TypeOK'
  <2>1. CBP' \in Predictors /\ pc' \in PC
    BY <1>11, <1>15, <1>25 DEF Repaired
  <2> QED  BY <2>1, <1>0, <1>2, <1>19, <1>23, <1>24, <1>26 DEF TypeOK
<1>28. Drained'
  BY <1>2, <1>3, <1>4, <1>19, <1>26 DEF Drained
<1>29. StageInv' /\ BundleStart' = k
       /\ FetchedOK(window', BundleStart', fetch2'.pc, CBP'.fetch2_bhr)
  BY <1>19, <1>28, DrainedStages
<1>30. \A j \in 1..k : /\ j \in 1..B /\ j \in 1..Len(window)
                       /\ j \in 1..(k - 1) \/ j = k
  BY <1>3, <1>4
<1>31. InstInv'
  <2>1. \A j \in 1..(k - 1) : Predicts(window'[j]) /\ ~Misidentified(window'[j])
    <3>1. \A j \in 1..(k - 1) : j \in 1..Len(window) /\ j <= BundleStart
      BY <1>3, <1>4 DEF B
    <3> QED  BY <3>1, <1>0, <1>19 DEF InstInv
  <2>2. Predicts(x)
    BY <1>12, <1>15, <1>21 DEF Predicts, IsCond
  <2>3. ~Misidentified(x)
    BY <1>6, <1>21 DEF Misidentified
  <2>4. \A j \in 1..k : ~(j > k)
    BY <1>4
  <2> QED  BY <2>1, <2>2, <2>3, <2>4, <1>19, <1>20, <1>29, <1>30 DEF InstInv
<1>32. IdleInv'
  <2>1. ASSUME NEW j \in 1..k, Stops(window', j)
        PROVE  FALSE
    <3>1. window'[j].pc = window[j].pc
      BY <1>5, <1>19, <1>20, <1>21, <1>30
    <3>2. Stops(window, j)
      BY <2>1, <3>1 DEF Stops
    <3>3. j = Len(window)
      BY <3>2, <1>0, <1>30 DEF IdleInv, B
    <3>4. j = k
      BY <3>3, <1>3, <1>4
    <3>5. Program[i.pc].kind \in {"serialize", "fault"}
      BY <3>2, <3>4, <1>5 DEF Stops
    <3>6. Program[i.pc].kind = i.type /\ i.type \in BranchKinds
      BY <1>6, TrueKind DEF Insts
    <3> QED  BY <3>5, <3>6 DEF BranchKinds, Direct
  <2> QED  BY <2>1, <1>2, <1>29 DEF IdleInv
<1>33. QueueInv'
  BY <1>23, <1>24, <1>29 DEF QueueInv
<1>34. PICK g : g = [j \in 0..k |-> IF j < k THEN h[j]
                                   ELSE IF iscond THEN update_bhr(h[k - 1], taken)
                                   ELSE h[k - 1]]
  OBVIOUS
<1>35. /\ \A j \in 0..(k - 1) : g[j] = h[j]
       /\ g[k] = IF iscond THEN update_bhr(h[k - 1], taken) ELSE h[k - 1]
  BY <1>4, <1>34
<1>36. \A j \in 1..k : j - 1 \in 0..(k - 1)
  BY <1>4
<1>37. IsCond(x) <=> iscond
  BY <1>6, <1>10, <1>13, <1>21 DEF IsCond, Entered
<1>38. HistoryOK(g)'
  <2>1. Follows(g, base_bhr', window')
    <3>1. Follows(h, base_bhr, window)
      BY <1>1 DEF HistoryOK
    <3>2. g[0] = base_bhr'
      BY <3>1, <1>2, <1>4, <1>35 DEF Follows
    <3>3. ASSUME NEW j \in 1..(k - 1)
          PROVE  g[j] = IF IsCond(window'[j]) THEN update_bhr(g[j - 1], window'[j].taken)
                        ELSE g[j - 1]
      <4>1. j \in 0..(k - 1) /\ j - 1 \in 0..(k - 1) /\ j \in 1..Len(window)
        BY <1>3, <1>4
      <4> QED  BY <4>1, <3>1, <1>19, <1>35 DEF Follows
    <3>4. g[k] = IF IsCond(x) THEN update_bhr(g[k - 1], x.taken) ELSE g[k - 1]
      <4>1. g[k - 1] = h[k - 1]
        BY <1>4, <1>35
      <4> QED  BY <4>1, <1>21, <1>35, <1>37
    <3> QED  BY <3>2, <3>3, <3>4, <1>19, <1>20, <1>30 DEF Follows
  <2>2. LoggedOK(bq', CBP', window', k, g)
    <3>1. ASSUME NEW j \in Branches(window', k)
          PROVE  /\ CBP.log[window'[j].pred_tag].precise_bhr = g[j - 1]
                 /\ IsCond(window'[j]) =>
                      window'[j].fetch = <<bq'.bq[window'[j].pred_tag].fetch_pc,
                                           CBP.log[window'[j].pred_tag].fetch_bhr,
                                           bq'.bq[window'[j].pred_tag].fetch_cbID_in_bundle>>
      <4>1. j \in 1..k
        BY DEF Branches
      <4>2. CASE j = k
        <5>1. g[k - 1] = h[k - 1]
          BY <1>4, <1>35
        <5>2. CBP.log[tag].precise_bhr = h[k - 1]
              /\ (IsCond(i) => i.fetch = <<f.fetch_pc, CBP.log[tag].fetch_bhr,
                                           f.fetch_cbID_in_bundle>>)
          BY <1>5, <1>6, <1>7, <1>8, <1>9 DEF LoggedOK
        <5>3. bq'.bq[tag] = e
          BY <1>7, <1>23 DEF Queues
        <5>4. IsCond(x) => IsCond(i)
          BY <1>21 DEF IsCond
        <5> QED  BY <4>2, <5>1, <5>2, <5>3, <5>4, <1>8, <1>18, <1>20, <1>21
      <4>3. CASE j # k
        <5>1. j \in 1..(k - 1) /\ j \in 1..B
          BY <4>1, <4>3, <1>30
        <5>2. window'[j] = window[j] /\ window[j].branch
          BY <5>1, <1>19 DEF Branches
        <5>3. j \in Branches(window, B)
          BY <5>1, <5>2 DEF Branches
        <5>4. window[j].pred_tag # tag /\ window[j].pred_tag \in BQSlot
          <6>1. window[j].pred_tag # window[k].pred_tag
            BY <5>3, <4>3, <1>3, <1>6, <1>7, TagsDiffer
          <6>2. \A m \in Branches(window, B) : window[m].pred_tag \in BQSlot
            BY <1>3, <1>7, QueueSlots
          <6>3. window[k].pred_tag = tag
            BY <1>5, <1>8
          <6> QED  BY <6>1, <6>2, <6>3, <5>3, <4>3, <1>6
        <5>5. bq'.bq[window[j].pred_tag] = bq.bq[window[j].pred_tag]
          BY <5>4, <1>7, <1>23 DEF Queues
        <5>6. g[j - 1] = h[j - 1]
          BY <4>1, <1>35, <1>36
        <5> QED  BY <5>2, <5>3, <5>5, <5>6, <1>7 DEF LoggedOK
      <4> QED  BY <4>2, <4>3
    <3>2. CBP'.log = CBP.log
      BY <1>25 DEF Repaired
    <3> QED  BY <3>1, <3>2 DEF LoggedOK
  <2>3. CBP'.bhr = g[Len(window')]
    <3>1. CBP.log[tag].precise_bhr = h[k - 1]
      BY <1>5, <1>6, <1>7, <1>8 DEF LoggedOK
    <3> QED  BY <3>1, <1>19, <1>25, <1>35 DEF Repaired
  <2> QED  BY <2>1, <2>2, <2>3, <1>26, <1>29 DEF HistoryOK
<1> QED  BY <1>27, <1>29, <1>31, <1>32, <1>33, <1>38 DEF Inv, HistoryInv

-----------------------------------------------------------------------------
(* The oldest instruction retires.                                         *)
LEMMA TailEffect ==
  ASSUME NEW S, NEW w \in Seq(S), w # <<>>
  PROVE  /\ Tail(w) \in Seq(S) /\ Len(Tail(w)) = Len(w) - 1
         /\ \A k \in 1..(Len(w) - 1) : Tail(w)[k] = w[k + 1]
OBVIOUS

LEMMA CallStackType ==
  ASSUME NEW stack \in Seq(PC), NEW i \in Insts
  PROVE  CallStack(stack, i) \in Seq(PC)
<1>1. Inc(i.pc) \in PC
  <2>1. i.pc \in PC
    BY DEF Insts
  <2> QED  BY <2>1, IncType
<1>2. Append(stack, Inc(i.pc)) \in Seq(PC)
  BY <1>1
<1>3. stack # <<>> => Front(stack) \in Seq(PC)
  BY DEF Front
<1>4. \/ CallStack(stack, i) = stack
      \/ CallStack(stack, i) = Append(stack, Inc(i.pc))
      \/ stack # <<>> /\ CallStack(stack, i) = Front(stack)
  BY DEF CallStack
<1> QED  BY <1>2, <1>3, <1>4

(* What retirement does to the queue and the base of the history.          *)
LEMMA LeaveEffect ==
  ASSUME Inv, Retire, NEW h, HistoryOK(h), window # <<>>,
         NEW n \in Nat, n + 1 = BundleStart, n + 1 <= Len(window),
         \A k \in 1..(Len(window) - 1) : window'[k] = window[k + 1]
  PROVE  /\ bq' \in Queues /\ bq'.bq = bq.bq /\ bq'.tail = bq.tail
         /\ QueueOK(bq', window', n)
         /\ base_bhr' = h[1] /\ base_bhr' \in Int /\ base_stack' \in Seq(PC)
<1>0. TypeOK /\ StageInv /\ InstInv /\ QueueInv
  BY DEF Inv
<1>1. QueueOK(bq, window, n + 1) /\ bq \in Queues
  BY <1>0 DEF QueueInv, TypeOK
<1>2. Len(window) \in Nat /\ 1 \in 1..Len(window) /\ 1 \in 1..(n + 1)
  BY <1>0, StageFacts
<1>3. PICK i \in Insts : i = window[1] /\ Predicts(i) /\ ~Misidentified(i)
  BY <1>0, <1>2 DEF TypeOK, InstInv
<1>4. \A k \in 1..n : window'[k] = window[k + 1]
  <2>1. \A k \in 1..n : k \in 1..(Len(window) - 1)
    BY <1>2
  <2> QED  BY <2>1
<1>5. h[0] = base_bhr /\ h[1] = IF IsCond(i) THEN update_bhr(h[0], i.taken) ELSE h[0]
  <2>1. Follows(h, base_bhr, window)
    BY DEF HistoryOK
  <2>2. 1 - 1 = 0
    OBVIOUS
  <2> QED  BY <2>1, <2>2, <1>2, <1>3 DEF Follows
<1>6. base_bhr \in Int /\ base_stack \in Seq(PC)
  BY <1>0 DEF TypeOK
<1>7. CASE ~i.branch
  <2>1. bq' = bq /\ base_bhr' = base_bhr /\ base_stack' = base_stack
    BY <1>3, <1>7 DEF Retire
  <2>2. QueueOK(bq, window', n)
    BY <1>1, <1>3, <1>4, <1>7, QueueSkip
  <2>3. ~IsCond(i)
    BY <1>7 DEF IsCond
  <2> QED  BY <2>1, <2>2, <2>3, <1>1, <1>5, <1>6
<1>8. CASE i.branch
  <2>1. PICK e : e = bq.bq[bq.head]
    OBVIOUS
  <2>2. /\ bq' = pop(bq) /\ base_stack' = CallStack(base_stack, i)
        /\ base_bhr' = IF e.branch_type = "BTB_BRANCH" THEN update_bhr(base_bhr, e.taken)
                       ELSE base_bhr
    BY <2>1, <1>3, <1>8 DEF Retire
  <2>3. window[1].pred_tag = bq.head /\ QueueOK(pop(bq), window', n)
    BY <1>1, <1>3, <1>4, <1>8, QueueLeave
  <2>4. Entered(e, i)
    <3>1. 1 \in Branches(window, n + 1)
      BY <1>2, <1>3, <1>8 DEF Branches
    <3> QED  BY <3>1, <2>1, <2>3, <1>1, <1>3 DEF QueueOK
  <2>5. e.branch_type = "BTB_BRANCH" <=> IsCond(i)
    BY <2>4, <1>8 DEF Entered, IsCond
  <2>6. e \in BQEntries /\ e.taken \in BOOLEAN /\ i.taken \in BOOLEAN
    BY <2>1, <1>1 DEF Queues, BQEntries, Insts
  <2>7. IsCond(i) => e.taken = i.taken
    BY <2>4, <2>6, <1>3 DEF Entered, Predicts
  <2>8. base_bhr' = h[1]
    BY <2>2, <2>5, <2>7, <1>5
  <2>9. h[1] \in Int
    BY <2>6, <1>5, <1>6, UpdateType
  <2>10. base_stack' \in Seq(PC)
    BY <2>2, <1>6, CallStackType
  <2>11. pop(bq) \in Queues /\ pop(bq).bq = bq.bq /\ pop(bq).tail = bq.tail
    BY <1>1, PopEffect
  <2> QED  BY <2>2, <2>3, <2>8, <2>9, <2>10, <2>11
<1>9. i.branch \in BOOLEAN
  BY DEF Insts
<1> QED  BY <1>7, <1>8, <1>9

LEMMA RetireInv ==
  ASSUME Inv, Retire
  PROVE  Inv'
<1>0. TypeOK /\ StageInv /\ InstInv /\ IdleInv /\ QueueInv /\ HistoryInv
  BY DEF Inv
<1>1. PICK h : HistoryOK(h)
  BY <1>0 DEF HistoryInv
<1> DEFINE N == Len(window)
           B == BundleStart
<1>2. /\ Completed /\ HeadKind \notin {"serialize", "fault"} /\ window' = Tail(window)
      /\ pc' = pc /\ fetch_active' = fetch_active /\ fetch2' = fetch2
      /\ FETCH2' = FETCH2 /\ decode' = decode /\ CBP' = CBP /\ RBP' = RBP
  BY DEF Retire
<1>3. /\ N \in Nat /\ B \in Nat /\ InFetch2 \in Nat /\ decode \in Nat
      /\ B + InFetch2 = N /\ N <= MaxWindow /\ MaxWindow \in Nat
      /\ B - decode >= 1
  <2>1. /\ N \in Nat /\ B \in Nat /\ InFetch2 \in Nat /\ decode \in Nat
        /\ B + InFetch2 = N /\ N <= MaxWindow
    BY <1>0, StageFacts
  <2>2. MaxWindow \in Nat
    BY FetchUnitAssumption, BranchQueueAssumption
  <2>3. BackEnd = B - decode
    BY DEF BackEnd, BundleStart
  <2>4. BackEnd >= 1
    BY <1>2 DEF Completed
  <2> QED  BY <2>1, <2>2, <2>3, <2>4
<1>4. PICK n \in Nat : n + 1 = B /\ decode <= n
  <2>1. B - 1 \in Nat /\ (B - 1) + 1 = B /\ decode <= B - 1
    BY <1>3
  <2> QED  BY <2>1
<1> HIDE DEF B
<1>5. PICK m \in Nat : m + 1 = N /\ m = n + InFetch2
  <2>1. N - 1 \in Nat /\ (N - 1) + 1 = N /\ N - 1 = n + InFetch2
    BY <1>3, <1>4
  <2> QED  BY <2>1, Zenon
<1>6. window # <<>> /\ window \in Seq(Insts)
  BY <1>0, <1>5 DEF TypeOK
<1>7. /\ window' \in Seq(Insts) /\ Len(window') = m
      /\ \A k \in 1..m : window'[k] = window[k + 1]
      /\ \A k \in 1..(Len(window) - 1) : window'[k] = window[k + 1]
  <2>1. /\ window' \in Seq(Insts) /\ Len(window') = N - 1
        /\ \A k \in 1..(N - 1) : window'[k] = window[k + 1]
    BY <1>2, <1>6, TailEffect
  <2>2. N - 1 = m
    BY <1>3, <1>5
  <2> QED  BY <2>1, <2>2
<1> HIDE DEF N
<1>8. /\ bq' \in Queues /\ bq'.bq = bq.bq /\ bq'.tail = bq.tail
      /\ QueueOK(bq', window', n)
      /\ base_bhr' = h[1] /\ base_bhr' \in Int /\ base_stack' \in Seq(PC)
  <2>1. n + 1 = BundleStart /\ n + 1 <= Len(window)
    BY <1>3, <1>4, <1>5 DEF B, N
  <2> QED  BY <2>1, <1>1, <1>6, <1>7, LeaveEffect
<1>9. InFetch2' = InFetch2
  BY <1>2 DEF InFetch2
<1>10. BundleStart' = n
  BY <1>3, <1>5, <1>7, <1>9 DEF BundleStart
<1>11. \A k \in 1..m : /\ k + 1 \in 1..N
                       /\ window'[k] = window[k + 1]
                       /\ Stops(window', k) <=> Stops(window, k + 1)
  <2>1. \A k \in 1..m : k + 1 \in 1..N
    BY <1>5
  <2> QED  BY <2>1, <1>7 DEF Stops
<1>12. TypeOK'
  BY <1>0, <1>2, <1>7, <1>8 DEF TypeOK
<1>13. StageInv'
  <2>1. Serializers' = {} => Serializers = {}
    <3>1. SUFFICES ASSUME NEW z \in Serializers
                   PROVE  \E y : y \in Serializers'
      OBVIOUS
    <3>2. z \in 0..(InFetch2 - 1) /\ Program[window[B + 1 + z].pc].kind = "serialize"
      BY DEF Serializers, Kind, Fetched, B
    <3>3. n + 1 + z \in 1..m /\ (n + 1 + z) + 1 = B + 1 + z
      BY <3>2, <1>3, <1>4, <1>5
    <3>4. Program[window'[BundleStart' + 1 + z].pc].kind = "serialize"
      BY <3>2, <3>3, <1>10, <1>11
    <3>5. z \in Serializers'
      BY <3>2, <3>4, <1>9 DEF Serializers, Kind, Fetched
    <3> QED  BY <3>5
  <2>2. InFetch2' + decode' <= Len(window') /\ Len(window') <= MaxWindow
    BY <1>2, <1>3, <1>4, <1>5, <1>7, <1>9
  <2> QED  BY <2>1, <2>2, <1>0, <1>2, <1>9 DEF StageInv
<1>14. InstInv'
  <2>1. \A k \in 1..m : Predicts(window'[k])
    BY <1>0, <1>11 DEF InstInv, N
  <2>2. ASSUME NEW k \in 1..m, k <= n \/ fetch2'.tc_hit
        PROVE  ~Misidentified(window'[k])
    <3>1. k <= n => k + 1 <= BundleStart
      BY <1>4 DEF B
    <3> QED  BY <3>1, <2>2, <1>0, <1>2, <1>11 DEF InstInv, N
  <2>3. ASSUME NEW k \in 1..m, k > n, Program[window'[k].pc].kind = "fault"
        PROVE  k = m
    <3>1. k + 1 > BundleStart
      BY <2>3, <1>4 DEF B
    <3>2. k + 1 = N
      BY <3>1, <2>3, <1>0, <1>11 DEF InstInv, N
    <3> QED  BY <3>2, <1>5
  <2> QED  BY <2>1, <2>2, <2>3, <1>7, <1>10 DEF InstInv
<1>15. IdleInv'
  <2>1. ASSUME ~fetch_active
        PROVE  window' # <<>> /\ Stops(window', Len(window'))
    <3>1. Stops(window, N)
      BY <2>1, <1>0 DEF IdleInv, N
    <3>2. N # 1
      BY <3>1, <1>2 DEF HeadKind, Stops
    <3>3. m \in 1..m /\ m + 1 = N
      BY <3>2, <1>5
    <3>4. window' # <<>>
      BY <3>3, <1>7
    <3> QED  BY <3>1, <3>3, <3>4, <1>7, <1>11
  <2>2. ASSUME NEW k \in 1..n, Stops(window', k)
        PROVE  k = m /\ ~fetch_active
    <3>1. k \in 1..m /\ k + 1 \in 1..B
      BY <1>3, <1>4, <1>5
    <3>2. Stops(window, k + 1)
      BY <3>1, <2>2, <1>11
    <3>3. k + 1 = N /\ ~fetch_active
      BY <3>1, <3>2, <1>0 DEF IdleInv, N, B
    <3> QED  BY <3>3, <1>5
  <2> QED  BY <2>1, <2>2, <1>2, <1>7, <1>10 DEF IdleInv
<1>16. QueueInv'
  BY <1>0, <1>2, <1>8, <1>10 DEF QueueInv
<1>17. PICK g : g = [k \in 0..m |-> h[k + 1]]
  OBVIOUS
<1>18. \A k \in 0..m : g[k] = h[k + 1]
  BY <1>17
<1>19. HistoryOK(g)'
  <2>1. Follows(g, base_bhr', window')
    <3>1. Follows(h, base_bhr, window)
      BY <1>1 DEF HistoryOK
    <3>2. g[0] = base_bhr'
      <4>1. 0 \in 0..m /\ 0 + 1 = 1
        OBVIOUS
      <4> QED  BY <4>1, <1>8, <1>18
    <3>3. ASSUME NEW k \in 1..m
          PROVE  g[k] = IF IsCond(window'[k]) THEN update_bhr(g[k - 1], window'[k].taken)
                        ELSE g[k - 1]
      <4>1. k \in 0..m /\ k - 1 \in 0..m /\ (k - 1) + 1 = k /\ (k + 1) - 1 = k
        OBVIOUS
      <4>2. g[k] = h[k + 1] /\ g[k - 1] = h[k]
        BY <4>1, <1>18
      <4>3. h[k + 1] = IF IsCond(window[k + 1]) THEN update_bhr(h[k], window[k + 1].taken)
                       ELSE h[k]
        BY <3>1, <4>1, <1>11 DEF Follows, N
      <4> QED  BY <4>2, <4>3, <1>11
    <3> QED  BY <3>2, <3>3, <1>7 DEF Follows
  <2>2. LoggedOK(bq', CBP', window', n, g)
    <3>1. LoggedOK(bq, CBP, window, B, h)
      BY <1>1 DEF HistoryOK, B
    <3>2. ASSUME NEW k \in Branches(window', n)
          PROVE  /\ k + 1 \in Branches(window, B) /\ window'[k] = window[k + 1]
                 /\ g[k - 1] = h[(k + 1) - 1]
      <4>1. k \in 1..n /\ window'[k].branch
        BY DEF Branches
      <4>2. /\ k \in 1..m /\ k + 1 \in 1..B /\ k - 1 \in 0..m
            /\ (k - 1) + 1 = (k + 1) - 1
        BY <4>1, <1>3, <1>4, <1>5
      <4>3. window'[k] = window[k + 1] /\ g[k - 1] = h[(k - 1) + 1]
        BY <4>2, <1>7, <1>18
      <4> QED  BY <4>1, <4>2, <4>3 DEF Branches
    <3> QED  BY <3>1, <3>2, <1>2, <1>8, Zenon DEF LoggedOK
  <2>3. fetch2'.valid => CBP'.fetch2_bhr = g[n]
    <3>1. n \in 0..m
      BY <1>3, <1>5
    <3> QED  BY <3>1, <1>1, <1>2, <1>4, <1>18 DEF HistoryOK, B
  <2>4. fetch_active' => CBP'.bhr = g[Len(window')]
    <3>1. m \in 0..m
      OBVIOUS
    <3> QED  BY <3>1, <1>1, <1>2, <1>5, <1>7, <1>18 DEF HistoryOK, N
  <2>5. FetchedOK(window', n, fetch2'.pc, CBP'.fetch2_bhr)
    <3>1. FetchedOK(window, B, fetch2.pc, CBP.fetch2_bhr)
      BY <1>1 DEF HistoryOK, B
    <3>2. Len(window') - n = InFetch2 /\ Len(window) - B = InFetch2
      BY <1>3, <1>5, <1>7 DEF N
    <3>3. \A j \in 1..InFetch2 : window'[n + j] = window[B + j]
      <4>1. \A j \in 1..InFetch2 : n + j \in 1..m /\ (n + j) + 1 = B + j
        BY <1>3, <1>4, <1>5
      <4> QED  BY <4>1, <1>7
    <3>4. Conds(window', n) = Conds(window, B)
      BY <3>2, <3>3 DEF Conds
    <3>5. \A j \in Conds(window, B) : window'[n + j] = window[B + j]
      BY <3>2, <3>3 DEF Conds
    <3> QED  BY <3>1, <3>4, <3>5, <1>2 DEF FetchedOK
  <2> QED  BY <2>1, <2>2, <2>3, <2>4, <2>5, <1>10 DEF HistoryOK
<1> QED  BY <1>12, <1>13, <1>14, <1>15, <1>16, <1>19 DEF Inv, HistoryInv

-----------------------------------------------------------------------------
(* The fetch unit is flushed, and nothing is left in flight.               *)

(* Without a branch among the first m instructions the history stays.      *)
LEMMA FollowsStill ==
  ASSUME NEW h, NEW base, NEW w, Follows(h, base, w), NEW m \in Nat, m <= Len(w),
         Len(w) \in Nat, \A j \in 1..m : ~w[j].branch
  PROVE  h[m] = base
<1> DEFINE T == {j \in 0..m : h[j] # base}
<1>1. SUFFICES ASSUME T # {}  PROVE FALSE
  OBVIOUS
<1>2. T \in SUBSET Nat
  OBVIOUS
<1>3. PICK t \in T : \A y \in T : t <= y
  BY <1>1, <1>2, LeastNumber
<1>4. t # 0
  BY <1>3 DEF Follows
<1>5. t \in 1..m /\ t \in 1..Len(w) /\ t - 1 \in 0..m /\ t - 1 \notin T
  BY <1>3, <1>4
<1>6. h[t - 1] = base
  BY <1>5
<1>7. h[t] = h[t - 1]
  BY <1>5 DEF Follows, IsCond
<1> QED  BY <1>3, <1>6, <1>7

LEMMA PlaceNone ==
  ASSUME NEW size \in Nat \ {0}, NEW head \in 0..(size - 1), NEW hph \in BOOLEAN,
         NEW t, NEW ph, Place(<<t, ph>>, 0, head, hph, size)
  PROVE  t = head /\ ph = hph
<1>1. /\ t \in 0..(size - 1) /\ ph \in BOOLEAN
      /\ RingOK(head, hph, t, ph) /\ Occupancy(head, hph, t, ph, size) = 0
  BY DEF Place
<1>2. t = head
  BY <1>1 DEF RingOK, Occupancy
<1> QED  BY <1>1, <1>2 DEF RingOK, Occupancy

(* The entry at the head is that of the oldest branch; and a queue with no *)
(* branch is empty.                                                        *)
LEMMA HeadBranch ==
  ASSUME TypeOK, StageInv, QueueInv, ~empty(bq)
  PROVE  \E k \in Branches(window, BundleStart) :
           /\ window[k].pred_tag = bq.head /\ k - 1 \in Nat /\ k - 1 <= Len(window)
           /\ \A j \in 1..(k - 1) : ~window[j].branch
<1> DEFINE B == BundleStart
           M == Branches(window, B)
<1>1. QueueOK(bq, window, B) /\ bq \in Queues
  BY DEF QueueInv, TypeOK
<1>2. B \in Nat /\ Len(window) \in Nat /\ B <= Len(window)
  <2>1. /\ B \in Nat /\ Len(window) \in Nat /\ InFetch2 \in 0..instr_per_cycle
        /\ B + InFetch2 = Len(window)
    BY StageFacts
  <2> HIDE DEF B
  <2> QED  BY <2>1
<1>3. bq_size \in Nat \ {0} /\ bq.head \in 0..(bq_size - 1) /\ bq.head_phase \in BOOLEAN
      /\ bq.tail \in 0..(bq_size - 1) /\ bq.tail_phase \in BOOLEAN
  BY <1>1, SlotTypes DEF Queues
<1>4. M # {}
  <2>1. SUFFICES ASSUME M = {}  PROVE FALSE
    OBVIOUS
  <2>2. Elders({}, B + 1) = 0
    <3>1. B + 1 \in Nat /\ \A j \in 1..((B + 1) - 1) : j \in {} <=> j \in {}
      BY <1>2
    <3>2. Before({}, B + 1) = {}
      BY DEF Before
    <3> QED  BY <3>2, FS_EmptySet DEF Elders
  <2>3. Place(<<bq.tail, bq.tail_phase>>, 0, bq.head, bq.head_phase, bq_size)
    BY <2>1, <2>2, <1>1 DEF QueueOK
  <2>4. bq.tail = bq.head /\ bq.tail_phase = bq.head_phase
    BY <2>3, <1>3, PlaceNone
  <2> QED  BY <2>4 DEF empty
<1>5. M \in SUBSET Nat
  BY <1>2 DEF Branches
<1>6. PICK k \in M : \A j \in M : k <= j
  BY <1>4, <1>5, LeastNumber
<1> HIDE DEF B
<1>7. k \in 1..B /\ k - 1 \in Nat /\ k - 1 <= Len(window) /\ k \in Nat \ {0}
  BY <1>2, <1>6 DEF Branches
<1>8. \A j \in 1..(k - 1) : j \notin M /\ j \in 1..B
  BY <1>2, <1>5, <1>6, <1>7
<1>9. \A j \in 1..(k - 1) : ~window[j].branch
  BY <1>8 DEF Branches
<1>10. Elders(M, k) = 0
  <2>1. Before(M, k) = {}
    BY <1>7, <1>8 DEF Before
  <2> QED  BY <2>1, FS_EmptySet DEF Elders
<1>11. window[k].pred_tag = bq.head
  <2>1. window[k].pred_tag = Ahead(Elders(M, k), bq.head, bq_size)
    BY <1>1, <1>2, <1>6, QueueSlots
  <2>2. Ahead(0, bq.head, bq_size) = bq.head
    BY <1>3 DEF Ahead
  <2> QED  BY <2>1, <2>2, <1>10
<1> QED  BY <1>6, <1>7, <1>9, <1>11 DEF B

(* Its log is the history before all the branches.                         *)
LEMMA HeadLog ==
  ASSUME TypeOK, StageInv, QueueInv, NEW h, HistoryOK(h), ~empty(bq)
  PROVE  CBP.log[bq.head].precise_bhr = base_bhr
<1>1. LoggedOK(bq, CBP, window, BundleStart, h) /\ Follows(h, base_bhr, window)
  BY DEF HistoryOK
<1>2. PICK k \in Branches(window, BundleStart) :
        /\ window[k].pred_tag = bq.head /\ k - 1 \in Nat /\ k - 1 <= Len(window)
        /\ \A j \in 1..(k - 1) : ~window[j].branch
  BY HeadBranch
<1>3. Len(window) \in Nat
  BY StageFacts
<1>4. h[k - 1] = base_bhr
  BY <1>1, <1>2, <1>3, FollowsStill
<1>5. CBP.log[window[k].pred_tag].precise_bhr = h[k - 1]
  BY <1>1 DEF LoggedOK
<1> QED  BY <1>2, <1>4, <1>5

LEMMA FlushInv ==
  ASSUME Inv, NEW next_pc \in PC, flush(next_pc), Rebase, window' = <<>>, decode' = 0
  PROVE  Inv'
<1>0. TypeOK /\ StageInv /\ QueueInv /\ HistoryInv
  BY DEF Inv
<1>1. PICK h : HistoryOK(h)
  BY <1>0 DEF HistoryInv
<1>2. pc' = next_pc /\ fetch_active' = TRUE /\ squash_fetch2
  BY DEF flush
<1>3. bq \in Queues /\ CBP \in Predictors /\ RBP \in Stacks /\ bq.head \in BQSlot
      /\ base_bhr \in Int /\ base_stack \in Seq(PC) /\ RBP.tail = bq.tail
  BY <1>0 DEF TypeOK, Queues, QueueInv
<1>4. base_stack' \in Seq(PC)
  <2>1. <<>> \in Seq(PC)
    OBVIOUS
  <2> QED  BY <2>1, <1>3 DEF Rebase
<1>5. /\ bq' \in Queues /\ bq'.tail = bq'.head /\ bq'.tail_phase = bq'.head_phase
      /\ CBP' \in Predictors /\ CBP'.bhr = base_bhr' /\ base_bhr' \in Int
      /\ RBP' \in Stacks /\ RBP'.tail = bq'.tail
  <2>1. CASE empty(bq)
    <3>1. bq' = bq /\ CBP' = CBP /\ RBP' = RBP /\ base_bhr' = CBP.bhr
      BY <2>1 DEF flush, Rebase
    <3>2. bq.tail = bq.head /\ bq.tail_phase = bq.head_phase
      BY <2>1 DEF empty
    <3>3. CBP.bhr \in Int
      BY <1>3 DEF Predictors
    <3> QED  BY <3>1, <3>2, <3>3, <1>3
  <2>2. CASE ~empty(bq)
    <3>1. /\ bq' = BQFlush(bq) /\ CBP' = GshareFlush(CBP, bq.head)
          /\ RBP' = RASFlush(RBP, bq.head) /\ base_bhr' = base_bhr
      BY <2>2 DEF flush, Rebase
    <3>2. /\ BQFlush(bq) \in Queues
          /\ BQFlush(bq).head = bq.head /\ BQFlush(bq).head_phase = bq.head_phase
          /\ BQFlush(bq).tail = bq.head /\ BQFlush(bq).tail_phase = bq.head_phase
      BY <1>3, FlushEffect
    <3>3. /\ GshareFlush(CBP, bq.head) \in Predictors
          /\ GshareFlush(CBP, bq.head).bhr = CBP.log[bq.head].precise_bhr
      BY <1>3, GshareFlushEffect
    <3>4. CBP.log[bq.head].precise_bhr = base_bhr
      BY <1>0, <1>1, <2>2, HeadLog
    <3>5. RASFlush(RBP, bq.head) \in Stacks /\ RASFlush(RBP, bq.head).tail = bq.head
      BY <1>3, RASFlushEffect
    <3> QED  BY <3>1, <3>2, <3>3, <3>4, <3>5, <1>3
  <2> QED  BY <2>1, <2>2
<1>6. /\ ~fetch2'.valid /\ InFetch2' = 0 /\ \A p \in Bundle : ~FETCH2'[p]
      /\ FETCH2' \in [Bundle -> BOOLEAN]
      /\ fetch2' \in [valid : BOOLEAN, pc : PC, tc_hit : BOOLEAN]
  BY <1>0, <1>2, SquashDrains
<1>7. window' \in Seq(Insts) /\ Len(window') = 0
  OBVIOUS
<1>8. TypeOK'
  BY <1>2, <1>4, <1>5, <1>6, <1>7 DEF TypeOK
<1>9. Drained'
  <2>1. MaxWindow \in Nat
    BY FetchUnitAssumption, BranchQueueAssumption
  <2> QED  BY <2>1, <1>6, <1>7 DEF Drained
<1>10. /\ StageInv' /\ BundleStart' = 0
       /\ FetchedOK(window', BundleStart', fetch2'.pc, CBP'.fetch2_bhr)
  BY <1>7, <1>9, DrainedStages
<1>11. InstInv'
  BY <1>7 DEF InstInv
<1>12. IdleInv'
  BY <1>2, <1>10 DEF IdleInv
<1>13. QueueInv'
  <2>1. QueueOK(bq', window', 0)
    BY <1>5, QueueNone
  <2> QED  BY <2>1, <1>5, <1>10 DEF QueueInv
<1>14. PICK g : g = [k \in {0} |-> base_bhr']
  OBVIOUS
<1>15. g[0] = base_bhr'
  BY <1>14
<1>16. HistoryOK(g)'
  <2>1. Follows(g, base_bhr', window')
    BY <1>7, <1>15 DEF Follows
  <2>2. LoggedOK(bq', CBP', window', 0, g)
    <3>1. Branches(window', 0) = {}
      BY DEF Branches
    <3> QED  BY <3>1 DEF LoggedOK
  <2> QED  BY <2>1, <2>2, <1>5, <1>6, <1>7, <1>10, <1>15 DEF HistoryOK
<1> QED  BY <1>8, <1>10, <1>11, <1>12, <1>13, <1>16 DEF Inv, HistoryInv

(* Nothing is behind a serializing instruction that retires.               *)
LEMMA DrainedBySerializer ==
  ASSUME TypeOK, StageInv, IdleInv, RetireSerialize
  PROVE  Len(window) = 1 /\ decode = 0 /\ window' = <<>>
<1> DEFINE B == BundleStart
<1>1. Completed /\ HeadKind = "serialize" /\ window' = Tail(window)
  BY DEF RetireSerialize
<1>2. /\ Len(window) \in Nat /\ B \in Nat /\ InFetch2 \in Nat /\ decode \in Nat
      /\ B + InFetch2 = Len(window) /\ B - decode >= 1
  <2>1. /\ Len(window) \in Nat /\ B \in Nat /\ InFetch2 \in Nat /\ decode \in Nat
        /\ B + InFetch2 = Len(window)
    BY StageFacts
  <2>2. BackEnd = B - decode
    BY DEF BackEnd, BundleStart
  <2>3. BackEnd >= 1
    BY <1>1 DEF Completed
  <2> QED  BY <2>1, <2>2, <2>3
<1> HIDE DEF B
<1>3. Len(window) = 1 /\ decode = 0
  <2>1. 1 \in 1..B
    BY <1>2
  <2>2. Stops(window, 1)
    BY <1>1 DEF HeadKind, Stops
  <2>3. 1 = Len(window)
    BY <2>1, <2>2 DEF IdleInv, B
  <2> QED  BY <2>3, <1>2
<1>4. window \in Seq(Insts)
  BY DEF TypeOK
<1>5. window' = <<>>
  <2>1. window # <<>>
    BY <1>3
  <2>2. Tail(window) \in Seq(Insts) /\ Len(Tail(window)) = Len(window) - 1
    BY <2>1, <1>4, TailEffect
  <2>3. Len(Tail(window)) = 0
    BY <2>2, <1>3
  <2> QED  BY <2>2, <2>3, <1>1
<1> QED  BY <1>3, <1>5

LEMMA RetireSerializeInv ==
  ASSUME Inv, RetireSerialize
  PROVE  Inv'
<1>1. flush(Inc(window[1].pc)) /\ Rebase /\ decode' = decode
  BY DEF RetireSerialize
<1>2. Len(window) = 1 /\ decode = 0 /\ window' = <<>>
  BY DrainedBySerializer DEF Inv
<1>3. Inc(window[1].pc) \in PC
  <2>1. 1 \in 1..Len(window) /\ window \in Seq(Insts)
    BY <1>2 DEF Inv, TypeOK
  <2>2. window[1] \in Insts
    BY <2>1
  <2>3. window[1].pc \in PC
    BY <2>2 DEF Insts
  <2> QED  BY <2>3, IncType
<1> QED  BY <1>1, <1>2, <1>3, FlushInv

LEMMA RetireSquashInv ==
  ASSUME Inv, RetireSquash
  PROVE  Inv'
<1>0. TypeOK /\ StageInv /\ InstInv
  BY DEF Inv
<1>1. /\ Completed /\ ~window[1].branch /\ Rebase /\ window' = <<>> /\ decode' = 0
  BY DEF RetireSquash
<1>2a. 1 \in 1..Len(window) /\ 1 <= BundleStart
  <2>1. Len(window) \in Nat /\ InFetch2 \in Nat /\ decode \in Nat
    BY <1>0, StageFacts
  <2>2. Len(window) - InFetch2 - decode >= 1
    BY <1>1 DEF Completed, BackEnd
  <2> QED  BY <2>1, <2>2 DEF BundleStart
<1>2. window[1] \in Insts /\ window[1].pc \in PC
  <2>1. window[1] \in Insts
    BY <1>2a, <1>0 DEF TypeOK
  <2> QED  BY <2>1 DEF Insts
<1>3. /\ Inc(window[1].pc) \in PC /\ Handler \in PC
      /\ HeadKind \in {"plain", "serialize", "fault"} \cup BranchKinds
  BY <1>2, IncType, FetchUnitAssumption DEF HeadKind
<1>4. HeadKind \in {"plain", "serialize", "fault"}
  <2>1. ~Misidentified(window[1])
    BY <1>0, <1>2a DEF InstInv
  <2>2. ~Real(window[1].pc).branch
    <3>1. Real(window[1].pc).branch \in BOOLEAN
      BY <1>2, AnswerTypes DEF Identities
    <3>2. window[1].branch \in BOOLEAN
      BY <1>2 DEF Insts
    <3> QED  BY <2>1, <3>1, <3>2, <1>1 DEF Misidentified
  <2>3. HeadKind \notin BranchKinds
    BY <2>2 DEF HeadKind, Real
  <2> QED  BY <2>3, <1>3
<1>5. PICK next_pc \in PC : flush(next_pc)
  <2>1. PICK next_pc \in CASE HeadKind = "plain"     -> {window[1].pc, Inc(window[1].pc)}
                           [] HeadKind = "serialize" -> {window[1].pc, Handler}
                           [] HeadKind = "fault"     -> {Handler} :
               flush(next_pc)
    BY DEF RetireSquash
  <2>2. next_pc \in PC
    BY <2>1, <1>2, <1>3, <1>4
  <2> QED  BY <2>1, <2>2
<1> QED  BY <1>1, <1>5, FlushInv

-----------------------------------------------------------------------------
(* The initial state.                                                      *)
LEMMA InitTypes ==
  /\ EmptyBQ(BQEntry) \in Queues /\ InitialHistory \in Predictors /\ EmptyRAS \in Stacks
<1>1. 0 \in PC /\ 0 \in BQSlot /\ 0 \in RASSlot
  <2>1. 0 \in RASSlot
    BY StackTypes
  <2> QED  BY <2>1, ZeroPC, SlotTypes
<1>2. EmptyBQ(BQEntry) \in Queues
  <2>1. BQEntry \in BQEntries
    BY <1>1 DEF BQEntry, BQEntries, BranchKinds
  <2> HIDE DEF BQEntry
  <2> QED  BY <2>1, <1>1 DEF EmptyBQ, Queues
<1>3. InitialHistory \in Predictors
  BY DEF InitialHistory, Predictors
<1>4. EmptyRAS \in Stacks
  BY <1>1 DEF EmptyRAS, Stacks, RASEntries
<1> QED  BY <1>2, <1>3, <1>4

LEMMA InitInv ==
  ASSUME Init
  PROVE  Inv
<1>1. /\ pc = 0 /\ fetch_active = TRUE
      /\ fetch2 = [valid |-> FALSE, pc |-> 0, tc_hit |-> FALSE]
      /\ FETCH2 = [p \in Bundle |-> FALSE]
      /\ window = <<>> /\ decode = 0
      /\ bq = EmptyBQ(BQEntry) /\ CBP = InitialHistory /\ RBP = EmptyRAS
      /\ base_bhr = 0 /\ base_stack = <<>>
  BY DEF Init
<1>2. Len(window) = 0 /\ window \in Seq(Insts) /\ base_stack \in Seq(PC)
  BY <1>1
<1>3. TypeOK
  <2>1. fetch2 \in [valid : BOOLEAN, pc : PC, tc_hit : BOOLEAN]
    BY <1>1, ZeroPC
  <2>2. bq \in Queues /\ CBP \in Predictors /\ RBP \in Stacks
    BY <1>1, InitTypes
  <2> QED  BY <2>1, <2>2, <1>1, <1>2, ZeroPC DEF TypeOK
<1>4. InFetch2 = 0 /\ \A p \in Bundle : ~FETCH2[p]
  <2>1. 0 \in Bundle
    BY FetchUnitAssumption DEF Bundle
  <2> QED  BY <2>1, <1>1, NoneValid, InFetch2Valid
<1>5. BundleStart = 0 /\ ~fetch2.valid
  BY <1>1, <1>2, <1>4 DEF BundleStart
<1>6. StageInv
  <2>1. MaxWindow \in Nat
    BY FetchUnitAssumption, BranchQueueAssumption
  <2> QED  BY <2>1, <1>1, <1>2, <1>4 DEF StageInv
<1>7. InstInv
  BY <1>2 DEF InstInv
<1>8. IdleInv
  BY <1>1, <1>5 DEF IdleInv
<1>9. QueueInv
  <2>1. bq.tail = bq.head /\ bq.tail_phase = bq.head_phase /\ RBP.tail = bq.tail
    BY <1>1 DEF EmptyBQ, EmptyRAS
  <2>2. QueueOK(bq, window, 0)
    BY <2>1, <1>3, QueueNone DEF TypeOK
  <2> QED  BY <2>1, <2>2, <1>5 DEF QueueInv
<1>10. PICK g : g = [k \in {0} |-> 0]
  OBVIOUS
<1>11. HistoryOK(g)
  <2>1. Follows(g, base_bhr, window)
    BY <1>1, <1>2, <1>10 DEF Follows
  <2>2. LoggedOK(bq, CBP, window, 0, g)
    <3>1. Branches(window, 0) = {}
      BY DEF Branches
    <3> QED  BY <3>1 DEF LoggedOK
  <2>3. CBP.bhr = g[Len(window)]
    BY <1>1, <1>2, <1>10 DEF InitialHistory
  <2>4. FetchedOK(window, 0, fetch2.pc, CBP.fetch2_bhr)
    BY <1>2 DEF FetchedOK, Conds
  <2> QED  BY <2>1, <2>2, <2>3, <2>4, <1>5 DEF HistoryOK
<1> QED  BY <1>3, <1>6, <1>7, <1>8, <1>9, <1>11 DEF Inv, HistoryInv

(* Whatever is fetched, predicted, resolved and retired, the stages, the   *)
(* branch queue and the logs stay in step with the instructions in flight: *)
(* the invariant from which the properties below follow.                   *)
THEOREM FetchInvariant == Spec => []Inv
<1>1. Init => Inv
  BY InitInv
<1>2. Inv /\ [Next]_vars => Inv'
  <2> SUFFICES ASSUME Inv, [Next]_vars
               PROVE  Inv'
    OBVIOUS
  <2>1. CASE Fetch1
    BY <2>1, Fetch1Inv
  <2>2. CASE Fetch2Misfetch
    BY <2>2, MisfetchInv
  <2>3. CASE Fetch2Stall
    BY <2>3, StallInv
  <2>4. CASE Fetch2Advance
    BY <2>4, AdvanceInv
  <2>5. CASE Decode
    BY <2>5, DecodeInv
  <2>6. CASE \E k \in 1..Len(window) : ResolveCorrect(k) \/ Mispredict(k)
    BY <2>6, ResolveInv, MispredictInv
  <2>7. CASE Retire
    BY <2>7, RetireInv
  <2>8. CASE RetireSerialize
    BY <2>8, RetireSerializeInv
  <2>9. CASE RetireSquash
    BY <2>9, RetireSquashInv
  <2>10. CASE UNCHANGED vars
    BY <2>10, StutterInv
  <2> QED
    BY <2>1, <2>2, <2>3, <2>4, <2>5, <2>6, <2>7, <2>8, <2>9, <2>10 DEF Next
<1> QED  BY <1>1, <1>2, PTL DEF Spec

-----------------------------------------------------------------------------
(* A name between head and tail passes the checks of rollback().           *)
LEMMA PlaceInQueue ==
  ASSUME NEW q \in Queues, NEW d, NEW e, NEW tag, NEW phase, d < e,
         Place(<<q.tail, q.tail_phase>>, e, q.head, q.head_phase, bq_size),
         Place(<<tag, phase>>, d, q.head, q.head_phase, bq_size), d \in Nat
  PROVE  InQueue(q, tag, phase)
<1>1. /\ bq_size \in Nat \ {0} /\ q.head \in 0..(bq_size - 1)
      /\ q.head_phase \in BOOLEAN /\ q.tail \in 0..(bq_size - 1)
      /\ q.tail_phase \in BOOLEAN
  BY SlotTypes DEF Queues
<1>2. /\ RingOK(q.head, q.head_phase, q.tail, q.tail_phase)
      /\ Occupancy(q.head, q.head_phase, q.tail, q.tail_phase, bq_size) = e
  BY DEF Place
<1>3. /\ tag \in 0..(bq_size - 1) /\ phase \in BOOLEAN
      /\ RingOK(q.head, q.head_phase, tag, phase)
      /\ Occupancy(q.head, q.head_phase, tag, phase, bq_size) = d
  BY DEF Place
<1>4. CASE q.head_phase = q.tail_phase
  <2>1. q.head <= q.tail /\ e = q.tail - q.head
    BY <1>1, <1>2, <1>4 DEF RingOK, Occupancy
  <2>2. q.head < q.tail
    BY <2>1, <1>1
  <2>3. phase = q.head_phase /\ tag >= q.head /\ tag < q.tail
    BY <2>1, <1>1, <1>3 DEF RingOK, Occupancy
  <2> QED  BY <2>2, <2>3, <1>1, <1>4 DEF InQueue, empty
<1>5. CASE q.head_phase # q.tail_phase
  <2>1. q.tail <= q.head /\ e = bq_size - (q.head - q.tail)
    BY <1>1, <1>2, <1>5 DEF RingOK, Occupancy
  <2>2. phase = q.head_phase => tag >= q.head
    BY <1>3 DEF RingOK
  <2>3. phase # q.head_phase => tag < q.tail
    BY <2>1, <1>1, <1>3 DEF RingOK, Occupancy
  <2> QED  BY <2>1, <2>2, <2>3, <1>1, <1>3, <1>5 DEF InQueue, empty
<1> QED  BY <1>4, <1>5

LEMMA PushedBranches ==
  ASSUME TypeOK, StageInv
  PROVE  /\ Pushed = Branches(window, BundleStart) /\ BundleStart \in Nat
         /\ Elders(Pushed, BundleStart + 1) = Cardinality(Pushed)
         /\ \A k \in Pushed : Elders(Pushed, k) = Older(k)
<1>1. PICK b \in Nat : b = BundleStart
  BY StageFacts
<1>2. Pushed = Branches(window, b)
  BY <1>1 DEF Pushed, Branches
<1>3. Before(Pushed, b + 1) = Pushed
  BY <1>2 DEF Before, Branches
<1>4. ASSUME NEW k \in Pushed
      PROVE  Before(Pushed, k) = {j \in Pushed : j < k}
  BY <1>2 DEF Before, Branches
<1> QED  BY <1>1, <1>2, <1>3, <1>4 DEF Elders, Older

(* After any interleaving of pushes, rollbacks, pops and flushes, the      *)
(* branch queue holds the branches past Fetch2, in order, under their      *)
(* names.                                                                  *)
THEOREM QueueMirrors == Spec => []BranchQueueMirrors
<1>1. Inv => BranchQueueMirrors
  <2> SUFFICES ASSUME Inv
               PROVE  BranchQueueMirrors
    OBVIOUS
  <2>1. TypeOK /\ StageInv /\ QueueInv
    BY DEF Inv
  <2> DEFINE B == BundleStart
             M == Branches(window, B)
  <2>2. QueueOK(bq, window, B) /\ bq \in Queues /\ RBP.tail = bq.tail
    BY <2>1 DEF QueueInv, TypeOK
  <2>3. /\ Pushed = M /\ B \in Nat
        /\ Elders(M, B + 1) = Cardinality(M)
        /\ \A k \in M : Elders(M, k) = Older(k)
    BY <2>1, PushedBranches
  <2>4. Place(<<bq.tail, bq.tail_phase>>, Elders(M, B + 1), bq.head, bq.head_phase,
              bq_size)
    BY <2>2 DEF QueueOK
  <2>5. BQLength(bq) = Cardinality(Pushed)
    BY <2>3, <2>4 DEF BQLength, Place
  <2>6. ASSUME NEW k \in M
        PROVE  /\ window[k].pred_tag = Ahead(Older(k), bq.head, bq_size)
               /\ bq.bq[window[k].pred_tag].branch_type = window[k].type
               /\ bq.bq[window[k].pred_tag].next_pc = window[k].next_pc
               /\ InQueue(bq, window[k].pred_tag, window[k].pred_tag_phase)
    <3>1. /\ window[k].pred_tag = Ahead(Elders(M, k), bq.head, bq_size)
          /\ Elders(M, k) \in 0..(bq_size - 1) /\ Elders(M, k) < Elders(M, B + 1)
      BY <2>2, <2>3, QueueSlots
    <3>2. /\ Place(TagOf(window, k), Elders(M, k), bq.head, bq.head_phase, bq_size)
          /\ Entered(bq.bq[window[k].pred_tag], window[k])
      BY <2>2 DEF QueueOK
    <3>3. InQueue(bq, window[k].pred_tag, window[k].pred_tag_phase)
      <4>1. Elders(M, k) \in Nat
        BY <3>1
      <4> QED  BY <4>1, <3>1, <3>2, <2>2, <2>4, PlaceInQueue DEF TagOf
    <3> QED  BY <3>1, <3>2, <3>3, <2>3 DEF Entered
  <2> QED  BY <2>2, <2>3, <2>5, <2>6 DEF BranchQueueMirrors
<1> QED  BY <1>1, FetchInvariant, PTL

(* No misfetch or misprediction loses or repeats a direction of the        *)
(* speculative branch history, and no flush with a branch in the queue.    *)
(* What a flush with an empty queue leaves (fetchunit.cc:707) is the       *)
(* history from which base_bhr goes on.                                    *)
THEOREM HistoryIsExact == Spec => []HistoryExact
<1>1. Inv => HistoryExact
  <2> SUFFICES ASSUME Inv, fetch_active
               PROVE  CBP.bhr = After(base_bhr, Directions(window))
    BY DEF HistoryExact
  <2>1. TypeOK /\ HistoryInv
    BY DEF Inv
  <2>2. PICK h : HistoryOK(h)
    BY <2>1 DEF HistoryInv
  <2>3. Follows(h, base_bhr, window) /\ CBP.bhr = h[Len(window)]
    BY <2>2 DEF HistoryOK
  <2>4. window \in Seq(Insts) /\ Len(window) \in Nat
    BY <2>1 DEF TypeOK
  <2>5. PICK n \in Nat : n = Len(window)
    BY <2>4
  <2>6. PICK d : d = Directions(window)
    OBVIOUS
  <2>7. d = [k \in 1..n |-> [cond |-> IsCond(window[k]), taken |-> window[k].taken]]
    BY <2>4, <2>5, <2>6 DEF Directions
  <2> DEFINE S == {d[k] : k \in 1..n}
  <2>8. d \in Seq(S) /\ Len(d) = n
    <3>1. d \in [1..n -> S]
      BY <2>7
    <3> HIDE DEF S
    <3> QED  BY <3>1, <2>7
  <2>9. \A k \in 1..n : Enter(h[k - 1], d[k])
                         = IF IsCond(window[k]) THEN update_bhr(h[k - 1], window[k].taken)
                           ELSE h[k - 1]
    BY <2>7 DEF Enter
  <2>10. Histories!Steps(h, base_bhr, d)
    BY <2>3, <2>5, <2>8, <2>9 DEF Follows, Histories!Steps
  <2> HIDE DEF S
  <2>11. After(base_bhr, d) = Histories!Fold(base_bhr, d)
    BY DEF After, FoldLeft, MapThenFoldSet, Max,
         Histories!Fold, Histories!Latest
  <2>12. PICK g : /\ Histories!Steps(g, base_bhr, d)
                  /\ Histories!Fold(base_bhr, d) = g[Len(d)]
    BY <2>8, WellOrder, Histories!FoldSteps
  <2>13. g[n] = h[n]
    BY <2>8, <2>10, <2>12, WellOrder, Histories!StepsUnique
  <2> QED  BY <2>3, <2>5, <2>6, <2>8, <2>11, <2>12, <2>13
<1> QED  BY <1>1, FetchInvariant, PTL

(* A conditional branch trains the predictor with the fetch pc, history    *)
(* and position that its prediction was read with.                         *)
THEOREM TrainsPredicted == Spec => []TrainsWhatPredicted
<1>1. Inv => TrainsWhatPredicted
  <2> SUFFICES ASSUME Inv
               PROVE  TrainsWhatPredicted
    OBVIOUS
  <2>1. PICK h : HistoryOK(h)
    BY DEF Inv, HistoryInv
  <2>2. LoggedOK(bq, CBP, window, BundleStart, h)
    BY <2>1 DEF HistoryOK
  <2>3. \A k \in 1..BundleStart :
          IsCond(window[k]) => k \in Branches(window, BundleStart)
    BY DEF Branches, IsCond
  <2> QED  BY <2>2, <2>3 DEF LoggedOK, TrainsWhatPredicted
<1> QED  BY <1>1, FetchInvariant, PTL

(* Fetch idles only behind an instruction that resumes it, and nothing is  *)
(* behind such an instruction once it is predecoded.                       *)
THEOREM IdlesBehindSerializer == Spec => []IdleBehindSerializer
<1>1. Inv => IdleBehindSerializer
  BY DEF Inv, IdleInv, IdleBehindSerializer, Stops
<1> QED  BY <1>1, FetchInvariant, PTL

(* A direct jump or call is never mispredicted, as commit() asserts.       *)
THEOREM DirectIsRight == Spec => []DirectNeverMispredicted
<1>1. Inv => DirectNeverMispredicted
  <2> SUFFICES ASSUME Inv
               PROVE  DirectNeverMispredicted
    OBVIOUS
  <2>1. TypeOK /\ StageInv /\ QueueOK(bq, window, BundleStart)
    BY DEF Inv, QueueInv
  <2>2. Pushed = Branches(window, BundleStart)
    BY <2>1, PushedBranches
  <2> QED  BY <2>1, <2>2 DEF QueueOK, Entered, DirectNeverMispredicted
<1> QED  BY <1>1, FetchInvariant, PTL

-----------------------------------------------------------------------------
(* The return address stack along the window.                              *)
Moved(t, i) ==
  IF IsCall(i) THEN Above(t) ELSE IF IsReturn(i) THEN Below(t, ras_size) ELSE t

(* The slot d below slot t; the top of the stack is at slot t.             *)
Spot(t, d) == IF t >= d THEN t - d ELSE t - d + ras_size
HoldsAt(ras, t, stack) ==
  \A m \in 1..Len(stack) : ras[Spot(t, Len(stack) - m)] = stack[m]

(* s[k] and t[k] are the open calls and the top after k instructions of w. *)
Path(s, t, base, w) ==
  /\ s[0] = base
  /\ \A k \in 0..Len(w) : /\ s[k] \in Seq(PC) /\ Len(s[k]) <= MaxDepth
                          /\ t[k] \in RASSlot
  /\ \A k \in 1..Len(w) : /\ s[k] = CallStack(s[k - 1], w[k])
                          /\ t[k] = Moved(t[k - 1], w[k])

(* Address v, the m-th of the open calls after k instructions, is at x.    *)
Lies(s, t, k, m, v, x) ==
  m \in 1..Len(s[k]) /\ s[k][m] = v /\ Spot(t[k], Len(s[k]) - m) = x

LEMMA DepthBound == MaxDepth \in Nat /\ MaxDepth <= ras_size /\ ras_size \in Nat \ {0}
BY FetchUnitAssumption, ReturnStackAssumption

LEMMA SpotFacts ==
  ASSUME NEW t \in RASSlot
  PROVE  /\ Spot(t, 0) = t
         /\ \A d \in 0..(ras_size - 1) : Spot(t, d) \in RASSlot
         /\ \A d, e \in 0..(ras_size - 1) : Spot(t, d) = Spot(t, e) => d = e
         /\ \A d \in 0..(ras_size - 1) : Spot(Above(t), d + 1) = Spot(t, d)
         /\ \A d \in 0..(ras_size - 1) : Spot(Below(t, ras_size), d) = Spot(t, d + 1)
         /\ Spot(Above(t), 0) = Above(t) /\ Above(t) = Spot(t, ras_size - 1)
<1>1. t \in 0..(ras_size - 1) /\ ras_size \in Nat \ {0}
  BY StackTypes
<1>2. /\ Spot(t, 0) = t
      /\ \A d \in 0..(ras_size - 1) : Spot(t, d) \in 0..(ras_size - 1)
  BY <1>1 DEF Spot
<1>3. \A d, e \in 0..(ras_size - 1) : Spot(t, d) = Spot(t, e) => d = e
  BY <1>1 DEF Spot
<1>4. \A d \in 0..(ras_size - 1) : Spot(Above(t), d + 1) = Spot(t, d)
  BY <1>1 DEF Spot, Above, Next1
<1>5. \A d \in 0..(ras_size - 1) : Spot(Below(t, ras_size), d) = Spot(t, d + 1)
  BY <1>1 DEF Spot, Below
<1>6. Spot(Above(t), 0) = Above(t) /\ Above(t) = Spot(t, ras_size - 1)
  BY <1>1 DEF Spot, Above, Next1
<1> QED  BY <1>2, <1>3, <1>4, <1>5, <1>6, StackTypes

(* What a call, a return and any other instruction do to the open calls.   *)
LEMMA CallStackCases ==
  ASSUME NEW st \in Seq(PC), NEW i
  PROVE  /\ IsCall(i) => CallStack(st, i) = Append(st, Inc(i.pc))
         /\ IsReturn(i) => CallStack(st, i) = IF st = <<>> THEN st ELSE Front(st)
         /\ ~Turns(i) => CallStack(st, i) = st
         /\ IsReturn(i) => ~IsCall(i)
BY DEF CallStack, IsCall, IsReturn, Turns, Calls

LEMMA FrontFacts ==
  ASSUME NEW S, NEW st \in Seq(S), st # <<>>
  PROVE  /\ Front(st) \in Seq(S) /\ Len(Front(st)) = Len(st) - 1
         /\ \A m \in 1..(Len(st) - 1) : Front(st)[m] = st[m]
<1>1. PICK n \in Nat : n = Len(st) - 1 /\ n <= Len(st)
  <2>1. Len(st) \in Nat \ {0}
    OBVIOUS
  <2>2. Len(st) - 1 \in Nat /\ Len(st) - 1 <= Len(st)
    BY <2>1
  <2> QED  BY <2>2
<1>2. Front(st) = SubSeq(st, 1, n)
  BY <1>1 DEF Front
<1>3. SubSeq(st, 1, n) \in Seq(S) /\ Len(SubSeq(st, 1, n)) = n
  BY <1>1
<1>4. \A m \in 1..n : SubSeq(st, 1, n)[m] = st[m]
  BY <1>1
<1> QED  BY <1>1, <1>2, <1>3, <1>4

LEMMA AppendFacts ==
  ASSUME NEW S, NEW st \in Seq(S), NEW x \in S
  PROVE  /\ Append(st, x) \in Seq(S) /\ Len(Append(st, x)) = Len(st) + 1
         /\ Append(st, x)[Len(st) + 1] = x
         /\ \A m \in 1..Len(st) : Append(st, x)[m] = st[m]
OBVIOUS

(* An address stays where it is unless a branch pops it.                   *)
LEMMA LiesStep ==
  ASSUME NEW s, NEW t, NEW base, NEW w, Len(w) \in Nat, Path(s, t, base, w),
         NEW k \in 1..Len(w), NEW m, NEW v, NEW x, Lies(s, t, k - 1, m, v, x),
         w[k].branch => t[k - 1] # x, w[k].branch => w[k].pc \in PC
  PROVE  Lies(s, t, k, m, v, x)
<1>1. k \in 0..Len(w) /\ k - 1 \in 0..Len(w)
  OBVIOUS
<1>2. PICK a, b, p, q : a = s[k - 1] /\ b = s[k] /\ p = t[k - 1] /\ q = t[k]
  OBVIOUS
<1>3. /\ a \in Seq(PC) /\ Len(a) <= MaxDepth /\ b \in Seq(PC) /\ Len(b) <= MaxDepth
      /\ p \in RASSlot /\ q \in RASSlot
      /\ b = CallStack(a, w[k]) /\ q = Moved(p, w[k])
  BY <1>1, <1>2 DEF Path
<1>4. m \in 1..Len(a) /\ a[m] = v /\ Spot(p, Len(a) - m) = x
  BY <1>2 DEF Lies
<1>5. SUFFICES m \in 1..Len(b) /\ b[m] = v /\ Spot(q, Len(b) - m) = x
  BY <1>2 DEF Lies
<1>6. /\ MaxDepth \in Nat /\ MaxDepth <= ras_size /\ ras_size \in Nat \ {0}
      /\ Len(a) \in Nat /\ Len(b) \in Nat
  BY <1>3, DepthBound
<1>7. Len(a) - m \in 0..(ras_size - 1)
  BY <1>3, <1>4, <1>6
<1>8. CASE IsCall(w[k])
  <2>1. b = Append(a, Inc(w[k].pc)) /\ q = Above(p)
    BY <1>3, <1>8, CallStackCases DEF Moved
  <2>2. Inc(w[k].pc) \in PC
    BY <1>8, IncType DEF IsCall
  <2>3. Len(b) = Len(a) + 1 /\ m \in 1..Len(b) /\ b[m] = a[m]
    BY <1>3, <1>4, <2>1, <2>2
  <2>4. Spot(q, (Len(a) - m) + 1) = Spot(p, Len(a) - m)
    BY <1>3, <1>7, <2>1, SpotFacts
  <2>5. Len(b) - m = (Len(a) - m) + 1
    BY <2>3, <1>6, <1>4
  <2> QED  BY <2>3, <2>4, <2>5, <1>4
<1>9. CASE IsReturn(w[k])
  <2>1. a # <<>>
    BY <1>4
  <2>2. b = Front(a) /\ q = Below(p, ras_size)
    BY <1>3, <1>9, <2>1, CallStackCases DEF Moved
  <2>3. Len(b) = Len(a) - 1 /\ \A j \in 1..(Len(a) - 1) : b[j] = a[j]
    BY <2>1, <2>2, <1>3, FrontFacts
  <2>4. Len(a) - m # 0
    <3>1. SUFFICES ASSUME Len(a) - m = 0  PROVE FALSE
      OBVIOUS
    <3>2. Spot(p, 0) = p
      BY <1>3, SpotFacts
    <3> QED  BY <3>1, <3>2, <1>2, <1>4, <1>9 DEF IsReturn
  <2>5. m \in 1..(Len(a) - 1) /\ Len(b) - m = (Len(a) - m) - 1
    BY <2>3, <2>4, <1>4, <1>6
  <2>6. (Len(a) - m) - 1 \in 0..(ras_size - 1) /\ ((Len(a) - m) - 1) + 1 = Len(a) - m
    BY <2>4, <1>4, <1>6, <1>7
  <2>7. Spot(q, (Len(a) - m) - 1) = Spot(p, Len(a) - m)
    <3>1. PICK d \in 0..(ras_size - 1) : d = (Len(a) - m) - 1 /\ d + 1 = Len(a) - m
      BY <2>6
    <3>2. Spot(Below(p, ras_size), d) = Spot(p, d + 1)
      BY <1>3, SpotFacts
    <3> QED  BY <3>1, <3>2, <2>2
  <2> QED  BY <2>3, <2>5, <2>7, <1>4
<1>10. CASE ~Turns(w[k])
  <2>1. b = a /\ q = p
    BY <1>3, <1>10, CallStackCases DEF Moved, Turns
  <2> QED  BY <2>1, <1>4
<1> QED  BY <1>8, <1>9, <1>10 DEF Turns

LEMMA LiesOn ==
  ASSUME NEW s, NEW t, NEW base, NEW w, Len(w) \in Nat, Path(s, t, base, w),
         \A j \in 1..Len(w) : w[j].pc \in PC,
         NEW p \in 0..Len(w), NEW q \in p..Len(w),
         NEW m, NEW v, NEW x, Lies(s, t, p, m, v, x),
         \A j \in (p + 1)..q : w[j].branch => t[j - 1] # x
  PROVE  Lies(s, t, q, m, v, x)
<1> DEFINE T == {k \in p..q : ~Lies(s, t, k, m, v, x)}
<1>1. SUFFICES ASSUME T # {}  PROVE FALSE
  OBVIOUS
<1>2. T \in SUBSET Nat
  OBVIOUS
<1>3. PICK k \in T : \A y \in T : k <= y
  BY <1>1, <1>2, LeastNumber
<1>4. k # p
  BY <1>3
<1>5. /\ k \in (p + 1)..q /\ k - 1 \in p..q /\ k - 1 < k /\ k \in 1..Len(w)
  BY <1>3, <1>4
<1>6. k - 1 \notin T
  BY <1>3, <1>5
<1>7. Lies(s, t, k - 1, m, v, x)
  BY <1>5, <1>6
<1>8. w[k].pc \in PC /\ (w[k].branch => t[k - 1] # x)
  BY <1>5
<1>9. Lies(s, t, k, m, v, x)
  BY <1>5, <1>7, <1>8, LiesStep
<1> QED  BY <1>3, <1>9

(* A push and the stack below it.                                          *)
LEMMA HoldsPush ==
  ASSUME NEW ras \in [RASSlot -> PC], NEW t \in RASSlot, NEW st \in Seq(PC),
         HoldsAt(ras, t, st), Len(st) < MaxDepth, NEW x \in PC
  PROVE  /\ HoldsAt([ras EXCEPT ![Above(t)] = x], t, st)
         /\ HoldsAt([ras EXCEPT ![Above(t)] = x], Above(t), Append(st, x))
<1>1. /\ MaxDepth \in Nat /\ MaxDepth <= ras_size /\ ras_size \in Nat \ {0}
      /\ Len(st) \in Nat /\ Above(t) \in RASSlot
  BY DepthBound, StackTypes
<1>2. PICK r : r = [ras EXCEPT ![Above(t)] = x]
  OBVIOUS
<1>3. ASSUME NEW m \in 1..Len(st)
      PROVE  r[Spot(t, Len(st) - m)] = st[m]
  <2>1. /\ Len(st) - m \in 0..(ras_size - 1) /\ Len(st) - m # ras_size - 1
        /\ ras_size - 1 \in 0..(ras_size - 1)
    BY <1>1
  <2>2. Spot(t, Len(st) - m) # Above(t) /\ Spot(t, Len(st) - m) \in RASSlot
    BY <2>1, SpotFacts
  <2> QED  BY <2>2, <1>2 DEF HoldsAt
<1>4. ASSUME NEW m \in 1..(Len(st) + 1)
      PROVE  r[Spot(Above(t), (Len(st) + 1) - m)] = Append(st, x)[m]
  <2>1. CASE m = Len(st) + 1
    <3>1. (Len(st) + 1) - m = 0 /\ Append(st, x)[m] = x
      BY <2>1, <1>1
    <3>2. Spot(Above(t), 0) = Above(t)
      BY SpotFacts
    <3> QED  BY <3>1, <3>2, <1>1, <1>2
  <2>2. CASE m \in 1..Len(st)
    <3>1. Len(st) - m \in 0..(ras_size - 1) /\ (Len(st) + 1) - m = (Len(st) - m) + 1
      BY <2>2, <1>1
    <3>2. Spot(Above(t), (Len(st) - m) + 1) = Spot(t, Len(st) - m)
      BY <3>1, SpotFacts
    <3>3. Append(st, x)[m] = st[m]
      BY <2>2
    <3> QED  BY <3>1, <3>2, <3>3, <2>2, <1>3
  <2> QED  BY <2>1, <2>2, <1>1
<1>5. Len(Append(st, x)) = Len(st) + 1
  BY <1>1
<1> QED  BY <1>2, <1>3, <1>4, <1>5 DEF HoldsAt

(* A return leaves what is below the top where it is.                      *)
LEMMA HoldsPop ==
  ASSUME NEW ras, NEW t \in RASSlot, NEW st \in Seq(PC), HoldsAt(ras, t, st),
         Len(st) <= MaxDepth, st # <<>>
  PROVE  HoldsAt(ras, Below(t, ras_size), Front(st))
<1>1. /\ MaxDepth \in Nat /\ MaxDepth <= ras_size /\ ras_size \in Nat \ {0}
      /\ Len(st) \in Nat \ {0}
  BY DepthBound
<1>2. Len(Front(st)) = Len(st) - 1 /\ \A m \in 1..(Len(st) - 1) : Front(st)[m] = st[m]
  BY FrontFacts
<1>3. ASSUME NEW m \in 1..(Len(st) - 1)
      PROVE  ras[Spot(Below(t, ras_size), (Len(st) - 1) - m)] = Front(st)[m]
  <2>1. /\ (Len(st) - 1) - m \in 0..(ras_size - 1) /\ m \in 1..Len(st)
        /\ ((Len(st) - 1) - m) + 1 = Len(st) - m
    BY <1>1
  <2>2. Spot(Below(t, ras_size), (Len(st) - 1) - m) = Spot(t, Len(st) - m)
    BY <2>1, SpotFacts
  <2> QED  BY <2>1, <2>2, <1>2 DEF HoldsAt
<1> QED  BY <1>2, <1>3 DEF HoldsAt

(* The top of a stack that holds open calls is the last of them.           *)
LEMMA HoldsTop ==
  ASSUME NEW ras, NEW t \in RASSlot, NEW st \in Seq(PC), HoldsAt(ras, t, st), st # <<>>
  PROVE  ras[t] = Last(st)
<1>1. Len(st) \in 1..Len(st) /\ Len(st) - Len(st) = 0
  OBVIOUS
<1>2. ras[Spot(t, 0)] = st[Len(st)]
  BY <1>1 DEF HoldsAt
<1> QED  BY <1>2, SpotFacts DEF Last

-----------------------------------------------------------------------------
(* The log of the stack, seen from a branch k.                             *)

(* Every number of elders below the last is the number of some member.     *)
LEMMA EldersOnto ==
  ASSUME NEW M, NEW n \in Nat, NEW e \in Nat, e < Elders(M, n + 1)
  PROVE  \E j \in 1..n : j \in M /\ Elders(M, j) = e
<1> DEFINE T == {y \in 1..(n + 1) : e < Elders(M, y)}
<1>1. T \in SUBSET Nat /\ n + 1 \in T
  OBVIOUS
<1>2. PICK y \in T : \A z \in T : y <= z
  BY <1>1, LeastNumber
<1>3. y # 1
  BY <1>2, EldersFirst
<1>4. PICK j \in Nat \ {0} : j + 1 = y /\ j \in 1..n /\ j < y /\ j \in 1..(n + 1)
  <2>1. y - 1 \in Nat \ {0} /\ (y - 1) + 1 = y /\ y - 1 \in 1..n /\ y - 1 < y
        /\ y - 1 \in 1..(n + 1)
    BY <1>2, <1>3
  <2> QED  BY <2>1
<1>5. j \notin T
  BY <1>2, <1>4
<1>6. Elders(M, j) \in Nat /\ Elders(M, j) <= e
  <2>1. j \in Int
    OBVIOUS
  <2>2. Elders(M, j) \in Nat
    BY <2>1, EldersFinite
  <2> QED  BY <2>2, <1>4, <1>5
<1>7. e < Elders(M, j + 1)
  BY <1>2, <1>4
<1>8. Elders(M, j + 1) = IF j \in M THEN Elders(M, j) + 1 ELSE Elders(M, j)
  BY EldersStep
<1> QED  BY <1>4, <1>6, <1>7, <1>8

(* The number of entries that the walk down to id undoes.                  *)
Span(r, id) == LET d == Distance(r.tail, id, bq_size) IN IF d = 0 THEN bq_size ELSE d

LEMMA SpanBetween ==
  ASSUME NEW size \in Nat \ {0}, NEW head \in 0..(size - 1), NEW c \in 0..(size - 1),
         NEW e \in 1..size, c < e
  PROVE  LET d == Distance(Ahead(e, head, size), Ahead(c, head, size), size)
         IN  (IF d = 0 THEN size ELSE d) = e - c
BY DEF Distance, Ahead

(* The entries from k's on are those of the branches from k on, in order.   *)
Spans(r, w, n, k, E) ==
  /\ Span(r, w[k].pred_tag) = E[n + 1] - E[k] /\ E[n + 1] - E[k] \in Nat
  /\ \A j \in 1..(n + 1) : E[j] \in Nat
  /\ \A j \in Branches(w, n) : k <= j =>
       /\ E[j] - E[k] \in 0..((E[n + 1] - E[k]) - 1)
       /\ Ahead(E[j] - E[k], w[k].pred_tag, bq_size) = w[j].pred_tag
  /\ \A i, j \in Branches(w, n) : i < j => E[i] < E[j]
  /\ \A d \in 0..((E[n + 1] - E[k]) - 1) :
       \E j \in Branches(w, n) : k <= j /\ E[j] - E[k] = d

LEMMA LogSpan ==
  ASSUME NEW q \in Queues, NEW w, NEW n \in Nat, QueueOK(q, w, n),
         NEW r, r.tail = q.tail, NEW k \in Branches(w, n),
         NEW E, E = [j \in 1..(n + 1) |-> Elders(Branches(w, n), j)]
  PROVE  Spans(r, w, n, k, E)
<1> DEFINE B == Branches(w, n)
<1>1. /\ bq_size \in Nat \ {0} /\ q.head \in 0..(bq_size - 1) /\ q.head_phase \in BOOLEAN
      /\ \A j \in B : j \in 1..n
  BY SlotTypes DEF Queues, Branches
<1>2. /\ Elders(B, n + 1) \in 0..bq_size
      /\ \A j \in B : /\ Elders(B, j) \in 0..(bq_size - 1)
                      /\ Elders(B, j) < Elders(B, n + 1)
                      /\ w[j].pred_tag = Ahead(Elders(B, j), q.head, bq_size)
  BY QueueSlots
<1>3. q.tail = Ahead(Elders(B, n + 1), q.head, bq_size)
  <2>1. Place(<<q.tail, q.tail_phase>>, Elders(B, n + 1), q.head, q.head_phase, bq_size)
    BY DEF QueueOK
  <2>2. <<q.tail, q.tail_phase>>[1] = q.tail /\ <<q.tail, q.tail_phase>>[2] = q.tail_phase
    OBVIOUS
  <2>3. CASE Elders(B, n + 1) < bq_size
    <3> HIDE DEF B
    <3> QED  BY <1>1, <2>1, <2>2, <2>3, PlaceAhead
  <2>4. CASE Elders(B, n + 1) = bq_size
    <3>1. /\ q.tail \in 0..(bq_size - 1) /\ q.tail_phase \in BOOLEAN
          /\ RingOK(q.head, q.head_phase, q.tail, q.tail_phase)
          /\ Occupancy(q.head, q.head_phase, q.tail, q.tail_phase, bq_size) = bq_size
      BY <2>1, <2>2, <2>4 DEF Place
    <3>2. Ahead(Occupancy(q.head, q.head_phase, q.tail, q.tail_phase, bq_size),
                q.head, bq_size) = q.tail
      BY <1>1, <3>1, FullAhead
    <3> QED  BY <3>1, <3>2, <2>4
  <2> QED  BY <1>2, <2>3, <2>4, <1>1
<1> HIDE DEF B
<1>4. /\ E[n + 1] = Elders(B, n + 1) /\ n + 1 \in 1..(n + 1)
      /\ \A j \in 1..n : E[j] = Elders(B, j) /\ j \in 1..(n + 1)
      /\ \A j \in 1..(n + 1) : E[j] = Elders(B, j)
  BY DEF B
<1>5. \A j \in 1..(n + 1) : E[j] \in Nat
  <2>1. \A j \in 1..(n + 1) : j \in Int
    OBVIOUS
  <2> QED  BY <2>1, <1>4, EldersFinite
<1>6. k \in B /\ k \in 1..n
  BY <1>1 DEF B
<1>7. \A i, j \in B : i < j => E[i] < E[j]
  <2> SUFFICES ASSUME NEW i \in B, NEW j \in B, i < j
               PROVE  E[i] < E[j]
    OBVIOUS
  <2>1. i \in Nat \ {0} /\ j \in Int /\ i \in 1..n /\ j \in 1..n
    BY <1>1
  <2>2. Elders(B, i) + 1 <= Elders(B, j)
    BY <2>1, EldersStrict
  <2>3. E[i] + 1 <= E[j] /\ E[i] \in Nat /\ E[j] \in Nat
    BY <2>1, <2>2, <1>4, <1>5
  <2> QED  BY <2>3
<1>8. /\ Span(r, w[k].pred_tag) = E[n + 1] - E[k]
      /\ E[n + 1] \in 1..bq_size /\ E[k] \in 0..(bq_size - 1) /\ E[k] < E[n + 1]
  <2>1. E[n + 1] \in 1..bq_size /\ E[k] \in 0..(bq_size - 1) /\ E[k] < E[n + 1]
    <3>1. E[n + 1] \in 0..bq_size /\ E[k] \in 0..(bq_size - 1) /\ E[k] < E[n + 1]
      BY <1>2, <1>4, <1>6
    <3> QED  BY <3>1, <1>1
  <2>2. q.tail = Ahead(E[n + 1], q.head, bq_size)
        /\ w[k].pred_tag = Ahead(E[k], q.head, bq_size)
    BY <1>2, <1>3, <1>4, <1>6
  <2> QED  BY <2>1, <2>2, <1>1, SpanBetween DEF Span
<1>9. ASSUME NEW j \in B, k <= j
      PROVE  /\ E[j] - E[k] \in 0..((E[n + 1] - E[k]) - 1)
             /\ Ahead(E[j] - E[k], w[k].pred_tag, bq_size) = w[j].pred_tag
  <2>1. E[k] <= E[j] /\ E[j] \in 0..(bq_size - 1) /\ E[j] < E[n + 1]
    <3>1. j \in 1..n /\ k \in 1..n
      BY <1>1, <1>6
    <3>2. E[j] \in 0..(bq_size - 1) /\ E[j] < E[n + 1]
      BY <3>1, <1>2, <1>4
    <3>3. j = k \/ k < j
      BY <3>1, <1>9
    <3> QED  BY <3>2, <3>3, <1>6, <1>7, <1>8
  <2>2. E[j] - E[k] \in Nat /\ (E[j] - E[k]) + E[k] < bq_size /\ E[k] \in Nat
        /\ E[k] + (E[j] - E[k]) = E[j]
    BY <2>1, <1>8, <1>1
  <2>3. w[k].pred_tag = Ahead(E[k], q.head, bq_size)
        /\ w[j].pred_tag = Ahead(E[j], q.head, bq_size)
    BY <1>1, <1>2, <1>4, <1>6
  <2>4. Ahead(E[j] - E[k], Ahead(E[k], q.head, bq_size), bq_size)
          = Ahead(E[k] + (E[j] - E[k]), q.head, bq_size)
    BY <2>2, <1>1, AheadAhead
  <2>5. E[j] - E[k] \in 0..((E[n + 1] - E[k]) - 1)
    BY <2>1, <1>8
  <2> QED  BY <2>2, <2>3, <2>4, <2>5
<1>10. ASSUME NEW d \in 0..((E[n + 1] - E[k]) - 1)
       PROVE  \E j \in B : k <= j /\ E[j] - E[k] = d
  <2>1. E[k] + d \in Nat /\ E[k] + d < E[n + 1]
    BY <1>8
  <2>1a. PICK e \in Nat : e = E[k] + d /\ e < Elders(B, n + 1)
    BY <2>1, <1>4
  <2>2. PICK j \in 1..n : j \in B /\ Elders(B, j) = E[k] + d
    BY <2>1a, EldersOnto
  <2>3. E[j] = E[k] + d
    BY <2>2, <1>4
  <2>4. ~ (j < k)
    <3>1. SUFFICES ASSUME j < k  PROVE FALSE
      OBVIOUS
    <3>2. E[j] < E[k]
      BY <3>1, <2>2, <1>6, <1>7
    <3> QED  BY <3>2, <2>3, <1>8
  <2> QED  BY <2>2, <2>3, <2>4, <1>6, <1>8
<1>11. E[n + 1] - E[k] \in Nat
  BY <1>8
<1> QED  BY <1>5, <1>7, <1>8, <1>9, <1>10, <1>11 DEF B, Spans

(* The log has, for each of the first n branches, the top of the stack     *)
(* that the branch found.                                                  *)
StackLogged(r, w, n, s, t) ==
  \A k \in Branches(w, n) :
    LET e == r.log[w[k].pred_tag]
    IN  /\ e.tos_pointer = t[k - 1]
        /\ s[k - 1] # <<>> => e.tos_content = Last(s[k - 1])
        /\ e.iscall <=> IsCall(w[k])
        /\ e.isreturn <=> IsReturn(w[k])

(* What a repair needs: s[k] is the stack after the first k instructions   *)
(* of w and t[k] its top, the log has both for the first n, and r has the  *)
(* addresses of s[n].                                                      *)
Recoverable(r, q, w, n, s, t, base) ==
  /\ r \in Stacks /\ q \in Queues /\ r.tail = q.tail /\ n \in Nat
  /\ Len(w) \in Nat /\ n <= Len(w) /\ \A j \in 1..Len(w) : w[j].pc \in PC
  /\ Path(s, t, base, w) /\ QueueOK(q, w, n)
  /\ StackLogged(r, w, n, s, t) /\ HoldsAt(r.ras, t[n], s[n])

(* The m-th address v lies at slot x when branch k finds the stack, or     *)
(* just after k, unless k found the top of the stack at x.                 *)
Outlives(s, t, k, p, m, v, x) ==
  /\ p \in {k - 1, k} /\ x \in RASSlot /\ Lies(s, t, p, m, v, x)
  /\ p = k => t[k - 1] # x

(* It lies there again when the log is undone down to k.                   *)
LEMMA UndoneLies ==
  ASSUME NEW r, NEW q, NEW w, NEW n, NEW s, NEW t, NEW base,
         Recoverable(r, q, w, n, s, t, base), NEW k \in Branches(w, n),
         NEW p, NEW m, NEW v, NEW x, Outlives(s, t, k, p, m, v, x)
  PROVE  Undone(r, w[k].pred_tag)[x] = v
<1>0. p \in {k - 1, k} /\ x \in RASSlot /\ Lies(s, t, p, m, v, x) /\ (p = k => t[k - 1] # x)
  BY DEF Outlives
<1>1. /\ r \in Stacks /\ q \in Queues /\ r.tail = q.tail /\ n \in Nat
      /\ Len(w) \in Nat /\ n <= Len(w) /\ \A j \in 1..Len(w) : w[j].pc \in PC
      /\ Path(s, t, base, w) /\ QueueOK(q, w, n)
      /\ StackLogged(r, w, n, s, t) /\ HoldsAt(r.ras, t[n], s[n])
  BY DEF Recoverable
<1>2. /\ \A j \in Branches(w, n) : j \in 1..n /\ w[j].branch
      /\ \A j \in 1..n : w[j].branch => j \in Branches(w, n)
  BY DEF Branches
<1>3. /\ k \in 1..n /\ p \in 0..n /\ p <= k /\ p \in 0..Len(w) /\ k - 1 <= p
  BY <1>0, <1>1, <1>2
<1>4. PICK E : E = [j \in 1..(n + 1) |-> Elders(Branches(w, n), j)]
  OBVIOUS
<1> DEFINE id == w[k].pred_tag
           N == Span(r, id)
           at(d) == r.log[Ahead(d, id, bq_size)]
           hit == {d \in 0..(N - 1) : at(d).tos_pointer = x}
<1>5. Undone(r, id)[x] =
        IF hit = {} THEN r.ras[x]
        ELSE at(CHOOSE d \in hit : \A e \in hit : d <= e).tos_content
  BY <1>0 DEF Undone, Span
<1>6. /\ N = E[n + 1] - E[k] /\ N \in Nat
      /\ \A j \in 1..(n + 1) : E[j] \in Nat
      /\ \A j \in Branches(w, n) : k <= j => /\ E[j] - E[k] \in 0..(N - 1)
                                             /\ at(E[j] - E[k]) = r.log[w[j].pred_tag]
      /\ \A i, j \in Branches(w, n) : i < j => E[i] < E[j]
      /\ \A d \in 0..(N - 1) : \E j \in Branches(w, n) : k <= j /\ E[j] - E[k] = d
  <2>1. /\ q \in Queues /\ n \in Nat /\ QueueOK(q, w, n) /\ r.tail = q.tail
        /\ k \in Branches(w, n) /\ E = [j \in 1..(n + 1) |-> Elders(Branches(w, n), j)]
    BY <1>1, <1>4
  <2>2a. Spans(r, w, n, k, E)
    BY ONLY <2>1, LogSpan
  <2>2. /\ Span(r, w[k].pred_tag) = E[n + 1] - E[k] /\ E[n + 1] - E[k] \in Nat
        /\ \A j \in 1..(n + 1) : E[j] \in Nat
        /\ \A j \in Branches(w, n) : k <= j =>
             /\ E[j] - E[k] \in 0..((E[n + 1] - E[k]) - 1)
             /\ Ahead(E[j] - E[k], w[k].pred_tag, bq_size) = w[j].pred_tag
        /\ \A i, j \in Branches(w, n) : i < j => E[i] < E[j]
        /\ \A d \in 0..((E[n + 1] - E[k]) - 1) :
             \E j \in Branches(w, n) : k <= j /\ E[j] - E[k] = d
    BY <2>2a DEF Spans
  <2>3. N = E[n + 1] - E[k]
    BY <2>2
  <2>4. \A j \in Branches(w, n) : k <= j => at(E[j] - E[k]) = r.log[w[j].pred_tag]
    BY <2>2
  <2> HIDE DEF N, at
  <2> QED  BY <2>2, <2>3, <2>4
<1> HIDE DEF id, N, at
<1>7. \A j \in Branches(w, n) :
        /\ r.log[w[j].pred_tag].tos_pointer = t[j - 1]
        /\ s[j - 1] # <<>> => r.log[w[j].pred_tag].tos_content = Last(s[j - 1])
  BY <1>1 DEF StackLogged
<1>8. ASSUME NEW j \in p..n,
             \A i \in (p + 1)..j : w[i].branch => t[i - 1] # x
      PROVE  Lies(s, t, j, m, v, x)
  <2>1. j \in p..Len(w)
    BY <1>1, <1>3
  <2> QED  BY <1>0, <1>1, <1>3, <1>8, <2>1, LiesOn
<1>9. CASE hit = {}
  <2>1. ASSUME NEW i \in (p + 1)..n, w[i].branch
        PROVE  t[i - 1] # x
    <3>1. i \in 1..n /\ k <= i
      BY <1>1, <1>3
    <3>2. i \in Branches(w, n)
      BY <3>1, <2>1, <1>2
    <3>3. E[i] - E[k] \in 0..(N - 1) /\ at(E[i] - E[k]) = r.log[w[i].pred_tag]
      BY <3>1, <3>2, <1>6
    <3>4. at(E[i] - E[k]).tos_pointer # x
      BY <3>3, <1>9
    <3> QED  BY <3>2, <3>3, <3>4, <1>7
  <2>2. n \in p..n
    BY <1>1, <1>3
  <2>3. Lies(s, t, n, m, v, x)
    BY <2>1, <2>2, <1>8
  <2>4. r.ras[x] = v
    BY <2>3, <1>1 DEF Lies, HoldsAt
  <2> QED  BY <2>4, <1>5, <1>9 DEF id
<1>10. CASE hit # {}
  <2>1. hit \in SUBSET Nat
    BY <1>6
  <2>2. \E d \in hit : \A e \in hit : d <= e
    BY <2>1, <1>10, LeastNumber
  <2>3. PICK d \in hit : /\ d = CHOOSE y \in hit : \A e \in hit : y <= e
                         /\ \A e \in hit : d <= e
    BY <2>2
  <2>4. d \in 0..(N - 1) /\ at(d).tos_pointer = x
    OBVIOUS
  <2>5. PICK j \in Branches(w, n) : k <= j /\ E[j] - E[k] = d
    BY <2>4, <1>6
  <2>6. at(d) = r.log[w[j].pred_tag] /\ t[j - 1] = x
    BY <2>4, <2>5, <1>6, <1>7
  <2>7. j \in 1..n /\ p <= j - 1 /\ j - 1 \in p..n
    <3>1. j \in 1..n
      BY <1>2
    <3>2. p # j
      BY <2>5, <2>6, <1>0, <1>3, <3>1
    <3>3. k <= j /\ (p = k \/ p = k - 1)
      BY <2>5, <1>0
    <3>4. p <= j - 1
      BY <3>1, <3>2, <3>3, <1>1, <1>3
    <3> QED  BY <3>1, <3>4, <1>1, <1>3
  <2>8. ASSUME NEW i \in (p + 1)..(j - 1), w[i].branch
        PROVE  t[i - 1] # x
    <3>1. i \in 1..n /\ k <= i /\ i < j
      BY <1>1, <1>3, <2>7
    <3>2. i \in Branches(w, n)
      BY <3>1, <2>8, <1>2
    <3>3. E[i] < E[j] /\ E[i] \in Nat /\ E[j] \in Nat /\ E[k] \in Nat
      <4>1. i \in 1..(n + 1) /\ j \in 1..(n + 1) /\ k \in 1..(n + 1)
        BY <3>1, <2>7, <1>1, <1>3
      <4>2. E[i] < E[j]
        BY <3>1, <3>2, <1>6
      <4> QED  BY <4>1, <4>2, <1>6
    <3>4. E[i] - E[k] \in 0..(N - 1) /\ at(E[i] - E[k]) = r.log[w[i].pred_tag]
      BY <3>1, <3>2, <1>6
    <3>5. E[i] - E[k] < d
      BY <3>3, <2>5
    <3>6. E[i] - E[k] \notin hit
      BY <3>4, <3>5, <2>3, <2>4, <1>6
    <3> QED  BY <3>2, <3>4, <3>6, <1>7
  <2>9. Lies(s, t, j - 1, m, v, x)
    BY <2>7, <2>8, <1>8
  <2>10. s[j - 1] # <<>> /\ Last(s[j - 1]) = v
    <3>1. j - 1 \in 0..Len(w)
      BY <2>7, <1>1
    <3>2. /\ s[j - 1] \in Seq(PC) /\ Len(s[j - 1]) <= MaxDepth /\ t[j - 1] \in RASSlot
      BY <3>1, <1>1 DEF Path
    <3>3. m \in 1..Len(s[j - 1]) /\ s[j - 1][m] = v /\ Spot(t[j - 1], Len(s[j - 1]) - m) = x
      BY <2>9 DEF Lies
    <3>4. PICK a \in Seq(PC), u \in RASSlot : a = s[j - 1] /\ u = t[j - 1]
      BY <3>2
    <3>5. Len(a) - m \in 0..(ras_size - 1) /\ 0 \in 0..(ras_size - 1) /\ Len(a) \in Nat
      BY <3>2, <3>3, <3>4, DepthBound
    <3>6. Spot(u, Len(a) - m) = Spot(u, 0)
      BY <3>3, <3>4, <2>6, SpotFacts
    <3>7. Len(a) - m = 0
      BY <3>5, <3>6, SpotFacts
    <3>8. m = Len(a) /\ a # <<>>
      BY <3>3, <3>4, <3>5, <3>7
    <3> QED  BY <3>3, <3>4, <3>8 DEF Last
  <2>11. at(d).tos_content = v
    BY <2>6, <2>10, <1>7
  <2> QED  BY <2>3, <2>11, <1>5, <1>10 DEF id
<1> QED  BY <1>9, <1>10

(* A stack of at least two slots, recovered by a walk of the log.          *)
Walks == recovery_approach = "WALK" /\ ras_size > 1

LEMMA PathAt ==
  ASSUME NEW s, NEW t, NEW base, NEW w, Len(w) \in Nat, Path(s, t, base, w),
         NEW k \in 0..Len(w)
  PROVE  /\ s[k] \in Seq(PC) /\ Len(s[k]) \in Nat /\ Len(s[k]) <= MaxDepth
         /\ Len(s[k]) <= ras_size /\ t[k] \in RASSlot
<1>1. s[k] \in Seq(PC) /\ Len(s[k]) <= MaxDepth /\ t[k] \in RASSlot
  BY DEF Path
<1>2. PICK a \in Seq(PC) : a = s[k]
  BY <1>1
<1>3. Len(a) \in Nat /\ Len(a) <= MaxDepth
  BY <1>1, <1>2
<1> QED  BY <1>1, <1>2, <1>3, DepthBound

(* What RASFlush does when it walks the log.                               *)
LEMMA FlushWalks ==
  ASSUME Walks, NEW r \in Stacks, NEW id \in BQSlot
  PROVE  /\ RASFlush(r, id).tos = r.log[id].tos_pointer
         /\ RASFlush(r, id).ras = Undone(r, id) /\ RASFlush(r, id).log = r.log
<1>1. PICK u : u = Undone(r, id)
  OBVIOUS
<1>2. PICK x : x = r.log[id].tos_pointer
  OBVIOUS
<1>3. RASFlush(r, id) = [r EXCEPT !.tos = x, !.tail = id, !.ras = u]
  BY <1>1, <1>2 DEF RASFlush, Walks
<1> QED  BY <1>1, <1>2, <1>3 DEF Stacks

LEMMA FlushRecovers ==
  ASSUME Walks, NEW r, NEW q, NEW w, NEW n, NEW s, NEW t, NEW base,
         Recoverable(r, q, w, n, s, t, base), NEW k \in Branches(w, n)
  PROVE  /\ RASFlush(r, w[k].pred_tag).tos = t[k - 1]
         /\ HoldsAt(RASFlush(r, w[k].pred_tag).ras, t[k - 1], s[k - 1])
<1>1. /\ r \in Stacks /\ q \in Queues /\ n \in Nat /\ Len(w) \in Nat /\ n <= Len(w)
      /\ Path(s, t, base, w) /\ QueueOK(q, w, n) /\ StackLogged(r, w, n, s, t)
  BY DEF Recoverable
<1>2. w[k].pred_tag \in BQSlot /\ k \in 1..n /\ k - 1 \in 0..Len(w)
  <2>1. k \in 1..n
    BY DEF Branches
  <2> QED  BY <2>1, <1>1, QueueSlots
<1>3. /\ RASFlush(r, w[k].pred_tag).tos = r.log[w[k].pred_tag].tos_pointer
      /\ RASFlush(r, w[k].pred_tag).ras = Undone(r, w[k].pred_tag)
  BY <1>1, <1>2, FlushWalks
<1>4. r.log[w[k].pred_tag].tos_pointer = t[k - 1]
  BY <1>1 DEF StackLogged
<1>5. ASSUME NEW m \in 1..Len(s[k - 1])
      PROVE  Undone(r, w[k].pred_tag)[Spot(t[k - 1], Len(s[k - 1]) - m)] = s[k - 1][m]
  <2>1. PICK p, v, x : p = k - 1 /\ v = s[p][m] /\ x = Spot(t[p], Len(s[p]) - m)
    OBVIOUS
  <2>2. x \in RASSlot
    <3>1. Len(s[p]) \in Nat /\ Len(s[p]) <= ras_size /\ t[p] \in RASSlot
      BY <1>1, <1>2, <2>1, PathAt
    <3>2. Len(s[p]) - m \in 0..(ras_size - 1)
      BY <3>1, <2>1, DepthBound
    <3> QED  BY <3>1, <3>2, <2>1, SpotFacts
  <2>3. Lies(s, t, p, m, v, x)
    BY <2>1 DEF Lies
  <2>4. p \in {k - 1, k} /\ p # k
    BY <2>1, <1>2
  <2>5. Outlives(s, t, k, p, m, v, x)
    BY <2>2, <2>3, <2>4 DEF Outlives
  <2>6. Undone(r, w[k].pred_tag)[x] = v
    BY <2>5, UndoneLies
  <2> QED  BY <2>1, <2>6
<1> QED  BY <1>3, <1>4, <1>5 DEF HoldsAt

(* What RASMispredict does: undo, and redo the branch.                     *)
LEMMA MispredictWalks ==
  ASSUME Walks, NEW r \in Stacks, NEW id \in BQSlot
  PROVE  /\ RASMispredict(r, id).ras = RASFlush(r, id).ras
         /\ RASMispredict(r, id).log = r.log
         /\ RASMispredict(r, id).tos =
              IF r.log[id].iscall THEN Above(r.log[id].tos_pointer)
              ELSE IF r.log[id].isreturn THEN Below(r.log[id].tos_pointer, ras_size)
              ELSE r.log[id].tos_pointer
<1>1. PICK f \in Stacks : /\ f = RASFlush(r, id) /\ f.tos = r.log[id].tos_pointer
                          /\ f.log = r.log
  BY FlushWalks, RASFlushEffect
<1>2. PICK x : x = IF r.log[id].iscall THEN Above(f.tos)
                   ELSE IF r.log[id].isreturn THEN Below(f.tos, ras_size) ELSE f.tos
  OBVIOUS
<1>3. PICK g : g = [f EXCEPT !.tos = x]
  OBVIOUS
<1>4. g = IF r.log[id].iscall THEN [f EXCEPT !.tos = Above(@)]
          ELSE IF r.log[id].isreturn THEN RASPop(f) ELSE f
  BY <1>2, <1>3 DEF RASPop, Stacks
<1>5. RASMispredict(r, id) = [g EXCEPT !.tail = Next1(@, bq_size)]
  BY <1>1, <1>4 DEF RASMispredict
<1>6. g.ras = f.ras /\ g.log = f.log /\ g.tos = x
  BY <1>3 DEF Stacks
<1>7. /\ RASMispredict(r, id).ras = g.ras /\ RASMispredict(r, id).log = g.log
      /\ RASMispredict(r, id).tos = g.tos
  BY <1>3, <1>5 DEF Stacks
<1> QED  BY <1>1, <1>2, <1>6, <1>7

LEMMA MispredictRecovers ==
  ASSUME Walks, NEW r, NEW q, NEW w, NEW n, NEW s, NEW t, NEW base,
         Recoverable(r, q, w, n, s, t, base), NEW k \in Branches(w, n)
  PROVE  /\ RASMispredict(r, w[k].pred_tag).tos = t[k]
         /\ HoldsAt(RASMispredict(r, w[k].pred_tag).ras, t[k], s[k])
<1>1. /\ r \in Stacks /\ q \in Queues /\ n \in Nat /\ Len(w) \in Nat /\ n <= Len(w)
      /\ \A j \in 1..Len(w) : w[j].pc \in PC
      /\ Path(s, t, base, w) /\ QueueOK(q, w, n) /\ StackLogged(r, w, n, s, t)
  BY DEF Recoverable
<1>2. /\ w[k].pred_tag \in BQSlot /\ k \in 1..n /\ k \in 1..Len(w)
      /\ k - 1 \in 0..Len(w) /\ k \in 0..Len(w)
  <2>1. k \in 1..n
    BY DEF Branches
  <2> QED  BY <2>1, <1>1, QueueSlots
<1>3. PICK id : id = w[k].pred_tag
  OBVIOUS
<1>4. PICK a, b, p, c : a = s[k - 1] /\ b = s[k] /\ p = t[k - 1] /\ c = t[k]
  OBVIOUS
<1>5. /\ a \in Seq(PC) /\ Len(a) \in Nat /\ Len(a) <= MaxDepth /\ p \in RASSlot
      /\ b \in Seq(PC) /\ Len(b) \in Nat /\ Len(b) <= MaxDepth /\ c \in RASSlot
      /\ b = CallStack(a, w[k]) /\ c = Moved(p, w[k])
  <2>1. b = CallStack(a, w[k]) /\ c = Moved(p, w[k])
    BY <1>1, <1>2, <1>4 DEF Path
  <2> QED  BY <2>1, <1>1, <1>2, <1>4, PathAt
<1>6. /\ r.log[id].tos_pointer = p
      /\ r.log[id].iscall <=> IsCall(w[k])
      /\ r.log[id].isreturn <=> IsReturn(w[k])
  BY <1>1, <1>3, <1>4 DEF StackLogged
<1>7. PICK f : /\ f = RASMispredict(r, id) /\ f.ras = Undone(r, id)
               /\ f.tos = c
  <2>1. /\ RASMispredict(r, id).ras = Undone(r, id)
        /\ RASMispredict(r, id).tos =
              IF r.log[id].iscall THEN Above(r.log[id].tos_pointer)
              ELSE IF r.log[id].isreturn THEN Below(r.log[id].tos_pointer, ras_size)
              ELSE r.log[id].tos_pointer
    BY <1>1, <1>2, <1>3, MispredictWalks, FlushWalks
  <2>2. RASMispredict(r, id).tos = c
    BY <2>1, <1>5, <1>6 DEF Moved
  <2> QED  BY <2>1, <2>2
<1>8. HoldsAt(f.ras, p, a)
  BY <1>1, <1>2, <1>3, <1>4, <1>7, FlushRecovers, FlushWalks
<1>9. CASE IsCall(w[k])
  <2>1. b = Append(a, Inc(w[k].pc)) /\ c = Above(p) /\ Inc(w[k].pc) \in PC
    BY <1>1, <1>2, <1>5, <1>9, CallStackCases, IncType DEF Moved
  <2>2. Len(b) = Len(a) + 1 /\ b[Len(a) + 1] = Inc(w[k].pc)
        /\ \A m \in 1..Len(a) : b[m] = a[m]
    <3>1. PICK z \in PC : z = Inc(w[k].pc) /\ b = Append(a, z)
      BY <2>1
    <3>2. Len(b) = Len(a) + 1 /\ b[Len(a) + 1] = z /\ \A m \in 1..Len(a) : b[m] = a[m]
      <4>1. a \in Seq(PC) /\ z \in PC
        BY <1>5
      <4>2. /\ Len(Append(a, z)) = Len(a) + 1 /\ Append(a, z)[Len(a) + 1] = z
            /\ \A m \in 1..Len(a) : Append(a, z)[m] = a[m]
        BY ONLY <4>1, AppendFacts
      <4> QED  BY <4>2, <3>1
    <3> QED  BY <3>1, <3>2
  <2>3. ASSUME NEW m \in 1..Len(a)
        PROVE  f.ras[Spot(c, Len(b) - m)] = b[m]
    <3>1. Len(a) - m \in 0..(ras_size - 1) /\ Len(b) - m = (Len(a) - m) + 1
      BY <2>2, <1>5, DepthBound
    <3>2. Spot(Above(p), (Len(a) - m) + 1) = Spot(p, Len(a) - m)
      BY <3>1, <1>5, SpotFacts
    <3> QED  BY <3>1, <3>2, <2>1, <2>2, <1>8 DEF HoldsAt
  <2>4. f.ras[Spot(c, Len(b) - (Len(a) + 1))] = b[Len(a) + 1]
    <3>1. PICK m, v, x : m = Len(b) /\ v = b[m] /\ x = c
      OBVIOUS
    <3>2. Len(b) - m = 0 /\ Spot(c, 0) = c /\ m \in 1..Len(b)
      BY <3>1, <2>2, <1>5, SpotFacts
    <3>3. Lies(s, t, k, m, v, x)
      BY <3>1, <3>2, <1>4 DEF Lies
    <3>4. t[k - 1] # x
      <4>1. ras_size \in Nat /\ ras_size > 1 /\ ras_size - 1 \in 0..(ras_size - 1)
            /\ 0 \in 0..(ras_size - 1) /\ ras_size - 1 # 0
        BY DepthBound DEF Walks
      <4>2. Above(p) = Spot(p, ras_size - 1) /\ p = Spot(p, 0)
        BY <1>5, SpotFacts
      <4>3. Spot(p, ras_size - 1) # Spot(p, 0)
        BY <4>1, <1>5, SpotFacts
      <4> QED  BY <4>2, <4>3, <3>1, <2>1, <1>4
    <3>5. Undone(r, id)[x] = v
      <4>1. Outlives(s, t, k, k, m, v, x)
        BY <3>1, <3>3, <3>4, <1>5 DEF Outlives
      <4> QED  BY <4>1, <1>3, UndoneLies
    <3> QED  BY <3>1, <3>2, <3>5, <2>2, <1>5, <1>7
  <2>5. \A m \in 1..Len(b) : m \in 1..Len(a) \/ m = Len(a) + 1
    BY <2>2, <1>5
  <2>6. HoldsAt(f.ras, c, b)
    BY <2>3, <2>4, <2>5 DEF HoldsAt
  <2> QED  BY <2>6, <1>3, <1>4, <1>7
<1>10. CASE IsReturn(w[k])
  <2>1. c = Below(p, ras_size) /\ b = IF a = <<>> THEN a ELSE Front(a)
    BY <1>5, <1>10, CallStackCases DEF Moved
  <2>2. CASE a = <<>>
    BY <2>1, <2>2, <1>3, <1>4, <1>7 DEF HoldsAt
  <2>3. CASE a # <<>>
    <3>1. HoldsAt(f.ras, Below(p, ras_size), Front(a))
      BY <2>3, <1>5, <1>8, HoldsPop
    <3> QED  BY <3>1, <2>1, <2>3, <1>3, <1>4, <1>7
  <2> QED  BY <2>2, <2>3
<1>11. CASE ~Turns(w[k])
  <2>1. b = a /\ c = p
    BY <1>5, <1>11, CallStackCases DEF Moved, Turns
  <2> QED  BY <2>1, <1>3, <1>4, <1>7, <1>8
<1> QED  BY <1>9, <1>10, <1>11 DEF Turns

-----------------------------------------------------------------------------
(* The slot that the property names.                                       *)
LEMMA Residue ==
  ASSUME NEW R \in Nat \ {0}, NEW a \in Int, NEW x \in 0..(R - 1)
  PROVE  (a * R + x) % R = x
OBVIOUS

LEMMA HoldsSame ==
  ASSUME NEW r, NEW st \in Seq(PC), Len(st) <= MaxDepth, r.tos \in RASSlot
  PROVE  Holds(r, st) <=> HoldsAt(r.ras, r.tos, st)
<1>1. /\ ras_size \in Nat \ {0} /\ Len(st) \in Nat /\ Len(st) <= ras_size
      /\ r.tos \in 0..(ras_size - 1) /\ DOMAIN st = 1..Len(st)
  <2>1. Len(st) \in Nat /\ DOMAIN st = 1..Len(st)
    OBVIOUS
  <2>2. r.tos \in 0..(ras_size - 1)
    BY StackTypes
  <2> QED  BY <2>1, <2>2, DepthBound
<1>2. ASSUME NEW m \in 1..Len(st)
      PROVE  (r.tos + Len(st) * ras_size - (Len(st) - m)) % ras_size
               = Spot(r.tos, Len(st) - m)
  <2>1. PICK t \in 0..(ras_size - 1), L \in Nat, d \in 0..(ras_size - 1), R \in Nat \ {0} :
          t = r.tos /\ L = Len(st) /\ d = Len(st) - m /\ R = ras_size
    <3>1. Len(st) - m \in 0..(ras_size - 1)
      BY <1>1
    <3> QED  BY <3>1, <1>1, Zenon
  <2>2. (t + L * R - d) % R = Spot(t, d)
    <3>1. L * R \in Int /\ (L - 1) * R = L * R - R /\ L - 1 \in Int /\ L \in Int
      OBVIOUS
    <3>2. CASE t >= d
      <4>1. t + L * R - d = L * R + (t - d) /\ t - d \in 0..(R - 1)
        BY <3>1, <3>2, <2>1
      <4>2. (L * R + (t - d)) % R = t - d
        BY <4>1, <3>1, Residue
      <4> QED  BY <4>1, <4>2, <3>2 DEF Spot
    <3>3. CASE ~(t >= d)
      <4>1. t + L * R - d = (L - 1) * R + (t - d + R) /\ t - d + R \in 0..(R - 1)
        BY <3>1, <3>3, <2>1
      <4>2. ((L - 1) * R + (t - d + R)) % R = t - d + R
        BY <4>1, <3>1, Residue
      <4> QED  BY <4>1, <4>2, <3>3, <2>1 DEF Spot
    <3> QED  BY <3>2, <3>3
  <2> QED  BY <2>1, <2>2
<1> QED  BY <1>1, <1>2 DEF Holds, HoldsAt

LEMMA SpecStackIs ==
  ASSUME NEW s, NEW t, window \in Seq(Insts), Path(s, t, base_stack, window)
  PROVE  SpecStack = s[Len(window)]
<1>1. Len(window) \in Nat
  OBVIOUS
<1>2. SpecStack = CallStacks!Fold(base_stack, window)
  BY DEF SpecStack, FoldLeft, MapThenFoldSet, Max,
         CallStacks!Fold, CallStacks!Latest
<1>3. PICK h : /\ CallStacks!Steps(h, base_stack, window)
               /\ CallStacks!Fold(base_stack, window) = h[Len(window)]
  BY WellOrder, CallStacks!FoldSteps
<1>4. CallStacks!Steps(s, base_stack, window)
  BY DEF Path, CallStacks!Steps
<1>5. h[Len(window)] = s[Len(window)]
  <2>1. /\ Len(window) <= Len(window)
        /\ \A k \in 1..Len(window) : window[k] = window[k]
    BY <1>1
  <2> QED  BY <1>1, <1>3, <1>4, <2>1, WellOrder, CallStacks!StepsUnique
<1> QED  BY <1>2, <1>3, <1>5

-----------------------------------------------------------------------------
(* The stack r along the window w whose bundle in Fetch2 starts behind     *)
(* position b: v is fetch2.valid, a is fetch_active.                       *)
Context(r, st, x) ==
  /\ r.fetch2_tos_pointer = x
  /\ st # <<>> => r.fetch2_tos_content = Last(st)

StackAt(r, w, b, v, a, base, s, t) ==
  /\ Path(s, t, base, w) /\ StackLogged(r, w, b, s, t)
  /\ HoldsAt(r.ras, t[b], s[b]) /\ HoldsAt(r.ras, t[Len(w)], s[Len(w)])
  /\ v => Context(r, s[b], t[b])
  /\ a => r.tos = t[Len(w)]
  /\ \A k \in (b + 1)..Len(w) : Turns(w[k]) => k = Len(w)

StackOK(s, t) ==
  StackAt(RBP, window, BundleStart, fetch2.valid, fetch_active, base_stack, s, t)
StackInv == \E s, t : StackOK(s, t)

(* Instructions that do the same to the stack, and under the same tag.     *)
SamePath(i, j) == i.branch = j.branch /\ i.type = j.type /\ i.pc = j.pc
SameTurn(i, j) == SamePath(i, j) /\ i.pred_tag = j.pred_tag

LEMMA TurnsSame ==
  ASSUME NEW i, NEW j, SamePath(i, j)
  PROVE  /\ Turns(i) <=> Turns(j)
         /\ IsCall(i) <=> IsCall(j)
         /\ IsReturn(i) <=> IsReturn(j)
         /\ \A x : Moved(x, i) = Moved(x, j) /\ CallStack(x, i) = CallStack(x, j)
<1>1. (IsCall(i) <=> IsCall(j)) /\ (IsReturn(i) <=> IsReturn(j))
  BY DEF SamePath, IsCall, IsReturn
<1>2. Turns(i) <=> Turns(j)
  BY <1>1 DEF Turns
<1>3. ASSUME NEW x  PROVE Moved(x, i) = Moved(x, j)
  BY <1>1 DEF Moved
<1>4. ASSUME NEW x  PROVE CallStack(x, i) = CallStack(x, j)
  BY DEF SamePath, CallStack
<1> QED  BY <1>1, <1>2, <1>3, <1>4

(* A window that is cut short, and kept otherwise.                         *)
LEMMA PathAlong ==
  ASSUME NEW s, NEW t, NEW base, NEW w, Path(s, t, base, w), Len(w) \in Nat,
         NEW v, Len(v) \in Nat, Len(v) <= Len(w),
         \A k \in 1..Len(v) : SamePath(v[k], w[k])
  PROVE  Path(s, t, base, v)
<1>1. \A k \in 0..Len(v) : k \in 0..Len(w)
  OBVIOUS
<1>2. ASSUME NEW k \in 1..Len(v)
      PROVE  s[k] = CallStack(s[k - 1], v[k]) /\ t[k] = Moved(t[k - 1], v[k])
  <2>1. k \in 1..Len(w) /\ SamePath(v[k], w[k])
    OBVIOUS
  <2>2. s[k] = CallStack(s[k - 1], w[k]) /\ t[k] = Moved(t[k - 1], w[k])
    BY <2>1 DEF Path
  <2> QED  BY <2>1, <2>2, TurnsSame
<1> QED  BY <1>1, <1>2 DEF Path

LEMMA PathCut ==
  ASSUME NEW s, NEW t, NEW base, NEW w, Path(s, t, base, w), Len(w) \in Nat,
         NEW v, Len(v) \in Nat, Len(v) <= Len(w),
         \A k \in 1..Len(v) : SameTurn(v[k], w[k])
  PROVE  Path(s, t, base, v)
<1>1. \A k \in 1..Len(v) : SamePath(v[k], w[k])
  BY DEF SameTurn
<1> QED  BY <1>1, PathAlong

LEMMA LogCut ==
  ASSUME NEW r, NEW w, NEW n \in Nat, NEW s, NEW t, StackLogged(r, w, n, s, t),
         NEW q, q.log = r.log, NEW v, NEW m \in Nat, m <= n,
         \A k \in 1..m : SameTurn(v[k], w[k])
  PROVE  StackLogged(q, v, m, s, t)
<1> SUFFICES ASSUME NEW k \in Branches(v, m)
             PROVE  LET e == q.log[v[k].pred_tag]
                    IN  /\ e.tos_pointer = t[k - 1]
                        /\ s[k - 1] # <<>> => e.tos_content = Last(s[k - 1])
                        /\ e.iscall <=> IsCall(v[k])
                        /\ e.isreturn <=> IsReturn(v[k])
  BY DEF StackLogged
<1>1. k \in 1..m /\ v[k].branch
  BY DEF Branches
<1>2. SameTurn(v[k], w[k]) /\ k \in 1..n
  BY <1>1
<1>3. k \in Branches(w, n) /\ v[k].pred_tag = w[k].pred_tag
  BY <1>1, <1>2 DEF Branches, SameTurn, SamePath
<1> QED  BY <1>2, <1>3, TurnsSame DEF StackLogged, SameTurn

(* Between two turns the top stays where it is.                            *)
LEMMA NoTurn ==
  ASSUME NEW s, NEW t, NEW base, NEW w, Path(s, t, base, w), Len(w) \in Nat,
         NEW p \in 0..Len(w), NEW q \in p..Len(w),
         \A k \in (p + 1)..q : ~Turns(w[k])
  PROVE  s[q] = s[p] /\ t[q] = t[p]
<1> DEFINE T == {k \in p..q : ~(s[k] = s[p] /\ t[k] = t[p])}
<1>1. SUFFICES ASSUME T # {}  PROVE FALSE
  OBVIOUS
<1>2. T \in SUBSET Nat
  OBVIOUS
<1>3. PICK k \in T : \A y \in T : k <= y
  BY <1>1, <1>2, LeastNumber
<1>4. k # p
  BY <1>3
<1>5. /\ k \in (p + 1)..q /\ k - 1 \in p..q /\ k - 1 < k /\ k \in 1..Len(w)
      /\ k - 1 \in 0..Len(w)
  BY <1>3, <1>4
<1>6. k - 1 \notin T
  BY <1>3, <1>5
<1>7. s[k - 1] = s[p] /\ t[k - 1] = t[p]
  BY <1>5, <1>6
<1>8. s[k] = CallStack(s[k - 1], w[k]) /\ t[k] = Moved(t[k - 1], w[k])
  BY <1>5 DEF Path
<1>9. ~Turns(w[k]) /\ s[k - 1] \in Seq(PC)
  BY <1>5 DEF Path
<1>10. s[k] = s[k - 1] /\ t[k] = t[k - 1]
  BY <1>8, <1>9, CallStackCases DEF Moved, Turns
<1> QED  BY <1>3, <1>7, <1>10

LEMMA SameTurns ==
  ASSUME NEW i, NEW j
  PROVE  /\ Resembles(i, j) => SameTurn(i, j)
         /\ SameEntry(i, j) => SameTurn(i, j)
         /\ i = j => SameTurn(i, j)
         /\ \A n, b : Corrects(i, j, n, b) => SameTurn(i, j)
BY DEF Resembles, SameEntry, Corrects, SameTurn, SamePath

(* What the invariant gives of a stack and its window.                     *)
LEMMA StackParts ==
  ASSUME Inv, NEW s, NEW t, StackOK(s, t)
  PROVE  /\ Path(s, t, base_stack, window) /\ StackLogged(RBP, window, BundleStart, s, t)
         /\ HoldsAt(RBP.ras, t[BundleStart], s[BundleStart])
         /\ HoldsAt(RBP.ras, t[Len(window)], s[Len(window)])
         /\ fetch2.valid => Context(RBP, s[BundleStart], t[BundleStart])
         /\ fetch_active => RBP.tos = t[Len(window)]
         /\ \A k \in (BundleStart + 1)..Len(window) : Turns(window[k]) => k = Len(window)
         /\ Len(window) \in Nat /\ BundleStart \in 0..Len(window)
         /\ \A k \in 1..Len(window) : window[k].pc \in PC
         /\ RBP \in Stacks /\ bq \in Queues /\ RBP.tail = bq.tail
         /\ QueueOK(bq, window, BundleStart)
         /\ Recoverable(RBP, bq, window, BundleStart, s, t, base_stack)
<1>1. /\ Path(s, t, base_stack, window) /\ StackLogged(RBP, window, BundleStart, s, t)
      /\ HoldsAt(RBP.ras, t[BundleStart], s[BundleStart])
      /\ HoldsAt(RBP.ras, t[Len(window)], s[Len(window)])
      /\ fetch2.valid => Context(RBP, s[BundleStart], t[BundleStart])
      /\ fetch_active => RBP.tos = t[Len(window)]
      /\ \A k \in (BundleStart + 1)..Len(window) : Turns(window[k]) => k = Len(window)
  BY DEF StackOK, StackAt
<1>2. TypeOK /\ StageInv /\ QueueInv
  BY DEF Inv
<1>3. /\ Len(window) \in Nat /\ BundleStart \in Nat /\ BundleStart \in 0..Len(window)
      /\ \A k \in 1..Len(window) : window[k] \in Insts
  <2>1. /\ Len(window) \in Nat /\ BundleStart \in Nat /\ InFetch2 \in Nat
        /\ BundleStart + InFetch2 = Len(window)
        /\ \A k \in 1..Len(window) : window[k] \in Insts
    BY <1>2, StageFacts
  <2> QED  BY <2>1
<1>4. \A i \in Insts : i.pc \in PC
  BY DEF Insts
<1>5. RBP \in Stacks /\ bq \in Queues
  BY <1>2 DEF TypeOK
<1>6. QueueOK(bq, window, BundleStart) /\ RBP.tail = bq.tail
  BY <1>2 DEF QueueInv
<1>7. Recoverable(RBP, bq, window, BundleStart, s, t, base_stack)
  <2>1. BundleStart \in Nat /\ BundleStart <= Len(window)
    BY <1>3
  <2> QED  BY <1>1, <1>3, <1>4, <1>5, <1>6, <2>1 DEF Recoverable
<1> QED  BY <1>1, <1>3, <1>4, <1>5, <1>6, <1>7

LEMMA StackKept ==
  ASSUME Inv, StackInv, Len(window') = Len(window),
         \A k \in 1..Len(window) : Resembles(window'[k], window[k]),
         UNCHANGED <<fetch_active, fetch2, FETCH2, RBP, base_stack>>
  PROVE  StackInv'
<1>1. PICK s, t : StackOK(s, t)
  BY DEF StackInv
<1>2. /\ fetch_active' = fetch_active /\ fetch2' = fetch2 /\ RBP' = RBP
      /\ base_stack' = base_stack /\ FETCH2' = FETCH2
  OBVIOUS
<1>3. BundleStart' = BundleStart
  BY <1>2 DEF BundleStart, InFetch2
<1>4. \A k \in 1..Len(window) : SameTurn(window'[k], window[k])
  BY SameTurns
<1>5. /\ Path(s, t, base_stack, window) /\ StackLogged(RBP, window, BundleStart, s, t)
      /\ HoldsAt(RBP.ras, t[BundleStart], s[BundleStart])
      /\ HoldsAt(RBP.ras, t[Len(window)], s[Len(window)])
      /\ fetch2.valid => Context(RBP, s[BundleStart], t[BundleStart])
      /\ fetch_active => RBP.tos = t[Len(window)]
      /\ \A k \in (BundleStart + 1)..Len(window) : Turns(window[k]) => k = Len(window)
      /\ Len(window) \in Nat /\ BundleStart \in 0..Len(window)
  BY <1>1, StackParts
<1>6. Path(s, t, base_stack, window')
  <2>1. /\ Len(window) \in Nat /\ Len(window') \in Nat /\ Len(window') <= Len(window)
        /\ \A k \in 1..Len(window') : SameTurn(window'[k], window[k])
    BY <1>4, <1>5
  <2> QED  BY <2>1, <1>5, PathCut
<1>7. StackLogged(RBP, window', BundleStart, s, t)
  <2>1. /\ BundleStart \in Nat /\ BundleStart <= BundleStart
        /\ \A k \in 1..BundleStart : SameTurn(window'[k], window[k])
    BY <1>4, <1>5
  <2> QED  BY <2>1, <1>5, LogCut
<1>8. \A k \in (BundleStart + 1)..Len(window) : Turns(window'[k]) => k = Len(window)
  <2>1. \A k \in (BundleStart + 1)..Len(window) : k \in 1..Len(window)
    BY <1>5
  <2> QED  BY <2>1, <1>4, <1>5, TurnsSame DEF SameTurn
<1>9. StackAt(RBP, window', BundleStart, fetch2.valid, fetch_active, base_stack, s, t)
  BY <1>5, <1>6, <1>7, <1>8 DEF StackAt
<1>10. StackOK(s, t)'
  BY <1>2, <1>3, <1>9 DEF StackOK
<1> QED  BY <1>10 DEF StackInv

LEMMA StackDecode ==
  ASSUME Inv, StackInv, Decode
  PROVE  StackInv'
<1>1. /\ window' = window /\ UNCHANGED <<fetch_active, fetch2, FETCH2, RBP, base_stack>>
  BY DEF Decode
<1>2. \A k \in 1..Len(window) : Resembles(window'[k], window[k])
  BY <1>1 DEF Resembles
<1> QED  BY <1>1, <1>2, StackKept

LEMMA StackStutter ==
  ASSUME Inv, StackInv, UNCHANGED vars
  PROVE  StackInv'
<1>1. /\ window' = window /\ UNCHANGED <<fetch_active, fetch2, FETCH2, RBP, base_stack>>
  BY DEF vars
<1>2. \A k \in 1..Len(window) : Resembles(window'[k], window[k])
  BY <1>1 DEF Resembles
<1> QED  BY <1>1, <1>2, StackKept

LEMMA StackResolve ==
  ASSUME Inv, StackInv, NEW k \in 1..Len(window), ResolveCorrect(k)
  PROVE  StackInv'
<1>1. window \in Seq(Insts)
  BY DEF Inv, TypeOK
<1>2. /\ Finished(window', window, k)
      /\ UNCHANGED <<fetch_active, fetch2, FETCH2, RBP, base_stack>>
  BY DEF ResolveCorrect, Finished
<1>3. /\ Len(window') = Len(window)
      /\ \A j \in 1..Len(window) : Resembles(window'[j], window[j])
  BY <1>1, <1>2, FinishEffect
<1> QED  BY <1>2, <1>3, StackKept

(* A squash of Fetch2, with the stack that an older position had.          *)
LEMMA StackSquash ==
  ASSUME Inv, NEW s, NEW t, StackOK(s, t), NEW k \in 0..BundleStart,
         squash_fetch2, Len(window') = k,
         \A j \in 1..k : SameTurn(window'[j], window[j]),
         base_stack' = base_stack, RBP'.log = RBP.log,
         RBP'.tos = t[k], HoldsAt(RBP'.ras, t[k], s[k])
  PROVE  StackInv'
<1>1. TypeOK
  BY DEF Inv
<1>2. ~fetch2'.valid /\ InFetch2' = 0
  BY <1>1, SquashDrains
<1>3. /\ Path(s, t, base_stack, window) /\ StackLogged(RBP, window, BundleStart, s, t)
      /\ Len(window) \in Nat /\ BundleStart \in 0..Len(window)
  BY StackParts
<1>4. k \in Nat /\ k <= BundleStart /\ k <= Len(window) /\ BundleStart \in Nat
  BY <1>3
<1>5. BundleStart' = k
  BY <1>2, <1>4 DEF BundleStart
<1>6. Path(s, t, base_stack', window')
  <2>1. Path(s, t, base_stack, window')
    BY <1>3, <1>4, PathCut
  <2> QED  BY <2>1
<1>7. StackLogged(RBP', window', k, s, t)
  BY <1>3, <1>4, LogCut
<1>8. \A j \in (k + 1)..Len(window') : j = Len(window')
  BY <1>4
<1>9. StackAt(RBP', window', k, fetch2'.valid, fetch_active', base_stack', s, t)
  BY <1>2, <1>6, <1>7, <1>8 DEF StackAt
<1>10. StackOK(s, t)'
  BY <1>5, <1>9 DEF StackOK
<1> QED  BY <1>10 DEF StackInv

LEMMA StackMisfetch ==
  ASSUME Inv, StackInv, Fetch2Misfetch
  PROVE  StackInv'
<1>1. PICK s, t : StackOK(s, t)
  BY DEF StackInv
<1>2. PICK b : b = BundleStart
  OBVIOUS
<1>3. /\ fetch2.valid /\ squash_fetch2 /\ RBP' = RASRestoreContext(RBP)
      /\ window' = SubSeq(window, 1, b) /\ base_stack' = base_stack
  BY <1>2 DEF Fetch2Misfetch
<1>4. /\ Context(RBP, s[b], t[b]) /\ b \in 0..Len(window) /\ b \in 0..BundleStart
      /\ HoldsAt(RBP.ras, t[b], s[b]) /\ RBP \in Stacks /\ window \in Seq(Insts)
  <2>1. /\ fetch2.valid => Context(RBP, s[BundleStart], t[BundleStart])
        /\ BundleStart \in 0..Len(window) /\ RBP \in Stacks
        /\ HoldsAt(RBP.ras, t[BundleStart], s[BundleStart]) /\ Len(window) \in Nat
    BY <1>1, StackParts
  <2>2. window \in Seq(Insts)
    BY DEF Inv, TypeOK
  <2>3. b \in 0..BundleStart
    BY <2>1, <1>2
  <2> QED  BY <2>1, <2>2, <2>3, <1>2, <1>3
<1>5. Len(window') = b /\ \A j \in 1..b : window'[j] = window[j]
  BY <1>3, <1>4, CutEffect
<1>6. \A j \in 1..b : SameTurn(window'[j], window[j])
  BY <1>5, SameTurns
<1>7. RBP'.log = RBP.log /\ RBP'.ras = RBP.ras /\ RBP'.tos = t[b]
  <2>1. RBP' = [RBP EXCEPT !.tos = RBP.fetch2_tos_pointer]
    BY <1>3 DEF RASRestoreContext
  <2> QED  BY <2>1, <1>4 DEF Stacks, Context
<1> QED  BY <1>1, <1>3, <1>4, <1>5, <1>6, <1>7, StackSquash

LEMMA StackMispredict ==
  ASSUME Walks, Inv, StackInv, NEW k \in 1..Len(window), Mispredict(k)
  PROVE  StackInv'
<1>1. PICK s, t : StackOK(s, t)
  BY DEF StackInv
<1>2. /\ k <= BackEnd /\ window[k].branch /\ squash_fetch2 /\ base_stack' = base_stack
  BY DEF Mispredict
<1>3. /\ Recoverable(RBP, bq, window, BundleStart, s, t, base_stack)
      /\ RBP \in Stacks /\ bq \in Queues /\ QueueOK(bq, window, BundleStart)
      /\ BundleStart \in 0..Len(window) /\ Len(window) \in Nat
  BY <1>1, StackParts
<1>4. k \in 0..BundleStart /\ k \in Branches(window, BundleStart)
  <2>1. decode \in Nat /\ InFetch2 \in Nat
    <3>1. TypeOK /\ StageInv
      BY DEF Inv
    <3> QED  BY <3>1, StageFacts
  <2>2. k <= Len(window) - InFetch2 - decode /\ BundleStart = Len(window) - InFetch2
    BY <1>2 DEF BackEnd, BundleStart
  <2>3. k \in 1..BundleStart
    BY <2>1, <2>2, <1>3
  <2> QED  BY <2>3, <1>2, <1>3 DEF Branches
<1>5. PICK tag \in BQSlot : tag = window[k].pred_tag
  <2>1. BundleStart \in Nat
    BY <1>3
  <2> QED  BY <2>1, <1>3, <1>4, QueueSlots
<1>6. PICK next_pc \in Outcomes(window[k].pc) \ {window[k].next_pc} :
        /\ RBP' = RASMispredict(RBP, tag)
        /\ Corrected(window', window, k, next_pc, next_pc # Inc(window[k].pc))
  BY <1>5, Zenon DEF Mispredict, Corrected
<1>7. Len(window') = k /\ \A j \in 1..k : SameTurn(window'[j], window[j])
  <2>1. window \in Seq(Insts) /\ window[k].pc \in PC
    <3>1. window \in Seq(Insts)
      BY DEF Inv, TypeOK
    <3>2. window[k] \in Insts
      BY <3>1
    <3> QED  BY <3>1, <3>2 DEF Insts
  <2>2. next_pc \in PC
    BY <2>1, OutcomesType
  <2>3. PICK taken \in BOOLEAN : taken = (next_pc # Inc(window[k].pc))
    OBVIOUS
  <2>4. Corrected(window', window, k, next_pc, taken)
    BY <1>6, <2>3
  <2>5. /\ Len(window') = k /\ \A j \in 1..(k - 1) : window'[j] = window[j]
        /\ Corrects(window'[k], window[k], next_pc, taken)
    BY <2>1, <2>2, <2>4, CorrectEffect
  <2>6. \A j \in 1..k : j \in 1..(k - 1) \/ j = k
    OBVIOUS
  <2> QED  BY <2>5, <2>6, SameTurns
<1>8. /\ RBP'.log = RBP.log /\ RBP'.tos = t[k] /\ HoldsAt(RBP'.ras, t[k], s[k])
  <2>1. /\ RASMispredict(RBP, tag).tos = t[k]
        /\ HoldsAt(RASMispredict(RBP, tag).ras, t[k], s[k])
    BY <1>3, <1>4, <1>5, MispredictRecovers
  <2>2. RASMispredict(RBP, tag).log = RBP.log
    BY <1>3, MispredictWalks
  <2> QED  BY <2>1, <2>2, <1>6
<1> QED  BY <1>1, <1>2, <1>4, <1>7, <1>8, StackSquash

(* Fetch2 waits for Decode; a serializing instruction cuts its bundle.     *)
LEMMA StallCuts ==
  ASSUME Inv, Fetch2Stall
  PROVE  /\ BundleStart' = BundleStart
         /\ BundleStart < Len(window') /\ Len(window') <= Len(window)
         /\ Len(window') \in Nat
         /\ \A k \in 1..Len(window') : window'[k] = window[k]
         /\ fetch_active' => fetch_active /\ Len(window') = Len(window)
<1>0. TypeOK /\ StageInv /\ InstInv /\ IdleInv
  BY DEF Inv
<1>1. /\ fetch2.valid /\ window' = Kept /\ fetch_active' = (fetch_active /\ ~Idles)
  BY DEF Fetch2Stall
<1>2. /\ BundleStart \in Nat /\ Predecoded \in 1..InFetch2 /\ InFetch2 \in Nat
      /\ Len(Kept) = BundleStart + Predecoded /\ Len(Kept) <= Len(window)
      /\ \A k \in 1..Len(Kept) : Kept[k] = window[k]
      /\ ~Idles => Len(Kept) = Len(window)
  BY <1>0, <1>1, StageFacts, KeptFacts
<1>3. BundleStart < Len(window') /\ Len(window') <= Len(window) /\ Len(window') \in Nat
  BY <1>1, <1>2
<1>4. \A k \in 1..Len(window') : window'[k] = window[k]
  BY <1>1, <1>2
<1>5. fetch_active' => fetch_active /\ Len(window') = Len(window)
  BY <1>1, <1>2
<1> QED  BY <1>3, <1>4, <1>5, StallStays

LEMMA StackStall ==
  ASSUME Inv, StackInv, Fetch2Stall
  PROVE  StackInv'
<1>1. PICK s, t : StackOK(s, t)
  BY DEF StackInv
<1>2. PICK b, n : b = BundleStart /\ n = Len(window')
  OBVIOUS
<1>3. /\ RBP' = RBP /\ fetch2' = fetch2 /\ base_stack' = base_stack /\ fetch2.valid
  BY DEF Fetch2Stall
<1>4. /\ Path(s, t, base_stack, window) /\ StackLogged(RBP, window, b, s, t)
      /\ HoldsAt(RBP.ras, t[b], s[b])
      /\ HoldsAt(RBP.ras, t[Len(window)], s[Len(window)])
      /\ fetch2.valid => Context(RBP, s[b], t[b])
      /\ fetch_active => RBP.tos = t[Len(window)]
      /\ \A k \in (b + 1)..Len(window) : Turns(window[k]) => k = Len(window)
      /\ Len(window) \in Nat /\ b \in 0..Len(window)
  BY <1>1, <1>2, StackParts
<1>5. /\ BundleStart' = b /\ b < n /\ n <= Len(window) /\ n \in Nat
      /\ \A k \in 1..n : window'[k] = window[k]
      /\ fetch_active' => fetch_active /\ n = Len(window)
  BY <1>2, StallCuts
<1>6. \A k \in 1..n : SameTurn(window'[k], window[k]) /\ k \in 1..Len(window)
  BY <1>4, <1>5, SameTurns
<1>7. HoldsAt(RBP.ras, t[n], s[n])
  <2>1. CASE n = Len(window)
    BY <2>1, <1>4
  <2>2. CASE n # Len(window)
    <3>1. \A k \in (b + 1)..n : k \in (b + 1)..Len(window) /\ k # Len(window)
      BY <2>2, <1>4, <1>5
    <3>2. \A k \in (b + 1)..n : ~Turns(window[k])
      BY <3>1, <1>4
    <3>3. b \in 0..Len(window) /\ n \in b..Len(window)
      BY <1>4, <1>5
    <3>4. s[n] = s[b] /\ t[n] = t[b]
      BY <3>2, <3>3, <1>4, NoTurn
    <3> QED  BY <3>4, <1>4
  <2> QED  BY <2>1, <2>2
<1>8. \A k \in (b + 1)..n : Turns(window'[k]) => k = n
  <2>1. \A k \in (b + 1)..n : k \in (b + 1)..Len(window) /\ k \in 1..n
    BY <1>4, <1>5
  <2>2. \A k \in (b + 1)..n : k = Len(window) => k = n
    BY <1>4, <1>5
  <2> QED  BY <2>1, <2>2, <1>4, <1>5
<1>9. Path(s, t, base_stack, window') /\ StackLogged(RBP, window', b, s, t)
  <2>1. n = Len(window') /\ Len(window') \in Nat /\ Len(window') <= Len(window)
    BY <1>2, <1>5
  <2>2. \A k \in 1..Len(window') : SameTurn(window'[k], window[k])
    BY <1>2, <1>6
  <2>3. b \in Nat /\ b <= b /\ \A k \in 1..b : SameTurn(window'[k], window[k])
    BY <1>4, <1>5, <1>6
  <2> QED  BY <2>1, <2>2, <2>3, <1>4, PathCut, LogCut
<1>10. StackAt(RBP, window', b, fetch2.valid, fetch_active', base_stack, s, t)
  BY <1>2, <1>4, <1>5, <1>7, <1>8, <1>9 DEF StackAt
<1>11. StackOK(s, t)'
  BY <1>3, <1>5, <1>10 DEF StackOK
<1> QED  BY <1>11 DEF StackInv

-----------------------------------------------------------------------------
(* The bundle in Fetch2 enters the log.                                    *)
LEMMA BranchLogged ==
  ASSUME NEW r \in Stacks, NEW id \in BQSlot, NEW type,
         NEW q, q = RASLogBranch(r, id, type)
  PROVE  /\ q.ras = r.ras /\ q.tos = r.tos
         /\ q.fetch2_tos_pointer = r.fetch2_tos_pointer
         /\ q.fetch2_tos_content = r.fetch2_tos_content
         /\ \A j \in BQSlot : j # id => q.log[j] = r.log[j]
         /\ q.log[id].tos_pointer = r.fetch2_tos_pointer
         /\ q.log[id].tos_content = r.fetch2_tos_content
         /\ q.log[id].iscall <=> type \in Calls
         /\ q.log[id].isreturn <=> type = "BTB_RETURN"
<1>1. PICK x : x = Next1(r.tail, bq_size)
  OBVIOUS
<1>2. PICK e : e = [tos_pointer |-> r.fetch2_tos_pointer,
                    tos_content |-> r.fetch2_tos_content,
                    iscall |-> type \in {"BTB_CALL_DIRECT", "BTB_CALL_INDIRECT"},
                    isreturn |-> type = "BTB_RETURN"]
  OBVIOUS
<1>3. /\ e.tos_pointer = r.fetch2_tos_pointer /\ e.tos_content = r.fetch2_tos_content
      /\ e.iscall <=> type \in Calls
      /\ e.isreturn <=> type = "BTB_RETURN"
  BY <1>2 DEF Calls
<1>4. q = [r EXCEPT !.log[id] = e, !.tail = x]
  BY <1>1, <1>2 DEF RASLogBranch
<1>5. /\ q.ras = r.ras /\ q.tos = r.tos
      /\ q.fetch2_tos_pointer = r.fetch2_tos_pointer
      /\ q.fetch2_tos_content = r.fetch2_tos_content
  BY <1>4 DEF Stacks
<1>6. q.log[id] = e /\ \A j \in BQSlot : j # id => q.log[j] = r.log[j]
  BY <1>4 DEF Stacks
<1> QED  BY <1>3, <1>5, <1>6

(* After k instructions of the bundle, the record u of the fold has the    *)
(* branches among them in its log.                                         *)
StackPartial(u, k, s, t) ==
  /\ u.RBP.ras = RBP.ras /\ u.RBP.tos = RBP.tos
  /\ Context(u.RBP, s[BundleStart], t[BundleStart])
  /\ StackLogged(u.RBP, u.window, BundleStart + k, s, t)

(* What PushBranch does to the stack and the window.                       *)
LEMMA PushTags ==
  ASSUME NEW u, NEW k, NEW i, i = Fetched(k), NEW j, j = BundleStart + 1 + k
  PROVE  /\ ~i.branch => PushBranch(u, k) = u
         /\ i.branch =>
              /\ PushBranch(u, k).RBP = RASLogBranch(u.RBP, u.bq.tail, i.type)
              /\ Named(PushBranch(u, k).window, u.window, j, u.bq.tail, u.bq.tail_phase)
BY DEF PushBranch, Named

LEMMA StackPush ==
  ASSUME Inv, fetch2.valid, NEW h, NEW s, NEW t, StackOK(s, t),
         NEW k \in 0..(Predecoded - 1), NEW u, NEW v, v = PushBranch(u, k),
         Partial(u, k, h), Partial(v, k + 1, h), StackPartial(u, k, s, t)
  PROVE  StackPartial(v, k + 1, s, t)
<1>0. TypeOK /\ StageInv /\ InstInv /\ IdleInv
  BY DEF Inv
<1>1. PICK b, n : b = BundleStart /\ n = b + k
  OBVIOUS
<1>2. /\ Path(s, t, base_stack, window)
      /\ \A j \in (b + 1)..Len(window) : Turns(window[j]) => j = Len(window)
      /\ Len(window) \in Nat /\ b \in 0..Len(window)
  BY <1>1, StackParts
<1>3. /\ k \in Nat /\ n \in Nat /\ b \in Nat /\ n + 1 \in 1..Len(Kept)
      /\ n + 1 \in 1..Len(window) /\ b + 1 + k = n + 1 /\ b + (k + 1) = n + 1
      /\ n \in b..Len(window)
  <2>1. /\ b \in Nat /\ Predecoded \in 1..InFetch2 /\ InFetch2 \in Nat
        /\ Len(window) \in Nat
        /\ Len(Kept) = b + Predecoded /\ b + InFetch2 = Len(window)
    BY <1>0, <1>1, StageFacts, KeptFacts
  <2> QED  BY <2>1, <1>1
<1>4. PICK i : i = window[n + 1] /\ i = Fetched(k)
  BY <1>1, <1>3 DEF Fetched
<1>5. /\ u.bq \in Queues /\ u.RBP \in Stacks /\ u.window \in Seq(Insts)
      /\ Len(u.window) = Len(Kept) /\ Alike(u.window[n + 1], i)
  BY <1>3, <1>4 DEF Partial
<1>6. v.bq \in Queues /\ QueueOK(v.bq, v.window, n + 1) /\ Alike(v.window[n + 1], i)
  BY <1>1, <1>3, <1>4 DEF Partial
<1>7. /\ u.RBP.ras = RBP.ras /\ u.RBP.tos = RBP.tos /\ Context(u.RBP, s[b], t[b])
      /\ StackLogged(u.RBP, u.window, n, s, t)
  BY <1>1 DEF StackPartial
<1>8. CASE ~i.branch
  <2>1. v = u
    BY <1>4, <1>8, PushTags
  <2>2. ~u.window[n + 1].branch
    BY <1>5, <1>8 DEF Alike
  <2>3. Branches(u.window, n + 1) = Branches(u.window, n)
    BY <2>2, <1>3 DEF Branches
  <2>4. StackLogged(v.RBP, v.window, n + 1, s, t)
    BY <2>1, <2>3, <1>7 DEF StackLogged
  <2> QED  BY <2>1, <2>4, <1>1, <1>3, <1>7 DEF StackPartial
<1>9. CASE i.branch
  <2>1. PICK tag \in BQSlot, phase \in BOOLEAN :
          tag = u.bq.tail /\ phase = u.bq.tail_phase
    BY <1>5 DEF Queues
  <2>2. PICK r, w : r = v.RBP /\ w = v.window
    OBVIOUS
  <2>3. r = RASLogBranch(u.RBP, tag, i.type) /\ Named(w, u.window, n + 1, tag, phase)
    BY <1>1, <1>3, <1>4, <1>9, <2>1, <2>2, PushTags
  <2>4. /\ \A j \in 1..Len(Kept) : j # n + 1 => w[j] = u.window[j]
        /\ w[n + 1].pred_tag = tag
    <3>1. u.window \in Seq(Insts) /\ n + 1 \in 1..Len(u.window)
      BY <1>3, <1>5
    <3>2. /\ \A j \in 1..Len(u.window) : j # n + 1 => w[j] = u.window[j]
          /\ w[n + 1].pred_tag = tag
      BY ONLY <3>1, <2>3, tag \in BQSlot, phase \in BOOLEAN, NameEffect
    <3> QED  BY <3>2, <1>5
  <2>5. /\ r.ras = u.RBP.ras /\ r.tos = u.RBP.tos
        /\ r.fetch2_tos_pointer = u.RBP.fetch2_tos_pointer
        /\ r.fetch2_tos_content = u.RBP.fetch2_tos_content
        /\ \A j \in BQSlot : j # tag => r.log[j] = u.RBP.log[j]
        /\ r.log[tag].tos_pointer = u.RBP.fetch2_tos_pointer
        /\ r.log[tag].tos_content = u.RBP.fetch2_tos_content
        /\ r.log[tag].iscall <=> i.type \in Calls
        /\ r.log[tag].isreturn <=> i.type = "BTB_RETURN"
    BY <1>5, <2>3, BranchLogged
  <2>6. s[n] = s[b] /\ t[n] = t[b]
    <3>1. \A j \in (b + 1)..n : j \in (b + 1)..Len(window) /\ j # Len(window)
      BY <1>2, <1>3
    <3>2. \A j \in (b + 1)..n : ~Turns(window[j])
      BY <3>1, <1>2
    <3> QED  BY <3>2, <1>2, <1>3, NoTurn
  <2>7. /\ w[n + 1].branch /\ n + 1 \in Branches(w, n + 1)
        /\ IsCall(w[n + 1]) <=> i.type \in Calls
        /\ IsReturn(w[n + 1]) <=> i.type = "BTB_RETURN"
    <3>1. w[n + 1].branch = i.branch /\ w[n + 1].type = i.type
      BY <1>6, <2>2 DEF Alike
    <3>2. n + 1 \in 1..(n + 1)
      BY <1>3
    <3>3. w[n + 1].branch
      BY <3>1, <1>9
    <3>4. n + 1 \in Branches(w, n + 1)
      BY <3>2, <3>3 DEF Branches
    <3>5. /\ IsCall(w[n + 1]) <=> i.type \in Calls
          /\ IsReturn(w[n + 1]) <=> i.type = "BTB_RETURN"
      BY <3>1, <3>3 DEF IsCall, IsReturn
    <3> QED  BY <3>3, <3>4, <3>5
  <2>8. /\ r.log[tag].tos_pointer = t[n]
        /\ s[n] # <<>> => r.log[tag].tos_content = Last(s[n])
        /\ r.log[tag].iscall <=> IsCall(w[n + 1])
        /\ r.log[tag].isreturn <=> IsReturn(w[n + 1])
    BY <1>7, <2>5, <2>6, <2>7 DEF Context
  <2>9. ASSUME NEW j \in Branches(w, n + 1), j # n + 1
        PROVE  /\ r.log[w[j].pred_tag].tos_pointer = t[j - 1]
               /\ s[j - 1] # <<>> => r.log[w[j].pred_tag].tos_content = Last(s[j - 1])
               /\ r.log[w[j].pred_tag].iscall <=> IsCall(w[j])
               /\ r.log[w[j].pred_tag].isreturn <=> IsReturn(w[j])
    <3>1. j \in 1..n /\ j \in 1..Len(Kept) /\ w[j].branch
      BY <1>3, <2>9 DEF Branches
    <3>2. w[j] = u.window[j]
      BY <3>1, <2>4, <2>9
    <3>3. j \in Branches(u.window, n)
      BY <3>1, <3>2 DEF Branches
    <3>4. w[j].pred_tag \in BQSlot /\ w[j].pred_tag # w[n + 1].pred_tag
      <4>1. n + 1 \in Nat
        BY <1>3
      <4> QED  BY <4>1, <1>6, <2>2, <2>7, <2>9, QueueSlots
    <3>5. r.log[w[j].pred_tag] = u.RBP.log[w[j].pred_tag]
      BY <3>4, <2>4, <2>5
    <3> QED  BY <3>2, <3>3, <3>5, <1>7, Zenon DEF StackLogged
  <2>10. (n + 1) - 1 = n
    BY <1>3
  <2>11. StackLogged(r, w, n + 1, s, t)
    BY <2>4, <2>8, <2>9, <2>10 DEF StackLogged
  <2>12. Context(r, s[b], t[b])
    BY <1>7, <2>5 DEF Context
  <2> QED  BY <2>2, <2>5, <2>11, <2>12, <1>1, <1>3, <1>7 DEF StackPartial
<1> QED  BY <1>8, <1>9

LEMMA StackBundle ==
  ASSUME Inv, fetch2.valid, ~Misfetch, NEW s, NEW t, StackOK(s, t),
         NEW h, HistoryOK(h), NEW f, PushedBy(f)
  PROVE  StackPartial(f[Predecoded], Predecoded, s, t)
<1>0. TypeOK /\ StageInv /\ InstInv /\ IdleInv /\ QueueInv
  BY DEF Inv
<1>1. PICK P \in Nat : P = Predecoded /\ BundleStart \in Nat /\ BundleStart <= Len(Kept)
                       /\ \A k \in 1..Len(Kept) : Kept[k] = window[k]
  <2>1. /\ Predecoded \in 1..InFetch2 /\ InFetch2 \in Nat /\ BundleStart \in Nat
        /\ Len(Kept) = BundleStart + Predecoded
        /\ \A k \in 1..Len(Kept) : Kept[k] = window[k]
    BY <1>0, StageFacts, KeptFacts
  <2> QED  BY <2>1
<1>2. /\ f[0] = PushStart /\ \A k \in 1..P : f[k] = PushBranch(f[k - 1], k - 1)
      /\ \A k \in 0..P : Partial(f[k], k, h)
  <2>1. f[0] = PushStart /\ \A k \in 1..P : f[k] = PushBranch(f[k - 1], k - 1)
    BY <1>1 DEF PushedBy
  <2> QED  BY <2>1, <1>0, <1>1, PushBundle
<1>3. StackPartial(f[0], 0, s, t)
  <2>1. f[0].RBP = RBP /\ f[0].window = Kept
    BY <1>2 DEF PushStart
  <2>2. /\ StackLogged(RBP, window, BundleStart, s, t)
        /\ Context(RBP, s[BundleStart], t[BundleStart])
    BY StackParts
  <2>3. \A k \in 1..BundleStart : Kept[k] = window[k]
    <3>1. \A k \in 1..BundleStart : k \in 1..Len(Kept)
      BY <1>1
    <3> QED  BY <3>1, <1>1
  <2>4. /\ BundleStart <= BundleStart /\ BundleStart + 0 = BundleStart
        /\ \A k \in 1..BundleStart : SameTurn(Kept[k], window[k])
    BY <2>3, <1>1, SameTurns
  <2>5. StackLogged(RBP, Kept, BundleStart, s, t)
    BY <2>2, <2>4, <1>1, LogCut
  <2> QED  BY <2>1, <2>2, <2>4, <2>5 DEF StackPartial
<1> DEFINE T == {k \in 0..P : ~StackPartial(f[k], k, s, t)}
<1>4. SUFFICES ASSUME T # {}  PROVE FALSE
  BY <1>1
<1>5. T \in SUBSET Nat
  OBVIOUS
<1>6. PICK m \in T : \A y \in T : m <= y
  BY <1>4, <1>5, LeastNumber
<1>7. m # 0
  BY <1>3, <1>6
<1>8. /\ m \in 1..P /\ m - 1 \in 0..P /\ m - 1 \in 0..(P - 1)
      /\ m - 1 < m /\ (m - 1) + 1 = m /\ m \in 0..P
  BY <1>6, <1>7
<1>9. m - 1 \notin T
  BY <1>6, <1>8
<1>10. PICK k, u, v : k = m - 1 /\ u = f[k] /\ v = f[m]
  OBVIOUS
<1>11. /\ StackPartial(u, k, s, t) /\ v = PushBranch(u, k) /\ k + 1 = m
       /\ k \in 0..(Predecoded - 1) /\ Partial(u, k, h) /\ Partial(v, k + 1, h)
  BY <1>1, <1>2, <1>8, <1>9, <1>10
<1>12. StackPartial(v, k + 1, s, t)
  BY <1>11, StackPush
<1> QED  BY <1>6, <1>10, <1>11, <1>12

LEMMA StackAdvance ==
  ASSUME Inv, StackInv, Fetch2Advance
  PROVE  StackInv'
<1>0. TypeOK /\ StageInv /\ InstInv /\ IdleInv /\ QueueInv /\ HistoryInv
  BY DEF Inv
<1>1. PICK s, t : StackOK(s, t)
  BY DEF StackInv
<1>2. PICK h : HistoryOK(h)
  BY <1>0 DEF HistoryInv
<1>3. /\ fetch2.valid /\ ~Misfetch /\ base_stack' = base_stack
      /\ fetch2' = [fetch2 EXCEPT !.valid = FALSE]
      /\ fetch_active' = (fetch_active /\ ~Idles)
      /\ FETCH2' = [p \in Bundle |-> Invalidated[p] /\ p >= Predecoded]
  BY DEF Fetch2Advance
<1>4. PICK f : PushedBy(f)
  BY <1>0, <1>3, PushSteps
<1>5. PICK b, P, n, u : /\ b = BundleStart /\ P = Predecoded /\ n = b + P /\ u = f[P]
  OBVIOUS
<1>6. /\ b \in Nat /\ P \in Nat \ {0} /\ n \in Nat /\ n = Len(Kept)
      /\ n \in b..Len(window) /\ b \in 0..Len(window) /\ Len(window) \in Nat
      /\ ~Idles => n = Len(window)
  <2>1. /\ b \in Nat /\ P \in 1..InFetch2 /\ InFetch2 \in Nat
        /\ Len(window) \in Nat /\ Len(Kept) = b + P /\ b + InFetch2 = Len(window)
        /\ ~Idles => Len(Kept) = Len(window)
    BY <1>0, <1>3, <1>5, StageFacts, KeptFacts
  <2> QED  BY <2>1, <1>5
<1>7. RBP' = u.RBP /\ window' = u.window
  <2>1. u = FoldLeft(PushBranch, PushStart, PushOrder)
    BY <1>4, <1>5 DEF PushedBy
  <2> QED  BY <2>1 DEF Fetch2Advance, PushStart, PushOrder
<1>8. Len(window') = n /\ \A k \in 1..n : Alike(window'[k], window[k])
  <2>1. P \in 0..P
    BY <1>6
  <2>2. Partial(u, P, h)
    BY <2>1, <1>0, <1>2, <1>3, <1>4, <1>5, PushBundle
  <2> QED  BY <2>2, <1>6, <1>7 DEF Partial
<1>9. /\ RBP'.ras = RBP.ras /\ RBP'.tos = RBP.tos
      /\ StackLogged(RBP', window', n, s, t)
  <2>1. StackPartial(u, P, s, t)
    BY <1>1, <1>2, <1>3, <1>4, <1>5, StackBundle
  <2> QED  BY <2>1, <1>5, <1>7 DEF StackPartial
<1>10. ~fetch2'.valid /\ BundleStart' = n
  <2>1. ~fetch2'.valid
    BY <1>0, <1>3 DEF TypeOK
  <2>2. 0 \in Bundle
    BY FetchUnitAssumption DEF Bundle
  <2>3. FETCH2'[0] => 0 >= P
    BY <2>2, <1>3, <1>5
  <2>4. ~FETCH2'[0]
    BY <2>3, <1>6
  <2>5. InFetch2' = 0
    BY <2>2, <2>4, NoneValid, InFetch2Valid
  <2> QED  BY <2>1, <2>5, <1>6, <1>8 DEF BundleStart
<1>11. /\ Path(s, t, base_stack, window)
       /\ HoldsAt(RBP.ras, t[b], s[b])
       /\ HoldsAt(RBP.ras, t[Len(window)], s[Len(window)])
       /\ fetch_active => RBP.tos = t[Len(window)]
       /\ \A k \in (b + 1)..Len(window) : Turns(window[k]) => k = Len(window)
  BY <1>1, <1>5, StackParts
<1>12. HoldsAt(RBP.ras, t[n], s[n])
  <2>1. CASE n = Len(window)
    BY <2>1, <1>11
  <2>2. CASE n # Len(window)
    <3>1. \A k \in (b + 1)..n : k \in (b + 1)..Len(window) /\ k # Len(window)
      BY <2>2, <1>6
    <3>2. \A k \in (b + 1)..n : ~Turns(window[k])
      BY <3>1, <1>11
    <3>3. s[n] = s[b] /\ t[n] = t[b]
      BY <3>2, <1>6, <1>11, NoTurn
    <3> QED  BY <3>3, <1>11
  <2> QED  BY <2>1, <2>2
<1>13. fetch_active' => RBP'.tos = t[n]
  BY <1>3, <1>6, <1>9, <1>11
<1>14. /\ Len(window') \in Nat /\ Len(window') <= Len(window)
       /\ \A k \in 1..Len(window') : SamePath(window'[k], window[k])
  BY <1>6, <1>8 DEF Alike, SamePath
<1>15. Path(s, t, base_stack', window')
  <2>1. Path(s, t, base_stack, window')
    BY <1>6, <1>11, <1>14, PathAlong
  <2> QED  BY <2>1, <1>3
<1>16. \A k \in (n + 1)..Len(window') : k = Len(window')
  BY <1>6, <1>8
<1>17. StackAt(RBP', window', n, fetch2'.valid, fetch_active', base_stack', s, t)
  BY <1>8, <1>9, <1>10, <1>12, <1>13, <1>15, <1>16 DEF StackAt
<1>18. StackOK(s, t)'
  BY <1>10, <1>17 DEF StackOK
<1> QED  BY <1>18 DEF StackInv

-----------------------------------------------------------------------------
(* A bundle is fetched: at most its last instruction turns the stack.      *)

(* What spec_update() does, to a stack whose top is at x with the open     *)
(* calls st below it, for a bundle that ends in instruction i.             *)
LEMMA SpecTurn ==
  ASSUME NEW r \in Stacks, NEW x \in RASSlot, r.tos = x,
         NEW st \in Seq(PC), Len(st) <= MaxDepth, HoldsAt(r.ras, x, st),
         NEW i, i.pc \in PC, NEW u, u.push_ras_pc = Inc(i.pc),
         u.push_ras <=> IsCall(i), u.pop_ras <=> IsReturn(i),
         IsCall(i) => Len(st) < MaxDepth,
         NEW q, q = RASSpecUpdate(RASSaveContext(r), u)
  PROVE  /\ Context(q, st, x) /\ q.log = r.log /\ q.tos = Moved(x, i)
         /\ HoldsAt(q.ras, x, st) /\ HoldsAt(q.ras, Moved(x, i), CallStack(st, i))
<1>1. PICK c \in PC : c = r.ras[r.tos] /\ (st # <<>> => c = Last(st))
  <2>1. r.ras[r.tos] \in PC
    BY DEF Stacks
  <2> QED  BY <2>1, HoldsTop
<1>2. PICK f : f = [r EXCEPT !.fetch2_tos_pointer = x, !.fetch2_tos_content = c]
  OBVIOUS
<1>3. f = RASSaveContext(r)
  BY <1>1, <1>2 DEF RASSaveContext
<1>4. /\ f.fetch2_tos_pointer = x /\ f.fetch2_tos_content = c
      /\ f.log = r.log /\ f.ras = r.ras /\ f.tos = x
      /\ f.ras \in [RASSlot -> PC] /\ f \in Stacks
  BY <1>1, <1>2 DEF Stacks
<1>5. CASE IsReturn(i)
  <2>1. q = RASPop(f) /\ ~IsCall(i)
    BY <1>3, <1>5 DEF RASSpecUpdate, IsReturn, IsCall, Calls
  <2>2. PICK y : y = Below(x, ras_size)
    OBVIOUS
  <2>3. q = [f EXCEPT !.tos = y]
    BY <1>4, <2>1, <2>2 DEF RASPop
  <2>4. /\ q.fetch2_tos_pointer = x /\ q.fetch2_tos_content = c
        /\ q.log = r.log /\ q.ras = r.ras /\ q.tos = y
    BY <1>4, <2>3 DEF Stacks
  <2>5. Moved(x, i) = y
    BY <1>5, <2>1, <2>2 DEF Moved
  <2>6. HoldsAt(q.ras, y, CallStack(st, i))
    <3>1. CallStack(st, i) = IF st = <<>> THEN st ELSE Front(st)
      BY <1>5, CallStackCases
    <3>2. CASE st = <<>>
      BY <3>1, <3>2 DEF HoldsAt
    <3>3. CASE st # <<>>
      BY <3>1, <3>3, <2>2, <2>4, HoldsPop
    <3> QED  BY <3>2, <3>3
  <2> QED  BY <1>1, <2>4, <2>5, <2>6 DEF Context
<1>6. CASE IsCall(i)
  <2>1. q = RASPush(f, u.push_ras_pc)
    BY <1>3, <1>6 DEF RASSpecUpdate, IsReturn, IsCall, Calls
  <2>2. PICK y \in RASSlot, z \in PC : y = Above(x) /\ z = Inc(i.pc)
    BY StackTypes, IncType
  <2>3. PICK g : g = [f EXCEPT !.tos = y, !.ras[y] = z]
    OBVIOUS
  <2>4. q = g
    BY <1>4, <2>1, <2>2, <2>3 DEF RASPush
  <2>5. /\ q.fetch2_tos_pointer = x /\ q.fetch2_tos_content = c
        /\ q.log = r.log /\ q.ras = [r.ras EXCEPT ![y] = z] /\ q.tos = y
    BY <1>4, <2>3, <2>4 DEF Stacks
  <2>6. Moved(x, i) = y /\ CallStack(st, i) = Append(st, z)
    BY <1>6, <2>2, CallStackCases DEF Moved
  <2>7. /\ HoldsAt([r.ras EXCEPT ![Above(x)] = z], x, st)
        /\ HoldsAt([r.ras EXCEPT ![Above(x)] = z], Above(x), Append(st, z))
    BY <1>4, <1>6, HoldsPush
  <2> QED  BY <1>1, <2>2, <2>5, <2>6, <2>7 DEF Context
<1>7. CASE ~Turns(i)
  <2>1. q = f
    BY <1>3, <1>7 DEF RASSpecUpdate, Turns
  <2>2. Moved(x, i) = x /\ CallStack(st, i) = st
    BY <1>7, CallStackCases DEF Moved, Turns
  <2> QED  BY <1>1, <1>4, <2>1, <2>2 DEF Context
<1> QED  BY <1>5, <1>6, <1>7 DEF Turns

(* A log follows any path that has the same values.                        *)
LEMMA LogSwap ==
  ASSUME NEW r, NEW w, NEW n \in Nat, NEW s, NEW t, StackLogged(r, w, n, s, t),
         NEW s2, NEW t2, \A k \in 0..n : s2[k] = s[k] /\ t2[k] = t[k]
  PROVE  StackLogged(r, w, n, s2, t2)
<1>1. \A k \in Branches(w, n) : k - 1 \in 0..n
  BY DEF Branches
<1>2. \A k \in Branches(w, n) : s2[k - 1] = s[k - 1] /\ t2[k - 1] = t[k - 1]
  BY <1>1
<1> QED  BY <1>2 DEF StackLogged

(* The last element of what CallStack makes is bounded.                    *)
LEMMA TurnBound ==
  ASSUME NEW st \in Seq(PC), Len(st) <= MaxDepth, NEW x \in RASSlot,
         NEW i, i.pc \in PC, IsCall(i) => Len(st) < MaxDepth
  PROVE  /\ CallStack(st, i) \in Seq(PC) /\ Len(CallStack(st, i)) <= MaxDepth
         /\ Moved(x, i) \in RASSlot
<1>1. MaxDepth \in Nat /\ Len(st) \in Nat
  BY DepthBound
<1>2. Moved(x, i) \in RASSlot
  BY StackTypes DEF Moved
<1>3. CASE IsCall(i)
  <2>1. PICK z \in PC : CallStack(st, i) = Append(st, z)
    BY <1>3, CallStackCases, IncType
  <2>2. Append(st, z) \in Seq(PC) /\ Len(Append(st, z)) = Len(st) + 1
    BY AppendFacts
  <2> QED  BY <1>1, <1>2, <1>3, <2>1, <2>2
<1>4. CASE IsReturn(i)
  <2>1. CallStack(st, i) = IF st = <<>> THEN st ELSE Front(st)
    BY <1>4, CallStackCases
  <2>2. CASE st = <<>>
    BY <2>1, <2>2, <1>2
  <2>3. CASE st # <<>>
    <3>1. Front(st) \in Seq(PC) /\ Len(Front(st)) = Len(st) - 1
      BY <2>3, FrontFacts
    <3> QED  BY <3>1, <2>1, <2>3, <1>1, <1>2
  <2> QED  BY <2>2, <2>3
<1>5. CASE ~Turns(i)
  <2>1. CallStack(st, i) = st
    BY <1>5, CallStackCases
  <2> QED  BY <2>1, <1>2
<1> QED  BY <1>3, <1>4, <1>5 DEF Turns

(* The window v continues w, whose path is s, by n instructions; and the   *)
(* path continues as well.                                                 *)
Grows(s, w, v, N, n) ==
  /\ Len(w) = N /\ Len(v) = N + n /\ \A k \in 1..N : v[k] = w[k]
  /\ \A k \in (N + 1)..(N + n) : Turns(v[k]) => k = N + n
  /\ v[N + n].pc \in PC
  /\ IsCall(v[N + n]) => Len(s[N]) < MaxDepth

Extends(s2, t2, s, t, base, v, N, n) ==
  /\ Path(s2, t2, base, v)
  /\ \A k \in 0..N : s2[k] = s[k] /\ t2[k] = t[k]
  /\ s2[N + n] = CallStack(s[N], v[N + n])
  /\ t2[N + n] = Moved(t[N], v[N + n])

LEMMA PathGrow ==
  ASSUME NEW s, NEW t, NEW base, NEW w, Path(s, t, base, w),
         NEW N \in Nat, NEW n \in Nat \ {0}, NEW v, Grows(s, w, v, N, n)
  PROVE  \E s2, t2 : Extends(s2, t2, s, t, base, v, N, n)
<1>0. /\ Len(w) = N /\ Len(v) = N + n /\ \A k \in 1..N : v[k] = w[k]
      /\ \A k \in (N + 1)..(N + n) : Turns(v[k]) => k = N + n
      /\ v[N + n].pc \in PC
      /\ IsCall(v[N + n]) => Len(s[N]) < MaxDepth
  BY DEF Grows
<1>1. PICK M \in Nat : M = N + n /\ M > N /\ M - 1 >= N
  OBVIOUS
<1>2. PICK a, x, c, y : /\ a = s[N] /\ x = t[N]
                        /\ c = CallStack(s[N], v[M]) /\ y = Moved(t[N], v[M])
  OBVIOUS
<1>3. /\ a \in Seq(PC) /\ Len(a) <= MaxDepth /\ x \in RASSlot
      /\ c \in Seq(PC) /\ Len(c) <= MaxDepth /\ y \in RASSlot
  <2>1. N \in 0..Len(w)
    BY <1>0
  <2>2. a \in Seq(PC) /\ Len(a) <= MaxDepth /\ x \in RASSlot
    BY <2>1, <1>2 DEF Path
  <2>3. v[M].pc \in PC /\ (IsCall(v[M]) => Len(a) < MaxDepth)
    BY <1>0, <1>1, <1>2
  <2>4. c = CallStack(a, v[M]) /\ y = Moved(x, v[M])
    BY <1>2
  <2> QED  BY <2>2, <2>3, <2>4, TurnBound
<1>4. PICK s2, t2 : /\ s2 = [k \in 0..M |-> IF k <= N THEN s[k] ELSE IF k < M THEN a ELSE c]
                    /\ t2 = [k \in 0..M |-> IF k <= N THEN t[k] ELSE IF k < M THEN x ELSE y]
  OBVIOUS
<1>5. /\ \A k \in 0..N : s2[k] = s[k] /\ t2[k] = t[k]
      /\ \A k \in N..(M - 1) : s2[k] = a /\ t2[k] = x
      /\ s2[M] = c /\ t2[M] = y
  <2>1. \A k \in 0..N : s2[k] = s[k] /\ t2[k] = t[k]
    BY <1>1, <1>4
  <2>2. \A k \in N..(M - 1) : s2[k] = a /\ t2[k] = x
    BY <1>1, <1>2, <1>4
  <2>3. s2[M] = c /\ t2[M] = y
    BY <1>1, <1>4
  <2> QED  BY <2>1, <2>2, <2>3
<1>6. s2[0] = base
  BY <1>5 DEF Path
<1>7. ASSUME NEW k \in 0..M
      PROVE  s2[k] \in Seq(PC) /\ Len(s2[k]) <= MaxDepth /\ t2[k] \in RASSlot
  <2>1. CASE k \in 0..N
    BY <2>1, <1>0, <1>5 DEF Path
  <2>2. CASE k \in N..(M - 1)
    BY <2>2, <1>3, <1>5
  <2>3. CASE k = M
    BY <2>3, <1>3, <1>5
  <2> QED  BY <2>1, <2>2, <2>3, <1>1
<1>8. ASSUME NEW k \in 1..M
      PROVE  s2[k] = CallStack(s2[k - 1], v[k]) /\ t2[k] = Moved(t2[k - 1], v[k])
  <2>1. CASE k \in 1..N
    <3>1. k \in 0..N /\ k - 1 \in 0..N /\ v[k] = w[k]
      BY <1>0, <2>1
    <3>2. s[k] = CallStack(s[k - 1], w[k]) /\ t[k] = Moved(t[k - 1], w[k])
      BY <1>0, <2>1 DEF Path
    <3> QED  BY <3>1, <3>2, <1>5
  <2>2. CASE k \in (N + 1)..(M - 1)
    <3>1. k \in N..(M - 1) /\ k - 1 \in N..(M - 1) /\ k \in (N + 1)..(N + n) /\ k # N + n
      BY <2>2, <1>1
    <3>2. ~Turns(v[k])
      BY <1>0, <3>1
    <3>3. CallStack(a, v[k]) = a /\ Moved(x, v[k]) = x
      BY <3>2, <1>3, CallStackCases DEF Moved, Turns
    <3> QED  BY <3>1, <3>3, <1>5
  <2>3. CASE k = M
    <3>1. M - 1 \in N..(M - 1)
      BY <1>1
    <3>2. s2[M - 1] = a /\ t2[M - 1] = x
      BY <3>1, <1>5
    <3> QED  BY <2>3, <3>2, <1>2, <1>5
  <2> QED  BY <2>1, <2>2, <2>3, <1>1
<1>9. Path(s2, t2, base, v)
  BY <1>0, <1>1, <1>6, <1>7, <1>8 DEF Path
<1> QED  BY <1>1, <1>2, <1>5, <1>9 DEF Extends

-----------------------------------------------------------------------------
(* The window grows by n instructions, and u updates the stack.            *)
Fetches(N, n, u) ==
  /\ Len(window') = N + n /\ \A k \in 1..N : window'[k] = window[k]
  /\ \A k \in (N + 1)..(N + n) : Turns(window'[k]) => k = N + n
  /\ window'[N + n].pc \in PC
  /\ u.push_ras <=> IsCall(window'[N + n])
  /\ u.pop_ras <=> IsReturn(window'[N + n])
  /\ u.push_ras_pc = Inc(window'[N + n].pc)
  /\ u.push_ras => Len(SpecStack) < MaxDepth
  /\ RBP' = RASSpecUpdate(RASSaveContext(RBP), u)
  /\ BundleStart' = N

LEMMA FetchEffect ==
  ASSUME Inv, Fetch1
  PROVE  \E n, u : n \in Nat \ {0} /\ Fetches(Len(window), n, u)
<1>0. TypeOK /\ StageInv
  BY DEF Inv
<1>1. PICK tc \in TraceHits :
         \E bundle \in Bundles(tc, pc, RASPredict(RBP)) :
           /\ Update(bundle).push_ras => Len(SpecStack) < MaxDepth
           /\ window' = window \o [p \in 1..Len(bundle) |-> Payload(bundle[p])]
           /\ FETCH2' = [p \in Bundle |-> p < Len(bundle) \/ FETCH2[p]]
           /\ RBP' = RASSpecUpdate(RASSaveContext(RBP), Update(bundle))
  BY DEF Fetch1
<1>2. PICK bundle \in Bundles(tc, pc, RASPredict(RBP)) :
           /\ Update(bundle).push_ras => Len(SpecStack) < MaxDepth
           /\ window' = window \o [p \in 1..Len(bundle) |-> Payload(bundle[p])]
           /\ FETCH2' = [p \in Bundle |-> p < Len(bundle) \/ FETCH2[p]]
           /\ RBP' = RASSpecUpdate(RASSaveContext(RBP), Update(bundle))
  BY <1>1
<1>3. ~fetch2.valid /\ fetch_active
  BY DEF Fetch1
<1> DEFINE N == Len(window)
           n == Len(bundle)
<1>4. N \in Nat /\ instr_per_cycle \in Nat /\ \A p \in Bundle : ~FETCH2[p]
  <2>1. N \in Nat /\ instr_per_cycle \in Nat
    BY <1>0, StageFacts
  <2>2. InFetch2 = 0 /\ \A p \in Bundle : ~FETCH2[p]
    BY <1>0, <1>3 DEF StageInv
  <2> QED  BY <2>1, <2>2
<1>5. pc \in PC /\ RASPredict(RBP) \in PC /\ tc \in BOOLEAN
  <2>1. RBP.ras[RBP.tos] \in PC
    BY <1>0 DEF TypeOK, Stacks
  <2> QED  BY <2>1, <1>0, <1>2, FetchUnitAssumption DEF TypeOK, RASPredict
<1>6. BundleOK(bundle, tc) /\ n \in 1..instr_per_cycle
  BY <1>2, <1>5, BundlesOK
<1>7. /\ n \in Nat \ {0} /\ n \in 1..n
      /\ \A k \in 1..n : /\ bundle[k] \in Slots /\ SlotOK(bundle[k], tc)
                         /\ bundle[k].pc \in PC
                         /\ Turns(bundle[k].id) => k = n
  <2>1. bundle \in Seq(Slots)
    BY <1>6 DEF BundleOK
  <2>2. \A k \in 1..n : bundle[k] \in Slots
    BY <2>1
  <2>3. \A s \in Slots : s.pc \in PC
    BY DEF Slots
  <2>4. n \in Nat \ {0} /\ n \in 1..n
    BY <1>6, <1>4
  <2> QED  BY <2>2, <2>3, <2>4, <1>6 DEF BundleOK
<1> HIDE DEF N, n
<1>8. /\ Len(window') = N + n /\ \A k \in 1..N : window'[k] = window[k]
      /\ \A k \in 1..n : PayloadOf(window'[N + k], bundle[k], tc, pc, CBP.bhr)
  <2> DEFINE v == [p \in 1..n |-> Payload(bundle[p])]
  <2>1. \A k \in 1..n : PayloadOf(Payload(bundle[k]), bundle[k], tc, pc, CBP.bhr)
    BY <1>0, <1>5, <1>7, PayloadEffect
  <2>2. \A k \in 1..n : Payload(bundle[k]) \in Insts
    BY <2>1 DEF PayloadOf
  <2>3. v \in Seq(Insts) /\ Len(v) = n /\ \A k \in 1..n : v[k] = Payload(bundle[k])
    <3>1. v \in [1..n -> Insts]
      BY <2>2
    <3> QED  BY <3>1, <1>7
  <2>4. window' = window \o v /\ window \in Seq(Insts)
    BY <1>0, <1>2 DEF n, TypeOK
  <2> HIDE DEF v
  <2>5. /\ Len(window') = N + n /\ \A k \in 1..N : window'[k] = window[k]
        /\ \A k \in 1..n : window'[N + k] = v[k]
    BY <2>3, <2>4, AppendEffect DEF N
  <2> QED  BY <2>1, <2>3, <2>5
<1>9. InFetch2' = n
  <2>1. n \in 0..instr_per_cycle
    BY <1>6, <1>4 DEF n
  <2>2. \A p \in Bundle : FETCH2'[p] <=> p < n
    BY <1>2, <1>4 DEF n
  <2>3. \A q \in 0..(n - 1) : FETCH2'[q]
    BY <2>1, <2>2, <1>4 DEF Bundle
  <2>4. n < instr_per_cycle => ~FETCH2'[n]
    BY <2>1, <2>2, <1>4, <1>7 DEF Bundle
  <2> QED  BY <2>1, <2>3, <2>4, ValidIs, InFetch2Valid
<1>10. BundleStart' = N
  BY <1>4, <1>7, <1>8, <1>9 DEF BundleStart
<1>11. ASSUME NEW k \in 1..n
       PROVE  /\ window'[N + k].pc = bundle[k].pc
              /\ IsCall(window'[N + k]) <=> IsCall(bundle[k].id)
              /\ IsReturn(window'[N + k]) <=> IsReturn(bundle[k].id)
              /\ Turns(window'[N + k]) => k = n
  <2>1. PICK i : i = window'[N + k] /\ PayloadOf(i, bundle[k], tc, pc, CBP.bhr)
    BY <1>8
  <2>2. i.pc = bundle[k].pc /\ i.branch = bundle[k].id.branch /\ i.type = bundle[k].id.type
    BY <2>1 DEF PayloadOf
  <2>3. /\ IsCall(i) <=> IsCall(bundle[k].id)
        /\ IsReturn(i) <=> IsReturn(bundle[k].id)
    BY <2>2 DEF IsCall, IsReturn
  <2>4. Turns(i) => k = n
    BY <2>3, <1>7 DEF Turns
  <2> QED  BY <2>1, <2>2, <2>3, <2>4
<1>12. \A k \in (N + 1)..(N + n) : Turns(window'[k]) => k = N + n
  <2> SUFFICES ASSUME NEW k \in (N + 1)..(N + n), Turns(window'[k])
               PROVE  k = N + n
    OBVIOUS
  <2>1. PICK j \in 1..n : k = N + j
    <3>1. k - N \in 1..n /\ k = N + (k - N)
      BY <1>4, <1>7
    <3> QED  BY <3>1
  <2> QED  BY <2>1, <1>11
<1>13. /\ Update(bundle).push_ras <=> IsCall(window'[N + n])
       /\ Update(bundle).pop_ras <=> IsReturn(window'[N + n])
       /\ Update(bundle).push_ras_pc = Inc(window'[N + n].pc)
  <2>1. Last(bundle) = bundle[n]
    BY DEF Last, n
  <2>2. /\ Update(bundle).push_ras <=> IsCall(bundle[n].id)
        /\ Update(bundle).pop_ras <=> IsReturn(bundle[n].id)
        /\ Update(bundle).push_ras_pc = Inc(bundle[n].pc)
    BY <2>1 DEF Update, IsCall, IsReturn
  <2> QED  BY <2>2, <1>7, <1>11
<1>14. window'[N + n].pc \in PC
  BY <1>7, <1>11
<1>15. PICK u : u = Update(bundle)
  OBVIOUS
<1>16. Fetches(N, n, u)
  BY <1>2, <1>8, <1>10, <1>12, <1>13, <1>14, <1>15 DEF Fetches
<1> QED  BY <1>7, <1>16 DEF N

LEMMA StackFetch1 ==
  ASSUME Inv, StackInv, Fetch1
  PROVE  StackInv'
<1>0. TypeOK /\ window \in Seq(Insts) /\ RBP \in Stacks
  BY DEF Inv, TypeOK
<1>1. PICK s, t : StackOK(s, t)
  BY DEF StackInv
<1>2. PICK N \in Nat : N = Len(window) /\ N \in 0..Len(window)
  <2>1. Len(window) \in Nat /\ Len(window) \in 0..Len(window)
    BY <1>0
  <2> QED  BY <2>1
<1>3. PICK n, u : n \in Nat \ {0} /\ Fetches(N, n, u)
  BY <1>2, FetchEffect
<1>4. fetch_active /\ base_stack' = base_stack
  BY DEF Fetch1
<1>5. /\ Path(s, t, base_stack, window) /\ StackLogged(RBP, window, BundleStart, s, t)
      /\ HoldsAt(RBP.ras, t[N], s[N]) /\ RBP.tos = t[N]
  BY <1>1, <1>2, <1>4, StackParts
<1>6. BundleStart = N
  <2>1. ~fetch2.valid /\ StageInv
    BY DEF Fetch1, Inv
  <2>2. InFetch2 = 0
    BY <2>1 DEF StageInv
  <2> QED  BY <2>2, <1>2 DEF BundleStart
<1>7. PICK i : i = window'[N + n]
  OBVIOUS
<1>8. /\ i.pc \in PC /\ u.push_ras_pc = Inc(i.pc)
      /\ u.push_ras <=> IsCall(i)
      /\ u.pop_ras <=> IsReturn(i)
      /\ RBP' = RASSpecUpdate(RASSaveContext(RBP), u) /\ BundleStart' = N
      /\ Len(window') = N + n /\ \A k \in 1..N : window'[k] = window[k]
      /\ \A k \in (N + 1)..(N + n) : Turns(window'[k]) => k = N + n
  BY <1>3, <1>7 DEF Fetches
<1>9. IsCall(i) => Len(s[N]) < MaxDepth
  <2>1. SpecStack = s[N]
    BY <1>0, <1>2, <1>5, SpecStackIs
  <2> QED  BY <2>1, <1>3, <1>8 DEF Fetches
<1>10. s[N] \in Seq(PC) /\ Len(s[N]) <= MaxDepth /\ t[N] \in RASSlot
  BY <1>2, <1>5 DEF Path
<1>11. PICK q, st, x : q = RBP' /\ st = s[N] /\ x = t[N]
  OBVIOUS
<1>12. /\ Context(q, st, x) /\ q.log = RBP.log /\ q.tos = Moved(x, i)
       /\ HoldsAt(q.ras, x, st) /\ HoldsAt(q.ras, Moved(x, i), CallStack(st, i))
  <2>1. /\ x \in RASSlot /\ RBP.tos = x /\ st \in Seq(PC) /\ Len(st) <= MaxDepth
        /\ HoldsAt(RBP.ras, x, st) /\ (IsCall(i) => Len(st) < MaxDepth)
    BY <1>5, <1>9, <1>10, <1>11
  <2> QED  BY <2>1, <1>0, <1>8, <1>11, SpecTurn
<1>13. PICK s2, t2 : /\ Path(s2, t2, base_stack, window')
                     /\ \A k \in 0..N : s2[k] = s[k] /\ t2[k] = t[k]
                     /\ s2[N + n] = CallStack(st, i) /\ t2[N + n] = Moved(x, i)
  <2>1. Grows(s, window, window', N, n)
    BY <1>2, <1>7, <1>8, <1>9 DEF Grows
  <2>2. PICK s2, t2 : Extends(s2, t2, s, t, base_stack, window', N, n)
    BY <2>1, <1>3, <1>5, PathGrow
  <2> QED  BY <2>2, <1>7, <1>11 DEF Extends
<1>14. StackLogged(q, window', N, s2, t2)
  <2>1. StackLogged(RBP, window, N, s2, t2)
    BY <1>2, <1>5, <1>6, <1>13, LogSwap
  <2>2. N <= N /\ \A k \in 1..N : SameTurn(window'[k], window[k])
    BY <1>8, SameTurns
  <2> QED  BY <2>1, <2>2, <1>12, LogCut
<1>15. s2[N] = st /\ t2[N] = x
  <2>1. N \in 0..N
    OBVIOUS
  <2> QED  BY <2>1, <1>11, <1>13
<1>16. StackAt(q, window', N, fetch2'.valid, fetch_active', base_stack, s2, t2)
  BY <1>8, <1>12, <1>13, <1>14, <1>15 DEF StackAt
<1>17. StackOK(s2, t2)'
  BY <1>4, <1>8, <1>11, <1>16 DEF StackOK
<1> QED  BY <1>17 DEF StackInv

-----------------------------------------------------------------------------
(* The head retires: the path starts behind it.                            *)
LEMMA StackRetire ==
  ASSUME Inv, StackInv, Retire
  PROVE  StackInv'
<1>0. TypeOK /\ StageInv /\ window \in Seq(Insts)
  BY DEF Inv, TypeOK
<1>1. PICK s, t : StackOK(s, t)
  BY DEF StackInv
<1>2. PICK N, b : N = Len(window) /\ b = BundleStart
  OBVIOUS
<1>3. /\ Path(s, t, base_stack, window) /\ StackLogged(RBP, window, b, s, t)
      /\ HoldsAt(RBP.ras, t[b], s[b]) /\ HoldsAt(RBP.ras, t[N], s[N])
      /\ fetch2.valid => Context(RBP, s[b], t[b])
      /\ fetch_active => RBP.tos = t[N]
      /\ \A k \in (b + 1)..N : Turns(window[k]) => k = N
  BY <1>1, <1>2, StackParts
<1>4. /\ Completed /\ window' = Tail(window) /\ fetch_active' = fetch_active
      /\ fetch2' = fetch2 /\ FETCH2' = FETCH2 /\ RBP' = RBP
      /\ base_stack' = IF window[1].branch THEN CallStack(base_stack, window[1])
                       ELSE base_stack
  BY DEF Retire
<1>5. PICK n, m \in Nat : /\ n + 1 = b /\ m + 1 = N /\ n <= m
                          /\ m - n = InFetch2 /\ InFetch2 \in Nat
  <2>1. /\ N \in Nat /\ b \in Nat /\ InFetch2 \in Nat /\ decode \in Nat
        /\ b + InFetch2 = N
    BY <1>0, <1>2, StageFacts
  <2>2. BackEnd = b - decode
    BY <1>2 DEF BackEnd, BundleStart
  <2>3. BackEnd >= 1
    BY <1>4 DEF Completed
  <2>4. /\ b - 1 \in Nat /\ N - 1 \in Nat /\ (b - 1) + 1 = b /\ (N - 1) + 1 = N
        /\ b - 1 <= N - 1 /\ (N - 1) - (b - 1) = InFetch2
    BY <2>1, <2>2, <2>3
  <2> QED  BY <2>1, <2>4
<1>6. Len(window') = m /\ \A k \in 1..m : window'[k] = window[k + 1]
  <2>1. window # <<>>
    BY <1>2, <1>5
  <2>2. Len(window') = N - 1 /\ \A k \in 1..(N - 1) : window'[k] = window[k + 1]
    BY <2>1, <1>0, <1>2, <1>4, TailEffect
  <2>3. N - 1 = m
    BY <1>5
  <2> QED  BY <2>2, <2>3
<1>7. BundleStart' = n
  <2>1. InFetch2' = InFetch2
    BY <1>4 DEF InFetch2
  <2>2. m - (m - n) = n
    BY <1>5
  <2> QED  BY <2>1, <2>2, <1>5, <1>6 DEF BundleStart
<1>8. PICK s2, t2 : s2 = [k \in 0..m |-> s[k + 1]] /\ t2 = [k \in 0..m |-> t[k + 1]]
  OBVIOUS
<1>9. \A k \in 0..m : s2[k] = s[k + 1] /\ t2[k] = t[k + 1]
  BY <1>8
<1>10. s2[0] = base_stack'
  <2>1. 0 + 1 = 1 /\ 0 \in 0..m /\ 1 \in 1..N /\ 1 - 1 = 0 /\ 0 \in 0..N
    BY <1>5
  <2>2. s[1] = CallStack(s[0], window[1]) /\ s[0] = base_stack /\ s[0] \in Seq(PC)
    BY <2>1, <1>2, <1>3 DEF Path
  <2>3. s2[0] = s[1]
    BY <2>1, <1>9
  <2>4. ~window[1].branch => CallStack(s[0], window[1]) = s[0]
    BY DEF CallStack
  <2> QED  BY <2>2, <2>3, <2>4, <1>4
<1>11. Path(s2, t2, base_stack', window')
  <2>1. ASSUME NEW k \in 0..m
        PROVE  s2[k] \in Seq(PC) /\ Len(s2[k]) <= MaxDepth /\ t2[k] \in RASSlot
    <3>1. k + 1 \in 0..N
      BY <1>5
    <3>2. s[k + 1] \in Seq(PC) /\ Len(s[k + 1]) <= MaxDepth /\ t[k + 1] \in RASSlot
      BY <3>1, <1>2, <1>3 DEF Path
    <3> QED  BY <3>2, <1>9
  <2>2. ASSUME NEW k \in 1..m
        PROVE  /\ s2[k] = CallStack(s2[k - 1], window'[k])
               /\ t2[k] = Moved(t2[k - 1], window'[k])
    <3>1. /\ k + 1 \in 1..N /\ (k + 1) - 1 = k /\ (k - 1) + 1 = k
          /\ k \in 0..m /\ k - 1 \in 0..m
      BY <1>5
    <3>2. /\ s[k + 1] = CallStack(s[k], window[k + 1])
          /\ t[k + 1] = Moved(t[k], window[k + 1])
      BY <3>1, <1>2, <1>3 DEF Path
    <3>3. s2[k - 1] = s[k] /\ t2[k - 1] = t[k] /\ s2[k] = s[k + 1] /\ t2[k] = t[k + 1]
      BY <3>1, <1>9
    <3> QED  BY <3>2, <3>3, <1>6
  <2> QED  BY <2>1, <2>2, <1>6, <1>10 DEF Path
<1>12. StackLogged(RBP, window', n, s2, t2)
  <2> SUFFICES ASSUME NEW k \in Branches(window', n)
               PROVE  LET e == RBP.log[window'[k].pred_tag]
                      IN  /\ e.tos_pointer = t2[k - 1]
                          /\ s2[k - 1] # <<>> => e.tos_content = Last(s2[k - 1])
                          /\ e.iscall <=> IsCall(window'[k])
                          /\ e.isreturn <=> IsReturn(window'[k])
    BY DEF StackLogged
  <2>1. k \in 1..n /\ window'[k].branch
    BY DEF Branches
  <2>2. /\ k \in 1..m /\ k + 1 \in 1..b /\ (k + 1) - 1 = k /\ (k - 1) + 1 = k
        /\ k - 1 \in 0..m
    BY <2>1, <1>5
  <2>3. window'[k] = window[k + 1] /\ s2[k - 1] = s[k] /\ t2[k - 1] = t[k]
    BY <2>2, <1>6, <1>9
  <2>4. k + 1 \in Branches(window, b)
    BY <2>1, <2>2, <2>3 DEF Branches
  <2>5. LET e == RBP.log[window[k + 1].pred_tag]
        IN  /\ e.tos_pointer = t[(k + 1) - 1]
            /\ s[(k + 1) - 1] # <<>> => e.tos_content = Last(s[(k + 1) - 1])
            /\ e.iscall <=> IsCall(window[k + 1])
            /\ e.isreturn <=> IsReturn(window[k + 1])
    BY <2>4, <1>3 DEF StackLogged
  <2> QED  BY <2>2, <2>3, <2>5
<1>13. s2[n] = s[b] /\ t2[n] = t[b] /\ s2[m] = s[N] /\ t2[m] = t[N]
  <2>1. n \in 0..m /\ m \in 0..m
    BY <1>5
  <2> QED  BY <2>1, <1>5, <1>9
<1>14. \A k \in (n + 1)..m : Turns(window'[k]) => k = m
  <2> SUFFICES ASSUME NEW k \in (n + 1)..m, Turns(window'[k])
               PROVE  k = m
    OBVIOUS
  <2>1. k + 1 \in (b + 1)..N /\ k \in 1..m
    BY <1>5
  <2>2. Turns(window[k + 1])
    BY <2>1, <1>6
  <2>3. k + 1 = N
    BY <2>1, <2>2, <1>3
  <2> QED  BY <2>3, <1>5
<1>15. StackAt(RBP, window', n, fetch2.valid, fetch_active, base_stack', s2, t2)
  BY <1>3, <1>6, <1>11, <1>12, <1>13, <1>14 DEF StackAt
<1>16. StackOK(s2, t2)'
  BY <1>4, <1>7, <1>15 DEF StackOK
<1> QED  BY <1>16 DEF StackInv

(* An empty window, and the stack that the predictors go on from.          *)
LEMMA StackFresh ==
  ASSUME window' = <<>>, ~fetch2'.valid, BundleStart' = 0,
         base_stack' \in Seq(PC), Len(base_stack') <= MaxDepth, RBP'.tos \in RASSlot,
         HoldsAt(RBP'.ras, RBP'.tos, base_stack')
  PROVE  StackInv'
<1>1. PICK s, t : s = [k \in {0} |-> base_stack'] /\ t = [k \in {0} |-> RBP'.tos]
  OBVIOUS
<1>2. s[0] = base_stack' /\ t[0] = RBP'.tos /\ Len(window') = 0
  BY <1>1
<1>3. Path(s, t, base_stack', window')
  BY <1>2 DEF Path
<1>4. StackLogged(RBP', window', 0, s, t)
  <2>1. Branches(window', 0) = {}
    BY DEF Branches
  <2> QED  BY <2>1 DEF StackLogged
<1>5. StackAt(RBP', window', 0, fetch2'.valid, fetch_active', base_stack', s, t)
  BY <1>2, <1>3, <1>4 DEF StackAt
<1>6. StackOK(s, t)'
  BY <1>5 DEF StackOK
<1> QED  BY <1>6 DEF StackInv

(* The log at the head is that of the oldest branch, whose stack is that   *)
(* of the oldest instruction.                                              *)
LEMMA HeadStack ==
  ASSUME Walks, Inv, StackInv, ~empty(bq)
  PROVE  /\ RASFlush(RBP, bq.head).tos \in RASSlot
         /\ HoldsAt(RASFlush(RBP, bq.head).ras, RASFlush(RBP, bq.head).tos, base_stack)
<1>1. PICK s, t : StackOK(s, t)
  BY DEF StackInv
<1>2. /\ Path(s, t, base_stack, window) /\ Len(window) \in Nat
      /\ Recoverable(RBP, bq, window, BundleStart, s, t, base_stack)
  BY <1>1, StackParts
<1>3. PICK k \in Branches(window, BundleStart) :
        /\ window[k].pred_tag = bq.head /\ k - 1 \in Nat /\ k - 1 <= Len(window)
        /\ \A j \in 1..(k - 1) : ~window[j].branch
  BY HeadBranch DEF Inv
<1>4. PICK p \in 0..Len(window) : p = k - 1
  BY <1>2, <1>3
<1>5. s[p] = s[0] /\ s[0] = base_stack /\ t[p] \in RASSlot
  <2>1. 0 \in 0..Len(window) /\ p \in 0..Len(window) /\ \A j \in (0 + 1)..p : j \in 1..(k - 1)
    BY <1>2, <1>4
  <2>2. \A j \in (0 + 1)..p : ~Turns(window[j])
    BY <2>1, <1>3 DEF Turns, IsCall, IsReturn
  <2>3. s[p] = s[0]
    BY <2>1, <2>2, <1>2, NoTurn
  <2> QED  BY <2>3, <1>2 DEF Path
<1>6. /\ RASFlush(RBP, bq.head).tos = t[p]
      /\ HoldsAt(RASFlush(RBP, bq.head).ras, t[p], s[p])
  BY <1>2, <1>3, <1>4, FlushRecovers
<1> QED  BY <1>5, <1>6

LEMMA StackFlush ==
  ASSUME Walks, Inv, StackInv, NEW next_pc, flush(next_pc), Rebase, window' = <<>>
  PROVE  StackInv'
<1>0. TypeOK /\ RBP \in Stacks /\ RBP.tos \in RASSlot /\ base_stack \in Seq(PC)
  BY DEF Inv, TypeOK, Stacks
<1>1. PICK s, t : StackOK(s, t)
  BY DEF StackInv
<1>2. Len(base_stack) <= MaxDepth
  <2>1. Path(s, t, base_stack, window) /\ Len(window) \in Nat
    BY <1>1, StackParts
  <2>2. 0 \in 0..Len(window)
    BY <2>1
  <2> QED  BY <2>1, <2>2 DEF Path
<1>3. ~fetch2'.valid /\ BundleStart' = 0
  <2>1. squash_fetch2
    BY DEF flush
  <2>2. ~fetch2'.valid /\ InFetch2' = 0
    BY <2>1, <1>0, SquashDrains
  <2>3. Len(window') = 0
    OBVIOUS
  <2> QED  BY <2>2, <2>3 DEF BundleStart
<1>4. CASE ~empty(bq)
  <2>1. RBP' = RASFlush(RBP, bq.head) /\ base_stack' = base_stack
    BY <1>4 DEF flush, Rebase
  <2>2. RBP'.tos \in RASSlot /\ HoldsAt(RBP'.ras, RBP'.tos, base_stack')
    BY <2>1, <1>4, HeadStack
  <2> QED  BY <2>1, <2>2, <1>0, <1>2, <1>3, StackFresh
<1>5. CASE empty(bq)
  <2>1. /\ RBP' = RBP
        /\ base_stack' = IF Holds(RBP, base_stack) THEN base_stack ELSE <<>>
    BY <1>5 DEF flush, Rebase
  <2>2. CASE Holds(RBP, base_stack)
    <3>1. HoldsAt(RBP.ras, RBP.tos, base_stack)
      BY <2>2, <1>0, <1>2, HoldsSame
    <3> QED  BY <3>1, <2>1, <2>2, <1>0, <1>2, <1>3, StackFresh
  <2>3. CASE ~Holds(RBP, base_stack)
    <3>1. base_stack' = <<>> /\ <<>> \in Seq(PC) /\ Len(<<>>) = 0 /\ 0 <= MaxDepth
      BY <2>1, <2>3, DepthBound
    <3>2. HoldsAt(RBP'.ras, RBP'.tos, base_stack')
      BY <3>1 DEF HoldsAt
    <3> QED  BY <3>1, <3>2, <2>1, <1>0, <1>3, StackFresh
  <2> QED  BY <2>2, <2>3
<1> QED  BY <1>4, <1>5

LEMMA StackRetireSerialize ==
  ASSUME Walks, Inv, StackInv, RetireSerialize
  PROVE  StackInv'
<1>1. flush(Inc(window[1].pc)) /\ Rebase
  BY DEF RetireSerialize
<1>2. window' = <<>>
  BY DrainedBySerializer DEF Inv
<1> QED  BY <1>1, <1>2, StackFlush

LEMMA StackRetireSquash ==
  ASSUME Walks, Inv, StackInv, RetireSquash
  PROVE  StackInv'
<1>1. window' = <<>> /\ Rebase /\ \E next_pc : flush(next_pc)
  BY DEF RetireSquash
<1> QED  BY <1>1, StackFlush

LEMMA StackInit ==
  ASSUME Init
  PROVE  StackInv
<1>1. /\ window = <<>> /\ base_stack = <<>> /\ RBP = EmptyRAS
      /\ fetch2 = [valid |-> FALSE, pc |-> 0, tc_hit |-> FALSE]
      /\ FETCH2 = [p \in Bundle |-> FALSE]
  BY DEF Init
<1>2. BundleStart = 0 /\ Len(window) = 0 /\ ~fetch2.valid
  <2>1. 0 \in Bundle
    BY FetchUnitAssumption DEF Bundle
  <2>2. InFetch2 = 0
    BY <2>1, <1>1, NoneValid, InFetch2Valid
  <2> QED  BY <2>2, <1>1 DEF BundleStart
<1>3. PICK s, t : s = [k \in {0} |-> <<>>] /\ t = [k \in {0} |-> 0]
  OBVIOUS
<1>4. s[0] = <<>> /\ t[0] = 0 /\ RBP.tos = 0
  BY <1>1, <1>3 DEF EmptyRAS
<1>5. Path(s, t, base_stack, window)
  <2>1. <<>> \in Seq(PC) /\ Len(<<>>) = 0 /\ 0 <= MaxDepth /\ 0 \in RASSlot
    BY DepthBound, StackTypes
  <2>2. /\ \A k \in 0..Len(window) : k = 0 /\ s[k] = <<>> /\ t[k] = 0
        /\ 1..Len(window) = {} /\ base_stack = <<>>
    BY <1>1, <1>2, <1>4
  <2> QED  BY <2>1, <2>2, <1>4 DEF Path
<1>6. StackLogged(RBP, window, 0, s, t)
  <2>1. Branches(window, 0) = {}
    BY DEF Branches
  <2> QED  BY <2>1 DEF StackLogged
<1>7. HoldsAt(RBP.ras, t[0], s[0])
  BY <1>4 DEF HoldsAt
<1>8. StackAt(RBP, window, 0, fetch2.valid, fetch_active, base_stack, s, t)
  BY <1>2, <1>4, <1>5, <1>6, <1>7 DEF StackAt
<1> QED  BY <1>2, <1>8 DEF StackOK, StackInv

(* With a stack of two slots or more that is recovered by a walk of its    *)
(* log, and no more calls open than it has slots, the return address stack *)
(* holds the open calls in every state in which the fetch unit predicts,   *)
(* whatever was mispredicted, misfetched, flushed or retired.  With one    *)
(* slot, which ras.cc:9 allows, a call undone and redone (ras.cc:114) has  *)
(* lost its address: the walk restored the content of the very same slot.  *)
THEOREM StackIsExact ==
  ASSUME Walks
  PROVE  Spec => []StackExact
<1>1. Inv /\ StackInv => StackExact
  <2> SUFFICES ASSUME Inv, StackInv, fetch_active
               PROVE  Holds(RBP, SpecStack)
    BY DEF StackExact
  <2>1. PICK s, t : StackOK(s, t)
    BY DEF StackInv
  <2>2. PICK N : N = Len(window)
    OBVIOUS
  <2>3. /\ Path(s, t, base_stack, window) /\ HoldsAt(RBP.ras, t[N], s[N])
        /\ RBP.tos = t[N] /\ N \in Nat
    BY <2>1, <2>2, StackParts
  <2>4. window \in Seq(Insts)
    BY DEF Inv, TypeOK
  <2>5. s[N] \in Seq(PC) /\ Len(s[N]) <= MaxDepth /\ t[N] \in RASSlot
    BY <2>2, <2>3 DEF Path
  <2>6. SpecStack = s[N]
    BY <2>2, <2>3, <2>4, SpecStackIs
  <2> QED  BY <2>3, <2>5, <2>6, HoldsSame
<1>2. Init => StackInv
  BY StackInit
<1>3. Inv /\ StackInv /\ [Next]_vars => StackInv'
  <2> SUFFICES ASSUME Inv, StackInv, [Next]_vars
               PROVE  StackInv'
    OBVIOUS
  <2>1. CASE Fetch1
    BY <2>1, StackFetch1
  <2>2. CASE Fetch2Misfetch
    BY <2>2, StackMisfetch
  <2>3. CASE Fetch2Stall
    BY <2>3, StackStall
  <2>4. CASE Fetch2Advance
    BY <2>4, StackAdvance
  <2>5. CASE Decode
    BY <2>5, StackDecode
  <2>6. CASE \E k \in 1..Len(window) : ResolveCorrect(k) \/ Mispredict(k)
    BY <2>6, StackResolve, StackMispredict
  <2>7. CASE Retire
    BY <2>7, StackRetire
  <2>8. CASE RetireSerialize
    BY <2>8, StackRetireSerialize
  <2>9. CASE RetireSquash
    BY <2>9, StackRetireSquash
  <2>10. CASE UNCHANGED vars
    BY <2>10, StackStutter
  <2> QED
    BY <2>1, <2>2, <2>3, <2>4, <2>5, <2>6, <2>7, <2>8, <2>9, <2>10 DEF Next
<1> QED  BY <1>1, <1>2, <1>3, FetchInvariant, PTL DEF Spec

=============================================================================
