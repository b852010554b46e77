------------------------------ MODULE InOrder ------------------------------
(***************************************************************************)
(* The in-order stages: instructions move, as PAY indices, from FETCH2 to  *)
(* DECODE, the fetch queue FQ, RENAME2, DISPATCH and the reorder buffer,   *)
(* where they complete out of order, and retire under the eyes of the      *)
(* checker (uarchsim/decode.cc, fetch_queue.cc, rename.cc, dispatch.cc,    *)
(* retire.cc, squash.cc, checker.cc).                                      *)
(*                                                                         *)
(* The fetch unit is reduced to what it asks of PAY: FetchUnit models it.  *)
(* What the back end computes is right on the right path, as Renamer, SVP, *)
(* Backend and LSU show, and anything on a wrong one.                      *)
(***************************************************************************)
EXTENDS PayloadBuffer, Decode, SequencesExt, FiniteSets

CONSTANTS
  fetch_width, dispatch_width, fq_size, rob_size,
  Program,   \* pc -> [insn, target, fault]
  Handler    \* the trap handler's pc

PC     == DOMAIN Program
Inc(p) == (p + 1) % Cardinality(PC)

ASSUME InOrderAssumption ==
  /\ {fetch_width, dispatch_width, fq_size, rob_size} \subseteq Nat \ {0}
  /\ total_inflight_instr = 2 * fetch_width + fq_size + 2 * dispatch_width + rob_size
  /\ \A p \in PC : /\ Program[p].insn \in Encodings /\ Program[p].target \in PC
                   /\ Program[p].fault => Program[p].insn.f5 = "NOP"
  /\ SPLIT_STORES

VARIABLES
  pc, fetch_active,
  fetch2,      \* fetch2_status: [valid, pc, pay_checkpoint, misfetch]
  FETCH2, DECODE, FQ, RENAME2, DISPATCH, ROB,   \* sequences of PAY indices
  PAY, DB,
  isa,         \* the functional simulator: [pc, serialized]
  serialized   \* the pipeline's processor_t::serialized

vars == <<pc, fetch_active, fetch2, FETCH2, DECODE, FQ, RENAME2, DISPATCH, ROB,
          PAY, DB, isa, serialized>>

NoInst == [pc |-> 0, db_index |-> NoIndex, split |-> FALSE, done |-> FALSE,
           next_pc |-> 0, older |-> FALSE]

(* What Decode finds in each instruction; a fetch exception is a NOP with  *)
(* a trap.                                                                 *)
Row(i, fault) ==
  [flags |-> flags(i), checkpoint |-> checkpoint(i), split |-> split(i), iq |-> iq(i),
   eligible |-> eligible(i), trap |-> fault \/ trap(i), fault |-> fault,
   serializing |-> Serializing(i)]
Decoded == [p \in PC |-> Row(Program[p].insn, Program[p].fault)]
Insn(i) == Decoded[PAY.buf[i].pc]

-----------------------------------------------------------------------------
(* The functional simulator (riscv-base/processor.cc).  A store may fault. *)
(* A csr instruction that needs a serialized state is executed twice: the  *)
(* first time it throws serialize_t and refetches itself.  It traps where  *)
(* the decode table does.                                                  *)

Executed(s) ==
  LET did(next_pc, exception, flag) ==
        [pc |-> s.pc, next_pc |-> next_pc, exception |-> exception, serialized |-> flag]
      exception == did(Handler, TRUE, s.serialized)
      step == did(Inc(s.pc), FALSE, s.serialized)
      i    == Program[s.pc].insn
  IN  CASE Decoded[s.pc].trap -> {exception}
        [] i.op = "STORE"  -> {step, exception}
        [] i.op = "BRANCH" -> {step, did(Program[s.pc].target, FALSE, s.serialized)}
        [] i.op = "SYSTEM" /\ ~Decoded[s.pc].trap ->
             {IF s.serialized THEN did(Inc(s.pc), FALSE, FALSE)
                              ELSE did(s.pc, FALSE, TRUE)}
        [] OTHER -> {step}

After(e) == [pc |-> e.next_pc, serialized |-> e.serialized]

(* The executions of the next n instructions.                              *)
RunAhead(s, n) ==
  FoldLeft(LAMBDA runs, k :
             UNION {{Append(run, e) :
                       e \in Executed(IF run = <<>> THEN s ELSE After(Last(run)))} :
                    run \in runs},
           {<<>>}, [k \in 1..n |-> k])

Init ==
  /\ pc = 0 /\ fetch_active = TRUE
  /\ fetch2 = [valid |-> FALSE, pc |-> 0, pay_checkpoint |-> 0, misfetch |-> FALSE]
  /\ FETCH2 = <<>> /\ DECODE = <<>> /\ FQ = <<>> /\ RENAME2 = <<>>
  /\ DISPATCH = <<>> /\ ROB = <<>>
  /\ PAY = EmptyPAY(NoInst) /\ serialized = FALSE
  /\ \E run \in RunAhead([pc |-> 0, serialized |-> FALSE], DEBUG_SIZE) :
       /\ DB = [head |-> 0, tail |-> DEBUG_SIZE - 1, length |-> DEBUG_SIZE,
                db |-> [i \in 0..(DEBUG_SIZE - 1) |-> run[i + 1]]]
       /\ isa = After(Last(run))

-----------------------------------------------------------------------------
(* Fetch.                                                                  *)

Predicted(p, misfetch) ==
  IF misfetch THEN PC
  ELSE IF Program[p].insn.op = "BRANCH" THEN {Inc(p), Program[p].target} ELSE {Inc(p)}

(* The bundles the fetch unit may assemble: <<pc, next_pc>> pairs.         *)
Bundles(misfetch) ==
  LET ends(b) == Last(b)[2] # Inc(Last(b)[1]) \/ Program[Last(b)[1]].fault
      grow(b) == IF b # <<>> /\ ends(b) THEN {b}
                 ELSE LET p == IF b = <<>> THEN pc ELSE Last(b)[2]
                      IN  {Append(b, <<p, n>>) : n \in Predicted(p, misfetch)}
  IN  FoldLeft(LAMBDA bs, k : UNION {grow(b) : b \in bs},
               {<<>>}, [k \in 1..fetch_width |-> k])

PushInst(p, inst) ==
  PAYPush(p, [NoInst EXCEPT !.pc = inst[1], !.next_pc = inst[2],
                            !.db_index = map_to_actual(p, DB, inst[1]),
                            !.older = p.length > 0])

(* Fetch1, with transfer_fetch_bundle.                                     *)
Fetch(misfetch) ==
  /\ ~fetch2.valid /\ fetch_active
  /\ \E bundle \in Bundles(misfetch) :
       /\ fetch2' = [valid |-> TRUE, pc |-> pc, pay_checkpoint |-> PAY.tail,
                     misfetch |-> misfetch]
       /\ PAY' = FoldLeft(PushInst, PAY, bundle)
       /\ FETCH2' = [k \in 1..Len(bundle) |->
                       (PAY.tail + 2 * (k - 1)) % PAYLOAD_BUFFER_SIZE]
       /\ pc' = Last(bundle)[2]
  /\ UNCHANGED <<fetch_active, DECODE, FQ, RENAME2, DISPATCH, ROB, DB, isa, serialized>>

Fetch2Misfetch ==
  /\ fetch2.valid /\ fetch2.misfetch
  /\ fetch2' = [fetch2 EXCEPT !.valid = FALSE] /\ FETCH2' = <<>>
  /\ pc' = fetch2.pc /\ fetch_active' = TRUE
  /\ PAY' = restore(PAY, fetch2.pay_checkpoint)
  /\ UNCHANGED <<DECODE, FQ, RENAME2, DISPATCH, ROB, DB, isa, serialized>>

(* Fetch2 goes idle at a serializing instruction or a fetch exception and  *)
(* cuts FETCH2 and PAY behind a serializing one.                           *)
Serializers == {k \in DOMAIN FETCH2 : Insn(FETCH2[k]).serializing}
Cut == IF Serializers = {} THEN Len(FETCH2)
       ELSE CHOOSE k \in Serializers : \A j \in Serializers : k <= j

Fetch2 ==
  /\ fetch2.valid /\ ~fetch2.misfetch
  /\ fetch_active' = (fetch_active /\ Serializers = {} /\
                        \A k \in 1..Cut : ~Insn(FETCH2[k]).fault)
  /\ PAY' = IF Serializers = {} THEN PAY ELSE PAYRollback(PAY, FETCH2[Cut])
  /\ IF DECODE = <<>>
     THEN /\ DECODE' = SubSeq(FETCH2, 1, Cut) /\ FETCH2' = <<>>
          /\ fetch2' = [fetch2 EXCEPT !.valid = FALSE]
     ELSE FETCH2' = SubSeq(FETCH2, 1, Cut) /\ UNCHANGED <<DECODE, fetch2>>
  /\ UNCHANGED <<pc, FQ, RENAME2, DISPATCH, ROB, DB, isa, serialized>>

-----------------------------------------------------------------------------
(* Decode: a store takes two places in the fetch queue and the entry of    *)
(* its second half is filled in.                                           *)
Halves(i) == IF Insn(i).split THEN <<i, i + 1>> ELSE <<i>>

enough_space(n) == fq_size - Len(FQ) >= 2 * n

WithHalves(p, i) ==
  [p EXCEPT !.buf[i].split = TRUE, !.buf[i + 1] = [p.buf[i] EXCEPT !.split = TRUE]]

Decode ==
  /\ DECODE # <<>> /\ enough_space(Len(DECODE))
  /\ FQ' = FQ \o FlattenSeq([k \in DOMAIN DECODE |-> Halves(DECODE[k])])
  /\ PAY' = FoldLeft(LAMBDA p, i : IF Insn(i).split THEN WithHalves(p, i) ELSE p,
                     PAY, DECODE)
  /\ DECODE' = <<>>
  /\ UNCHANGED <<pc, fetch_active, fetch2, FETCH2, RENAME2, DISPATCH, ROB, DB, isa,
                 serialized>>

rename1_bundle_width == IF Len(FQ) < dispatch_width THEN Len(FQ) ELSE dispatch_width

Rename1 ==
  /\ RENAME2 = <<>> /\ FQ # <<>>
  /\ fetch_active => rename1_bundle_width = dispatch_width
  /\ RENAME2' = SubSeq(FQ, 1, rename1_bundle_width)
  /\ FQ' = SubSeq(FQ, rename1_bundle_width + 1, Len(FQ))
  /\ UNCHANGED <<pc, fetch_active, fetch2, FETCH2, DECODE, DISPATCH, ROB, PAY, DB, isa,
                 serialized>>

Rename2 ==
  /\ RENAME2 # <<>> /\ DISPATCH = <<>>
  /\ DISPATCH' = RENAME2 /\ RENAME2' = <<>>
  /\ UNCHANGED <<pc, fetch_active, fetch2, FETCH2, DECODE, FQ, ROB, PAY, DB, isa,
                 serialized>>

(* What skips the issue queue is complete at once.                         *)
Dispatch ==
  /\ DISPATCH # <<>> /\ Len(ROB) + Len(DISPATCH) <= rob_size
  /\ ROB' = ROB \o DISPATCH /\ DISPATCH' = <<>>
  /\ PAY' = FoldLeft(LAMBDA p, i : [p EXCEPT !.buf[i].done = Insn(i).iq = "SEL_IQ_NONE"],
                     PAY, DISPATCH)
  /\ UNCHANGED <<pc, fetch_active, fetch2, FETCH2, DECODE, FQ, RENAME2, DB, isa,
                 serialized>>

-----------------------------------------------------------------------------
(* The back end.                                                           *)

Complete(k) ==
  /\ k \in DOMAIN ROB /\ ~PAY.buf[ROB[k]].done /\ ~Insn(ROB[k]).checkpoint
  /\ PAY' = [PAY EXCEPT !.buf[ROB[k]].done = TRUE]
  /\ UNCHANGED <<pc, fetch_active, fetch2, FETCH2, DECODE, FQ, RENAME2, DISPATCH, ROB,
                 DB, isa, serialized>>

(* Where a branch goes: what the functional simulator found, or anywhere   *)
(* on a wrong path.                                                        *)
Outcomes(i) ==
  IF PAY.buf[i].db_index # NoIndex THEN {DB.db[PAY.buf[i].db_index].next_pc}
  ELSE Predicted(PAY.buf[i].pc, FALSE)

SquashFrontEnd(next_pc) ==
  /\ pc' = next_pc /\ fetch_active' = TRUE
  /\ fetch2' = [fetch2 EXCEPT !.valid = FALSE] /\ FETCH2' = <<>>
  /\ DECODE' = <<>> /\ FQ' = <<>> /\ RENAME2' = <<>> /\ DISPATCH' = <<>>

Resolve(k) ==
  /\ k \in DOMAIN ROB /\ ~PAY.buf[ROB[k]].done /\ Insn(ROB[k]).checkpoint
  /\ \E next_pc \in Outcomes(ROB[k]) :
       LET done == [PAY EXCEPT !.buf[ROB[k]].done = TRUE]
       IN  IF next_pc = PAY.buf[ROB[k]].next_pc
           THEN /\ PAY' = done
                /\ UNCHANGED <<pc, fetch_active, fetch2, FETCH2, DECODE, FQ, RENAME2,
                               DISPATCH, ROB>>
           ELSE /\ PAY' = PAYRollback(done, ROB[k])
                /\ ROB' = SubSeq(ROB, 1, k) /\ SquashFrontEnd(next_pc)
  /\ UNCHANGED <<DB, isa, serialized>>

-----------------------------------------------------------------------------
(* Retire.  The head of the reorder buffer is the head of PAY.             *)

Head1    == PAY.buf[PAY.head]
Ready    == ROB # <<>> /\ PAY.buf[ROB[1]].done
Upper    == Head1.split /\ PAY.head % 2 = 0
Actual   == DB.db[Head1.db_index]

(* debug_buffer_t::pop lets the functional simulator refill the buffer     *)
(* before it drops the head.                                               *)
PopActual ==
  IF hungry(DB)
  THEN \E e \in Executed(isa) : DB' = DBPop(start(DB, e)) /\ isa' = After(e)
  ELSE DB' = DBPop(DB) /\ UNCHANGED isa

CheckHalves == PopActual   \* a mutant: a split store is checked twice
checker == IF Upper THEN UNCHANGED <<DB, isa>> ELSE PopActual

squash_complete(next_pc) == SquashFrontEnd(next_pc) /\ ROB' = <<>> /\ PAY' = PAYClear(PAY)

PopWhole == PAYPop(PAY, 2)   \* a mutant: no instruction is split
PopHead == PAYPop(PAY, IF Head1.split THEN 1 ELSE 2)

Has(flag) == flag \in Insn(PAY.head).flags
AtHead    == Has("F_AMO") \/ Has("F_CSR")
Faults    == Insn(PAY.head).trap \/ (Upper /\ Actual.exception)

Retire ==
  /\ Ready /\ ~Faults /\ ~AtHead
  /\ checker /\ PAY' = PopHead /\ ROB' = Tail(ROB)
  /\ UNCHANGED <<pc, fetch_active, fetch2, FETCH2, DECODE, FQ, RENAME2, DISPATCH,
                 serialized>>

(* An amo or a csr instruction resumes fetch; nothing else is squashed.    *)
RetireSerialize ==
  /\ Ready /\ ~Faults /\ AtHead
  /\ Has("F_CSR") => serialized
  /\ serialized' = (serialized /\ ~Has("F_CSR"))
  /\ checker
  /\ pc' = Inc(Head1.pc) /\ fetch_active' = TRUE
  /\ fetch2' = [fetch2 EXCEPT !.valid = FALSE] /\ FETCH2' = <<>>
  /\ PAY' = PopHead /\ ROB' = Tail(ROB)
  /\ UNCHANGED <<DECODE, FQ, RENAME2, DISPATCH>>

(* Its value was mispredicted: the head commits, what follows does not.    *)
RetireValueMisp ==
  /\ Ready /\ ~Faults /\ ~AtHead /\ Insn(PAY.head).eligible
  /\ checker /\ squash_complete(Inc(Head1.pc))
  /\ UNCHANGED serialized

ReplayAlways ==   \* a mutant: the refetched load is violated again
  /\ Ready /\ Has("F_LOAD") /\ squash_complete(Head1.pc)
  /\ UNCHANGED <<DB, isa, serialized>>

(* A load that ran ahead of an older store is refetched.                   *)
RetireLoadViolation ==
  /\ Ready /\ Has("F_LOAD") /\ Head1.older
  /\ squash_complete(Head1.pc)
  /\ UNCHANGED <<DB, isa, serialized>>

(* The checker pops even what it peeked at.  A csr instruction that throws *)
(* serialize_t is refetched, anything else traps.                          *)
RetireException ==
  /\ Ready
  /\ \/ Faults /\ squash_complete(Handler) /\ UNCHANGED serialized
     \/ ~Faults /\ Has("F_CSR") /\ ~serialized
        /\ squash_complete(Head1.pc) /\ serialized' = TRUE
  /\ PopActual

Commit == Retire \/ RetireSerialize \/ RetireValueMisp \/ RetireException

Next ==
  \/ \E misfetch \in BOOLEAN : Fetch(misfetch)
  \/ Fetch2Misfetch \/ Fetch2 \/ Decode \/ Rename1 \/ Rename2 \/ Dispatch
  \/ \E k \in 1..rob_size : Complete(k) \/ Resolve(k)
  \/ Retire \/ RetireSerialize \/ RetireValueMisp \/ RetireLoadViolation
  \/ RetireException

Spec == Init /\ [][Next]_vars

(* Every stage runs in every cycle.  A misfetched bundle trains the BTB,   *)
(* so that it is not misfetched for ever.                                  *)
FairSpec ==
  /\ Spec
  /\ SF_vars(Fetch(FALSE))
  /\ WF_vars(Fetch2Misfetch) /\ WF_vars(Fetch2) /\ WF_vars(Decode)
  /\ WF_vars(Rename1) /\ WF_vars(Rename2) /\ WF_vars(Dispatch)
  /\ \A k \in 1..rob_size : WF_vars(Complete(k)) /\ WF_vars(Resolve(k))
  /\ WF_vars(Commit \/ RetireLoadViolation)

-----------------------------------------------------------------------------
(* What the in-order stages should keep true.                              *)

InFlight == ROB \o DISPATCH \o RENAME2 \o FQ \o DECODE \o FETCH2

(* Fetch2, dispatch, the back end and retirement read the decode table     *)
(* alike for every encoding; and while fetch is idle an instruction is in  *)
(* flight whose retirement resumes it, however the paths that made it idle *)
(* were squashed.                                                          *)
StagesAgreeOnDecode ==
  /\ TableAgrees
  /\ ~fetch_active => \E k \in DOMAIN InFlight :
       Insn(InFlight[k]).trap \/ Insn(InFlight[k]).flags \cap {"F_AMO", "F_CSR"} # {}

(* PAY is sized for every instruction the stages hold, and stays below its *)
(* capacity: it could not tell full from empty, and a rollback would       *)
(* recompute a full buffer's length as 0.  Its length always counts the    *)
(* entries between head and tail.  Nor is the fetch queue, which takes two *)
(* places for a split instruction, ever pushed beyond its size.            *)
PAYNeverFull ==
  /\ Len(FQ) <= fq_size
  /\ PAY.length >= 0 /\ PAY.length < PAYLOAD_BUFFER_SIZE
  /\ (PAY.head + PAY.length) % PAYLOAD_BUFFER_SIZE = PAY.tail

(* The stages from the reorder buffer back to Fetch2 hold, in order, the   *)
(* entries of PAY from head to tail: no squash, rollback or split leaves   *)
(* an index behind, skips one, or lets retire act on another instruction   *)
(* than the reorder buffer's head.                                         *)
StagesMirrorPAY ==
  LET slot(d) == (PAY.head + d) % PAYLOAD_BUFFER_SIZE
      decoded == {InFlight[k] : k \in 1..(Len(InFlight) - Len(DECODE) - Len(FETCH2))}
      used(i) == \/ i % 2 = 0 \/ i = PAY.head
                 \/ i - 1 \in decoded /\ Insn(i - 1).split
  IN  InFlight = SelectSeq([d \in 1..PAY.length |-> slot(d - 1)], used)

(* An instruction is linked to the functional simulator's execution        *)
(* exactly when it is on the path that execution takes, and then to its    *)
(* own place in it, across rollbacks, refetches and resumptions.           *)
GoodIffOnPath ==
  LET inst(k)   == PAY.buf[InFlight[k]]
      starts(k) == k = 1 \/ InFlight[k] % 2 = 0
      number(k) == Cardinality({j \in 2..k : starts(j)})   \* instructions ahead of it
      onPath(k) == \A j \in 1..k : number(j) < DB.length
                     /\ inst(j).pc = DB.db[(DB.head + number(j)) % DEBUG_SIZE].pc
  IN  \A k \in DOMAIN InFlight :
        inst(k).db_index = IF onPath(k) THEN (DB.head + number(k)) % DEBUG_SIZE
                                        ELSE NoIndex

(* The assertions of checker() and of debug_buffer_t::first(): the         *)
(* instruction that retires is the one the functional simulator executed,  *)
(* with its exception, and with nothing in flight the fetch unit is at the *)
(* pc that execution has reached.                                          *)
CheckerPasses ==
  /\ Ready => /\ Head1.db_index = DB.head /\ Head1.pc = Actual.pc
              /\ Actual.exception => Faults
  /\ InFlight = <<>> => pc = DB.db[DB.head].pc
  /\ InFlight = <<>> => serialized = ("F_CSR" \in Decoded[pc].flags /\ ~Decoded[pc].trap
                                      /\ ~DB.db[DB.head].serialized)

(* The front end never deadlocks: instructions keep committing.            *)
Progress == []<><<Commit>>_vars

=============================================================================
