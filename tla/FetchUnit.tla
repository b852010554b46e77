----------------------------- MODULE FetchUnit -----------------------------
(***************************************************************************)
(* The fetch unit (uarchsim/fetchunit.cc) with the branch queue, the       *)
(* branch history and the return address stack, and the calls the rest of  *)
(* the pipeline makes to it.                                               *)
(*                                                                         *)
(* window is the payload buffer's content in program order: the            *)
(* instructions in flight, of which the youngest are in FETCH2, the next   *)
(* `decode` ones in DECODE, and the others in the back end, which resolves *)
(* branches in any order and retires the oldest instruction.  An index     *)
(* into PAY becomes a position in window.                                  *)
(*                                                                         *)
(* The program is a constant.  What predictors answer and what branches    *)
(* compute is chosen freely; the BTB may miss an instruction or hold what  *)
(* memory no longer holds.  IBP gets the calls CBP gets, and keeps the     *)
(* same history: it is not repeated.  The instruction cache is in Caches.  *)
(***************************************************************************)
EXTENDS ReturnStack, History, FiniteSets

CONSTANTS
  instr_per_cycle,       \* "n": the longest fetch bundle
  cond_branch_per_cycle, \* "m": the most conditional branches of a bundle
  Program,               \* pc -> [kind, target]
  TraceHits,             \* what tc.lookup may answer: {FALSE} without a trace cache
  StaleEntry,            \* what the BTB holds for a pc whose instruction changed
  Handler,               \* the trap handler's pc
  MaxWindow,             \* bound: instructions in flight
  MaxDepth               \* bound: open calls, so that the stack does not wrap

PC      == DOMAIN Program
Inc(p)  == (p + 1) % Cardinality(PC)
Bundle  == 0..(instr_per_cycle - 1)
Calls   == {"BTB_CALL_DIRECT", "BTB_CALL_INDIRECT"}
Direct  == {"BTB_JUMP_DIRECT", "BTB_CALL_DIRECT"}
BranchKinds ==
  {"BTB_BRANCH", "BTB_JUMP_INDIRECT", "BTB_CALL_INDIRECT", "BTB_RETURN"} \cup Direct

(* The branch queue is sized for all that can be in flight (pipeline.cc,   *)
(* 180-184), the BTB's stale entry is one that some instruction had, and   *)
(* the direction of a branch shows in its target.                          *)
ASSUME FetchUnitAssumption ==
  /\ instr_per_cycle \in Nat \ {0} /\ cond_branch_per_cycle \in Nat \ {0}
  /\ IsFiniteSet(PC) /\ PC = 0..(Cardinality(PC) - 1) /\ Handler \in PC
  /\ TraceHits \subseteq BOOLEAN
  /\ StaleEntry \in [branch : {TRUE}, type : BranchKinds, target : PC]
  /\ \A p \in PC : /\ Program[p].kind \in BranchKinds \cup {"plain", "serialize", "fault"}
                   /\ Program[p].target \in PC
                   /\ Program[p].kind = "BTB_BRANCH" => Program[p].target # Inc(p)
  /\ MaxWindow \in 0..bq_size /\ MaxDepth \in 0..ras_size

VARIABLES
  pc, fetch_active,
  fetch2,        \* fetch2_status: [valid, pc, tc_hit]
  FETCH2,        \* the valid bits of the pipeline register, by position
  window, decode,
  bq, CBP, RBP,
  \* History variables, in terms of which the properties are stated:
  base_bhr,      \* CBP's history before the oldest instruction in flight
  base_stack     \* the open calls' return addresses, oldest first, likewise

vars == <<pc, fetch_active, fetch2, FETCH2, window, decode, bq, CBP, RBP,
          base_bhr, base_stack>>

-----------------------------------------------------------------------------
(* What the BTB says of an instruction, and what is true (btb_t::decode).  *)

NotABranch == [branch |-> FALSE, type |-> "BTB_BRANCH", target |-> 0]

Real(p) ==
  LET i == Program[p]
  IN  IF i.kind \notin BranchKinds THEN NotABranch
      ELSE [branch |-> TRUE, type |-> i.kind,
            target |-> IF i.kind \in {"BTB_BRANCH"} \cup Direct THEN i.target ELSE 0]

(* A BTB hit on an instruction, a miss, or an entry that memory outdated;  *)
(* the trace cache is filled by what memory holds.                         *)
Answers(tc, p) == IF tc THEN {Real(p)} ELSE {Real(p), NotABranch, StaleEntry}

(* The condition of the predecode of Fetch2; the mutant checks no target.  *)
MisidentifiedKind(i) == i.branch # Real(i.pc).branch
Misidentified(i) ==
  LET r == Real(i.pc)
  IN  \/ i.branch # r.branch
      \/ r.branch /\ (i.type # r.type
                      \/ (r.type \in {"BTB_BRANCH"} \cup Direct /\ i.target # r.target))

(* btb_t::lookup and tc_t::lookup, one instruction: it gets a prediction   *)
(* (cb numbers the bundle's conditional branches) and a next pc.           *)
FetchedAt(here, cb, id, ras) ==
  LET slot(taken, next_pc) ==
        [pc |-> here, cb |-> cb, id |-> id, taken |-> taken, next_pc |-> next_pc,
         cond |-> id.branch /\ id.type = "BTB_BRANCH"]
  IN  CASE ~id.branch             -> {slot(FALSE, Inc(here))}
        [] id.branch /\ id.type = "BTB_BRANCH" ->
             {slot(FALSE, Inc(here)), slot(TRUE, id.target)}
        [] id.branch /\ id.type \in Direct       -> {slot(TRUE, id.target)}
        [] id.branch /\ id.type = "BTB_RETURN"   -> {slot(TRUE, ras)}
        [] OTHER                  -> {slot(TRUE, target) : target \in PC}

(* A bundle from the instruction cache ends at any taken branch, one from  *)
(* the trace cache continues after conditional branches and direct jumps;  *)
(* both end at the m-th conditional branch and at a fetch exception.       *)
EndsBundle(tc, s) ==
  \/ Program[s.pc].kind = "fault"
  \/ s.cond /\ (s.cb + 1 = cond_branch_per_cycle \/ (s.taken /\ ~tc))
  \/ s.id.branch /\ ~s.cond /\ ~(tc /\ s.id.type = "BTB_JUMP_DIRECT")

(* The bundles that the predictors' answers and the BTB's may produce from *)
(* q: a trace cache hit or not, the first pc, the top of the stack.        *)
Grown(bundle, q) ==
  IF bundle # <<>> /\ EndsBundle(q.tc, Last(bundle)) THEN {bundle}
  ELSE LET here == IF bundle = <<>> THEN q.start ELSE Last(bundle).next_pc
           cb   == Cardinality({k \in DOMAIN bundle : bundle[k].cond})
       IN  {Append(bundle, s) :
              s \in UNION {FetchedAt(here, cb, id, q.ras) : id \in Answers(q.tc, here)}}
Longer(bundles, q) == UNION {Grown(bundle, q) : bundle \in bundles}
Bundles(tc, start, ras) ==
  FoldLeft(Longer, {<<>>},
           [p \in 1..instr_per_cycle |-> [tc |-> tc, start |-> start, ras |-> ras]])

(* spec_update_t.                                                          *)
Update(bundle) ==
  LET last == Last(bundle)
  IN  [next_pc |-> last.next_pc,
       directions |-> [k \in DOMAIN bundle |->
                         [cond |-> bundle[k].cond, taken |-> bundle[k].taken]],
       pop_ras |-> last.id.branch /\ last.id.type = "BTB_RETURN",
       push_ras |-> last.id.branch /\ last.id.type \in Calls,
       push_ras_pc |-> Inc(last.pc)]

(* The payload of an instruction.  Non-branches complete at any time.  Two *)
(* fields are history variables: taken, the direction that the history was *)
(* given, and fetch, what the instruction was predicted with, that is, the *)
(* bundle's pc, the history, and its number among the conditional branches *)
(* of the bundle.                                                          *)
Payload(s) ==
  [pc |-> s.pc, next_pc |-> s.next_pc, branch |-> s.id.branch, type |-> s.id.type,
   target |-> s.id.target, pred_tag |-> 0, pred_tag_phase |-> FALSE,
   done |-> ~s.id.branch, taken |-> s.taken,
   fetch |-> IF s.cond THEN <<pc, CBP.bhr, s.cb>> ELSE <<0, 0, 0>>]

-----------------------------------------------------------------------------
BQEntry == [branch_type |-> "BTB_BRANCH", fetch_pc |-> 0, fetch_cbID_in_bundle |-> 0,
            taken |-> FALSE, next_pc |-> 0, misp |-> FALSE]

Init ==
  /\ pc = 0 /\ fetch_active = TRUE
  /\ fetch2 = [valid |-> FALSE, pc |-> 0, tc_hit |-> FALSE]
  /\ FETCH2 = [p \in Bundle |-> FALSE]
  /\ window = <<>> /\ decode = 0
  /\ bq = EmptyBQ(BQEntry) /\ CBP = InitialHistory /\ RBP = EmptyRAS
  /\ base_bhr = 0 /\ base_stack = <<>>

(* Open calls after a branch of the given type.                            *)
CallStack(stack, i) ==
  IF ~i.branch THEN stack
  ELSE IF i.type \in Calls THEN Append(stack, Inc(i.pc))
  ELSE IF i.type = "BTB_RETURN" /\ stack # <<>> THEN Front(stack)
  ELSE stack

SpecStack == FoldLeft(CallStack, base_stack, window)

Fetch1 ==
  /\ ~fetch2.valid /\ fetch_active
  /\ \E tc \in TraceHits : \E bundle \in Bundles(tc, pc, RASPredict(RBP)) :
       LET n      == Len(bundle)
           update == Update(bundle)
       IN  /\ Len(window) + n <= MaxWindow
           /\ update.push_ras => Len(SpecStack) < MaxDepth
           /\ fetch2' = [valid |-> TRUE, pc |-> pc, tc_hit |-> tc]
           /\ window' = window \o [p \in 1..n |-> Payload(bundle[p])]
           /\ FETCH2' = [p \in Bundle |-> p < n \/ FETCH2[p]]
           /\ CBP' = GshareSpec(GshareSave(CBP), update.directions)
           /\ RBP' = RASSpecUpdate(RASSaveContext(RBP), update)
           /\ pc' = update.next_pc
  /\ UNCHANGED <<fetch_active, decode, bq, base_bhr, base_stack>>

-----------------------------------------------------------------------------
(* Fetch2.  The bundle is predecoded, up to a serializing instruction,     *)
(* behind which FETCH2 and PAY are cut.                                    *)

InFetch2 ==
  Cardinality({p \in Bundle : \A q \in 0..p : FETCH2[q]})

BundleStart == Len(window) - InFetch2
Fetched(p)  == window[BundleStart + 1 + p]
Kind(p)     == Program[Fetched(p).pc].kind

Serializers == {p \in 0..(InFetch2 - 1) : Kind(p) = "serialize"}
Predecoded  ==
  IF Serializers = {} THEN InFetch2
  ELSE 1 + CHOOSE p \in Serializers : \A q \in Serializers : p <= q
KeptAll == window   \* a mutant: nothing behind the instruction is discarded
Kept == SubSeq(window, 1, BundleStart + Predecoded)

Idles    == \E p \in 0..(Predecoded - 1) : Kind(p) \in {"serialize", "fault"}
Misfetch ==
  ~fetch2.tc_hit /\ \E p \in 0..(Predecoded - 1) : Misidentified(Fetched(p))

(* The valid bits after the predecode: only the slot behind a serializing  *)
(* instruction is invalidated.                                             *)
Invalidated ==
  [p \in Bundle |-> FETCH2[p] /\ ~(Serializers # {} /\ p = Predecoded)]

squash_fetch2 ==
  /\ fetch2' = [fetch2 EXCEPT !.valid = FALSE]
  /\ FETCH2' = [p \in Bundle |-> FALSE]

Fetch2Misfetch ==
  /\ fetch2.valid /\ Misfetch
  /\ fetch_active' = TRUE
  /\ squash_fetch2
  /\ pc' = fetch2.pc
  /\ CBP' = GshareRestore(CBP) /\ RBP' = RASRestoreContext(RBP)
  /\ window' = SubSeq(window, 1, BundleStart)
  /\ UNCHANGED <<decode, bq, base_bhr, base_stack>>

Fetch2Stall ==
  /\ fetch2.valid /\ ~Misfetch /\ decode > 0
  /\ window' = Kept /\ FETCH2' = Invalidated
  /\ fetch_active' = (fetch_active /\ ~Idles)
  /\ UNCHANGED <<pc, fetch2, decode, bq, CBP, RBP, base_bhr, base_stack>>

(* One branch of the bundle enters the branch queue and the logs.          *)
PushBranch(s, p) ==
  LET i      == Fetched(p)
      tag    == s.bq.tail
      taken  == i.next_pc # Inc(i.pc)
      iscond == i.type = "BTB_BRANCH"
  IN  IF ~i.branch THEN s
      ELSE [bq |-> push(s.bq, [branch_type |-> i.type, fetch_pc |-> fetch2.pc,
                               fetch_cbID_in_bundle |-> IF iscond THEN s.cbID ELSE 0,
                               taken |-> taken, next_pc |-> i.next_pc,
                               misp |-> FALSE]),
            cbID |-> IF iscond THEN s.cbID + 1 ELSE s.cbID,
            CBP |-> GshareLog(s.CBP, tag, iscond, taken),
            RBP |-> RASLogBranch(s.RBP, tag, i.type),
            window |-> [s.window EXCEPT ![BundleStart + 1 + p].pred_tag = tag,
                                        ![BundleStart + 1 + p].pred_tag_phase =
                                          s.bq.tail_phase]]

Fetch2Advance ==
  /\ fetch2.valid /\ ~Misfetch /\ decode = 0
  /\ LET s == FoldLeft(PushBranch,
                       [bq |-> bq, cbID |-> 0, CBP |-> GshareLogBegin(CBP), RBP |-> RBP,
                        window |-> Kept],
                       [k \in 1..Predecoded |-> k - 1])
     IN  bq' = s.bq /\ CBP' = s.CBP /\ RBP' = s.RBP /\ window' = s.window
  /\ decode' = Predecoded
  /\ FETCH2' = [p \in Bundle |-> Invalidated[p] /\ p >= Predecoded]
  /\ fetch2' = [fetch2 EXCEPT !.valid = FALSE]
  /\ fetch_active' = (fetch_active /\ ~Idles)
  /\ UNCHANGED <<pc, base_bhr, base_stack>>

(* Decode moves its bundle to the fetch queue.                             *)
Decode ==
  /\ decode > 0 /\ decode' = 0
  /\ UNCHANGED <<pc, fetch_active, fetch2, FETCH2, window, bq, CBP, RBP,
                 base_bhr, base_stack>>

-----------------------------------------------------------------------------
BackEnd == Len(window) - InFetch2 - decode

Outcomes(p) ==
  LET i == Program[p]
  IN  CASE i.kind = "BTB_BRANCH" -> {Inc(p), i.target}
        [] i.kind \in Direct     -> {i.target}
        [] OTHER                 -> PC

ResolveCorrect(k) ==
  /\ k <= BackEnd /\ window[k].branch /\ ~window[k].done
  /\ window[k].next_pc \in Outcomes(window[k].pc)
  /\ window' = [window EXCEPT ![k].done = TRUE]
  /\ UNCHANGED <<pc, fetch_active, fetch2, FETCH2, decode, bq, CBP, RBP,
                 base_bhr, base_stack>>

(* mispredict(), with the rollback of PAY and the squash of the stages     *)
(* between Fetch and Dispatch.                                             *)
Mispredict(k) ==
  /\ k <= BackEnd /\ window[k].branch /\ ~window[k].done
  /\ \E next_pc \in Outcomes(window[k].pc) \ {window[k].next_pc} :
       LET tag    == window[k].pred_tag
           taken  == next_pc # Inc(window[k].pc)
           iscond == bq.bq[tag].branch_type = "BTB_BRANCH"
       IN  /\ bq' = push(rollback(bq, tag, window[k].pred_tag_phase),
                         [bq.bq[tag] EXCEPT !.next_pc = next_pc, !.taken = taken,
                                            !.misp = TRUE])
           /\ CBP' = GshareMispredict(CBP, tag, iscond, taken)
           /\ RBP' = RASMispredict(RBP, tag)
           /\ pc' = next_pc
           /\ window' = [SubSeq(window, 1, k) EXCEPT ![k].next_pc = next_pc,
                                                     ![k].taken = taken,
                                                     ![k].done = TRUE]
  /\ fetch_active' = TRUE
  /\ squash_fetch2
  /\ decode' = 0
  /\ UNCHANGED <<base_bhr, base_stack>>

-----------------------------------------------------------------------------
(* flush().  The predictors are repaired only if a branch is in the queue. *)
flush(next_pc) ==
  /\ IF empty(bq) THEN UNCHANGED <<bq, CBP, RBP>>
     ELSE /\ bq' = BQFlush(bq)
          /\ CBP' = GshareFlush(CBP, bq.head) /\ RBP' = RASFlush(RBP, bq.head)
  /\ pc' = next_pc
  /\ fetch_active' = TRUE
  /\ squash_fetch2

(* The top of the stack, downwards, is the given sequence.                 *)
Holds(r, stack) ==
  \A k \in DOMAIN stack :
     r.ras[(r.tos + Len(stack) * ras_size - (Len(stack) - k)) % ras_size] = stack[k]

(* What is not repaired becomes what the predictors go on from.            *)
Rebase ==
  /\ base_bhr' = IF empty(bq) THEN CBP.bhr ELSE base_bhr
  /\ base_stack' = IF empty(bq) /\ ~Holds(RBP, base_stack) THEN <<>> ELSE base_stack

Completed == BackEnd >= 1 /\ window[1].done
HeadKind  == Program[window[1].pc].kind

Retire ==
  /\ Completed /\ HeadKind \notin {"serialize", "fault"}
  /\ window' = Tail(window)
  /\ IF window[1].branch
     THEN LET entry  == bq.bq[bq.head]
              iscond == entry.branch_type = "BTB_BRANCH"
          IN  /\ bq' = pop(bq)
              /\ base_stack' = CallStack(base_stack, window[1])
              /\ base_bhr' = IF iscond THEN update_bhr(base_bhr, entry.taken)
                             ELSE base_bhr
     ELSE UNCHANGED <<bq, base_bhr, base_stack>>
  /\ UNCHANGED <<pc, fetch_active, fetch2, FETCH2, decode, CBP, RBP>>

(* An amo or csr instruction resumes fetch; nothing else is squashed.      *)
RetireSerialize ==
  /\ Completed /\ HeadKind = "serialize"
  /\ flush(Inc(window[1].pc)) /\ Rebase
  /\ window' = Tail(window)
  /\ UNCHANGED decode

(* A load violation refetches the head, a value misprediction commits it   *)
(* and refetches the next instruction, an exception goes to the handler or *)
(* refetches a csr instruction; the whole pipeline is squashed.            *)
RetireSquash ==
  /\ Completed /\ ~window[1].branch
  /\ \E next_pc \in CASE HeadKind = "plain"     -> {window[1].pc, Inc(window[1].pc)}
                      [] HeadKind = "serialize" -> {window[1].pc, Handler}
                      [] HeadKind = "fault"     -> {Handler} :
       flush(next_pc)
  /\ Rebase
  /\ window' = <<>> /\ decode' = 0

Next ==
  \/ Fetch1 \/ Fetch2Misfetch \/ Fetch2Stall \/ Fetch2Advance \/ Decode
  \/ \E k \in 1..Len(window) : ResolveCorrect(k) \/ Mispredict(k)
  \/ Retire \/ RetireSerialize \/ RetireSquash

Spec == Init /\ [][Next]_vars

-----------------------------------------------------------------------------
(* What the fetch unit should keep true.                                   *)

IsCond(i) == i.branch /\ i.type = "BTB_BRANCH"
Directions(w) == [k \in DOMAIN w |-> [cond |-> IsCond(w[k]), taken |-> w[k].taken]]

(* The branches past Fetch2, and how many of them are older than k.        *)
Pushed   == {k \in 1..BundleStart : window[k].branch}
Older(k) == Cardinality({j \in Pushed : j < k})

(* After any interleaving of pushes, out-of-order rollbacks, pops and      *)
(* flushes, the branch queue holds exactly the branches past Fetch2, in    *)
(* program order and under the names they were given; the log of the       *)
(* return address stack is in step with it; and an unresolved branch       *)
(* passes the checks of bq_t::rollback.                                    *)
BranchQueueMirrors ==
  /\ BQLength(bq) = Cardinality(Pushed)
  /\ RBP.tail = bq.tail
  /\ \A k \in Pushed :
       LET slot == Ahead(Older(k), bq.head, bq_size)
       IN  /\ window[k].pred_tag = slot
           /\ bq.bq[slot].branch_type = window[k].type
           /\ bq.bq[slot].next_pc = window[k].next_pc
           /\ window[k].done \/ InQueue(bq, slot, window[k].pred_tag_phase)

(* While instructions are fetched, the predictor's speculative history is  *)
(* its history before the oldest instruction in flight, extended by the    *)
(* directions of every conditional branch since: no misfetch and no        *)
(* misprediction loses or repeats a direction.  A flush does not either    *)
(* while the branch queue has a branch; with an empty queue it restores    *)
(* nothing (fetchunit.cc:707), and what the bundle in FETCH2 left in the   *)
(* history becomes part of what was before (Rebase).                       *)
HistoryExact ==
  fetch_active => CBP.bhr = After(base_bhr, Directions(window))

(* A branch trains the predictor at retirement with the fetch pc, history  *)
(* and position its prediction was read with, although all three were      *)
(* saved in different structures, and the branch was moved by rollbacks.   *)
TrainsWhatPredicted ==
  \A k \in 1..BundleStart :
    IsCond(window[k]) =>
      LET tag == window[k].pred_tag
      IN  window[k].fetch = <<bq.bq[tag].fetch_pc, CBP.log[tag].fetch_bhr,
                              bq.bq[tag].fetch_cbID_in_bundle>>

(* With recovery by a walk of the log, the return address stack holds the  *)
(* return addresses of the open calls of the path being fetched, whatever  *)
(* was pushed and popped on the paths that were abandoned; a flush with an *)
(* empty branch queue is taken as in HistoryExact.                         *)
StackExact == fetch_active => Holds(RBP, SpecStack)

(* Fetch is idle exactly when its last instruction is one that resumes it  *)
(* when it retires, and such an instruction, once predecoded, has nothing  *)
(* behind it: retire.cc flushes only the fetch unit for an amo or a csr    *)
(* instruction, and nothing else would restart fetch.                      *)
IdleBehindSerializer ==
  LET Stops(k) == Program[window[k].pc].kind \in {"serialize", "fault"}
  IN  /\ ~fetch_active => window # <<>> /\ Stops(Len(window))
      /\ \A k \in 1..BundleStart : Stops(k) => k = Len(window) /\ ~fetch_active

(* The assertion of commit(): a direct jump or call is never mispredicted, *)
(* since Fetch2 refetches a bundle whose direct targets are wrong.         *)
DirectNeverMispredicted ==
  \A k \in Pushed : window[k].type \in Direct => ~bq.bq[window[k].pred_tag].misp

=============================================================================
