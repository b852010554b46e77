--------------------------------- MODULE SVP ---------------------------------
(***************************************************************************)
(* The stride value predictor (uarchsim/SVP.cc) with the calls the         *)
(* pipeline makes on it.                                                   *)
(*                                                                         *)
(* SVP_table holds one entry per index: the tag of the PC that owns it,    *)
(* the last retired value, the stride, a confidence counter and the number *)
(* of instances in flight.  The VPQ is a circular buffer with one entry    *)
(* per in-flight eligible instruction.  Rename2 predicts and allocates,    *)
(* Writeback and load replay record the computed value, Retire trains the  *)
(* table with the head, a mispredicted branch rolls the tail back to the   *)
(* one its checkpoint kept, and a squash empties the queue.                *)
(*                                                                         *)
(* Values are 64-bit integers in the code and integers modulo V here.  A   *)
(* regular PC produces an arithmetic sequence in program order, any other  *)
(* PC produces arbitrary values.  The value of a late PC (csr and amo      *)
(* instructions) is written when it retires.                               *)
(***************************************************************************)
EXTENDS Ring, Sequences, FiniteSets

CONSTANTS
  PC,         \* eligible instructions: a destination and a predicted class
  NoPC,       \* the pc of a window element that is a branch
  index, tag, \* get_index and get_tag
  qsize,      \* VPQ entries
  confmax,    \* confidence at which predictions are used
  V,          \* values are taken modulo V
  stride,     \* the stride of each regular PC
  Late,       \* csr and amo PCs
  MaxWindow   \* bound on the instructions in flight

Regular == DOMAIN stride

ASSUME SVPAssumption ==
  /\ NoPC \notin PC
  /\ index \in [PC -> Nat] /\ tag \in [PC -> Nat]
  /\ qsize \in Nat \ {0}
  /\ confmax \in Nat
  /\ V \in Nat \ {0}
  /\ Regular \subseteq PC /\ stride \in [Regular -> 0..(V - 1)]
  /\ Late \subseteq PC \ Regular
  /\ MaxWindow \in Nat

VARIABLES
  SVP_table,
  VPQ, VPQ_head, VPQ_tail, VPQ_head_phase, VPQ_tail_phase,
  window,    \* eligible instructions and branches in flight, oldest first
  upcoming   \* value of the next retired instance of each regular PC

vpqVars == <<VPQ, VPQ_head, VPQ_tail, VPQ_head_phase, VPQ_tail_phase>>
vars    == <<SVP_table, vpqVars, window, upcoming>>

Value == 0..(V - 1)
Index == {index[p] : p \in PC}
Slot  == 0..(qsize - 1)

Entry == [tag : Nat, last_value : Value, stride : Value,
          confidence : 0..confmax, instance : Int]

(* at is what SVP::checkpoint returned: vpq_index and vpq_phase of an      *)
(* eligible instruction, VPQ_tail and VPQ_tail_phase of a branch.          *)
Inst == [pc : PC \cup {NoPC}, at : Slot \X BOOLEAN, predicted : BOOLEAN,
         pred_value : Value, done : BOOLEAN, value : Value]

search(pc)   == SVP_table[index[pc]].tag = tag[pc]
VPQCount     == Occupancy(VPQ_head, VPQ_head_phase, VPQ_tail, VPQ_tail_phase,
                          qsize)
(* The slots in use, from the head on. *)
InUse(s)     == Distance(s, VPQ_head, qsize) < VPQCount
checkpoint   == <<VPQ_tail, VPQ_tail_phase>>

(* A mutant: equal pointers always mean full. *)
FreeEntriesNoPhase ==
  IF VPQ_tail > VPQ_head THEN qsize - (VPQ_tail - VPQ_head)
                         ELSE VPQ_head - VPQ_tail

get_VPQ_free_entries ==
  CASE VPQ_head = VPQ_tail /\ VPQ_head_phase # VPQ_tail_phase -> 0
    [] VPQ_head = VPQ_tail /\ VPQ_head_phase = VPQ_tail_phase -> qsize
    [] VPQ_tail > VPQ_head /\ VPQ_tail_phase = VPQ_head_phase ->
         qsize - (VPQ_tail - VPQ_head)
    [] OTHER -> VPQ_head - VPQ_tail

(* A mutant: the confidence is read without comparing the tag. *)
ConfidenceAnyTag(pc) == SVP_table[index[pc]].confidence
get_confidence(pc) == IF search(pc) THEN SVP_table[index[pc]].confidence ELSE 0

get_inflight_instances(pc) ==
  Cardinality({s \in Slot : InUse(s) /\ VPQ[s].pc = pc})

-----------------------------------------------------------------------------
Init ==
  /\ SVP_table = [i \in Index |-> [tag |-> 0, last_value |-> 0, stride |-> 0,
                                   confidence |-> 0, instance |-> 0]]
  /\ VPQ = [s \in Slot |-> [pc |-> NoPC, val |-> 0]]
  /\ VPQ_head = 0 /\ VPQ_tail = 0
  /\ VPQ_head_phase = FALSE /\ VPQ_tail_phase = FALSE
  /\ window = <<>>
  /\ upcoming \in [Regular -> Value]

(* Fetch stops behind a csr or amo instruction until it has retired. *)
CanRename ==
  /\ Len(window) < MaxWindow
  /\ \A k \in DOMAIN window : window[k].pc \notin Late

(* The predicted value counts this instance too; the mutant does not. *)
ExtrapolatedOlder(e) == (e.last_value + e.stride * e.instance) % V
Extrapolated(e) == (e.last_value + e.stride * (e.instance + 1)) % V

(* Rename2 of an eligible instruction: checkpoint, install_VPQ, confidence. *)
RenameEligible(pc) ==
  /\ CanRename
  /\ get_VPQ_free_entries >= 1
  /\ LET pred == IF search(pc) THEN Extrapolated(SVP_table[index[pc]]) ELSE 0
     IN
     /\ SVP_table' = IF search(pc)
                       THEN [SVP_table EXCEPT ![index[pc]].instance = @ + 1]
                       ELSE SVP_table
     /\ VPQ' = [VPQ EXCEPT ![VPQ_tail] = [pc |-> pc, val |-> pred]]
     /\ window' = Append(window,
          [pc |-> pc, at |-> checkpoint,
           predicted |-> get_confidence(pc) = confmax, pred_value |-> pred,
           done |-> FALSE, value |-> 0])
  /\ VPQ_tail' = Next1(VPQ_tail, qsize)
  /\ VPQ_tail_phase' = NextPhase(VPQ_tail, VPQ_tail_phase, qsize)
  /\ UNCHANGED <<VPQ_head, VPQ_head_phase, upcoming>>

RenameBranch ==
  /\ CanRename
  /\ window' = Append(window,
       [pc |-> NoPC, at |-> checkpoint, predicted |-> FALSE, pred_value |-> 0,
        done |-> FALSE, value |-> 0])
  /\ UNCHANGED <<SVP_table, vpqVars, upcoming>>

(* The values the k-th instruction in flight can compute. *)
OlderInstances(k) == {j \in 1..(k - 1) : window[j].pc = window[k].pc}
Computes(k) ==
  LET p == window[k].pc
  IN  IF p \in Regular
        THEN {(upcoming[p] + stride[p] * Cardinality(OlderInstances(k))) % V}
        ELSE Value

(* Writeback or load replay: the computed value goes to the VPQ entry. *)
Complete(k, v) ==
  /\ k \in DOMAIN window
  /\ window[k].pc # NoPC /\ ~window[k].done
  /\ v \in Computes(k)
  /\ window' = [window EXCEPT ![k].done = TRUE, ![k].value = v]
  /\ VPQ' = [VPQ EXCEPT ![window[k].at[1]].val = v]
  /\ UNCHANGED <<SVP_table, VPQ_head, VPQ_tail, VPQ_head_phase,
                 VPQ_tail_phase, upcoming>>

OpenBranch(k) == k \in DOMAIN window /\ window[k].pc = NoPC /\ ~window[k].done

ResolveCorrect(k) ==
  /\ OpenBranch(k)
  /\ window' = [window EXCEPT ![k].done = TRUE]
  /\ UNCHANGED <<SVP_table, vpqVars, upcoming>>

(* partial_rollback: the tail walks back to the branch's, and each entry   *)
(* it passes is taken off the instances of its table entry if that still   *)
(* carries its tag.                                                        *)
Kept(at)       == Occupancy(VPQ_head, VPQ_head_phase, at[1], at[2], qsize)
RolledBack(at) ==
  {s \in Slot : Kept(at) <= Distance(s, VPQ_head, qsize) /\ InUse(s)}

(* A mutant: the phase of the tail is not restored. *)
RestoredTailPhaseKept(at) == VPQ_tail_phase
RestoredTailPhase(at) == at[2]

Mispredict(k) ==
  /\ OpenBranch(k)
  /\ LET at == window[k].at IN
     /\ SVP_table' = [i \in Index |->
          [SVP_table[i] EXCEPT !.instance = @ - Cardinality(
             {s \in RolledBack(at) : index[VPQ[s].pc] = i /\ search(VPQ[s].pc)})]]
     /\ VPQ_tail' = at[1] /\ VPQ_tail_phase' = RestoredTailPhase(at)
  /\ window' = SubSeq([window EXCEPT ![k].done = TRUE], 1, k)
  /\ UNCHANGED <<VPQ, VPQ_head, VPQ_head_phase, upcoming>>

-----------------------------------------------------------------------------
(* Retire trains the table with the value of the VPQ head: update_SVP, or  *)
(* install_SVP when another PC owns the entry.                             *)
Saturate(c) == IF c < confmax THEN c + 1 ELSE c

update_SVP(e, val) ==
  LET new_stride == (val - e.last_value) % V
  IN  [e EXCEPT
         !.confidence = IF new_stride # e.stride THEN 0
                        ELSE Saturate(@),
         !.stride = new_stride, !.last_value = val, !.instance = @ - 1]

(* The other instances in flight; the mutant installs a fresh entry. *)
InitialInstanceZero(pc) == 0
InitialInstance(pc) ==
  LET inflight == get_inflight_instances(pc)
  IN  IF inflight - 1 < 0 THEN 0 ELSE inflight - 1

install_SVP(pc, val) ==
  [tag |-> tag[pc], confidence |-> 0, last_value |-> val, stride |-> val,
   instance |-> InitialInstance(pc)]

retired_table ==
  LET pc  == VPQ[VPQ_head].pc
      val == VPQ[VPQ_head].val
  IN  [SVP_table EXCEPT ![index[pc]] =
         IF search(pc) THEN update_SVP(@, val) ELSE install_SVP(pc, val)]

full_rollback(table) ==
  /\ SVP_table' = [i \in Index |-> [table[i] EXCEPT !.instance = 0]]
  /\ VPQ_head' = 0 /\ VPQ_tail' = 0
  /\ VPQ_head_phase' = FALSE /\ VPQ_tail_phase' = FALSE
  /\ window' = <<>>
  /\ UNCHANGED VPQ

ValMisp(x) == x.predicted /\ x.value # x.pred_value

HeadDone == window # <<>> /\ Head(window).done

(* The committed head hands retire_VPQ its pc and its final value v: the   *)
(* computed one, or the one a csr or amo instruction got at the head.  A   *)
(* mispredicted value squashes everything younger.                         *)
RetireEligible(v) ==
  /\ HeadDone
  /\ LET x == Head(window) IN
     /\ x.pc # NoPC
     /\ x.pc \notin Late => v = x.value
     /\ upcoming' = IF x.pc \in Regular
                      THEN [upcoming EXCEPT ![x.pc] = (@ + stride[x.pc]) % V]
                      ELSE upcoming
     /\ IF ValMisp(x) /\ x.pc \notin Late
          THEN full_rollback(retired_table)
          ELSE /\ SVP_table' = retired_table
               /\ window' = Tail(window)
               /\ VPQ_head' = Next1(VPQ_head, qsize)
               /\ VPQ_head_phase' = NextPhase(VPQ_head, VPQ_head_phase, qsize)
               /\ UNCHANGED <<VPQ, VPQ_tail, VPQ_tail_phase>>

RetireBranch ==
  /\ HeadDone /\ Head(window).pc = NoPC
  /\ window' = Tail(window)
  /\ UNCHANGED <<SVP_table, vpqVars, upcoming>>

(* An exception or a load violation at the head: nothing commits. *)
RetireSquash ==
  /\ HeadDone
  /\ full_rollback(SVP_table)
  /\ UNCHANGED upcoming

Next ==
  \/ \E pc \in PC : RenameEligible(pc)
  \/ RenameBranch
  \/ \E k \in 1..MaxWindow, v \in Value : Complete(k, v)
  \/ \E k \in 1..MaxWindow : ResolveCorrect(k)
  \/ \E k \in 1..MaxWindow : Mispredict(k)
  \/ \E v \in Value : RetireEligible(v)
  \/ RetireBranch
  \/ RetireSquash

Spec == Init /\ [][Next]_vars

-----------------------------------------------------------------------------
(* Properties.                                                             *)

(***************************************************************************)
(* The instance counter of an entry is exactly the number of VPQ entries   *)
(* in flight that carry its index and tag, whatever was evicted and        *)
(* installed again, rolled back by a branch or squashed meanwhile          *)
(* (SVP.cc install_VPQ, install_SVP, partial_rollback, full_rollback).     *)
(***************************************************************************)
InstanceExact ==
  \A i \in Index :
    SVP_table[i].instance =
      Cardinality({s \in Slot : /\ InUse(s)
                                /\ index[VPQ[s].pc] = i
                                /\ tag[VPQ[s].pc] = SVP_table[i].tag})

(***************************************************************************)
(* The VPQ is the window's eligible instructions in program order: each    *)
(* instruction's vpq_index is the slot its age gives, with the value it    *)
(* computed, and the tail a branch kept is the slot after its elders.      *)
(* These are the first two assertions of retire_VPQ for every instruction  *)
(* in flight, and the termination of the loop of partial_rollback.         *)
(***************************************************************************)
Eligible(n) == {k \in 1..n : window[k].pc # NoPC}

VPQMirrorsWindow ==
  /\ VPQCount = Cardinality(Eligible(Len(window)))
  /\ \A k \in DOMAIN window :
       LET x == window[k]
           d == Cardinality(Eligible(k - 1))
       IN  /\ x.at[1] = Ahead(d, VPQ_head, qsize)
           /\ Kept(x.at) = d
           /\ x.pc # NoPC => /\ VPQ[x.at[1]].pc = x.pc
                             /\ x.done => VPQ[x.at[1]].val = x.value

(***************************************************************************)
(* A confident prediction for a PC that produces an arithmetic sequence is *)
(* the value the instruction computes, however many instances are in       *)
(* flight and whatever was squashed in between.                            *)
(***************************************************************************)
ConfidentStrideIsRight ==
  \A k \in DOMAIN window :
    window[k].predicted /\ window[k].pc \in Regular =>
      window[k].pred_value \in Computes(k)

(***************************************************************************)
(* The predictor implements StrideSpec: predictions extrapolate the last   *)
(* retired value over the window, and training is in program order.        *)
(***************************************************************************)
Trained == [i \in Index |->
  [tag |-> SVP_table[i].tag, last_value |-> SVP_table[i].last_value,
   stride |-> SVP_table[i].stride, confidence |-> SVP_table[i].confidence]]

Flight == [k \in DOMAIN window |->
  [pc |-> window[k].pc, pred_value |-> window[k].pred_value,
   predicted |-> window[k].predicted, open |-> OpenBranch(k)]]

Stride == INSTANCE StrideSpec WITH table <- Trained, flight <- Flight

ImplementsStride == Stride!Spec

(* The lanes complete the oldest instruction and Retire retires it in some *)
(* later cycle of pipeline.cc; rename need never run.                      *)
Fairness ==
  /\ WF_vars(\E v \in Value : Complete(1, v))
  /\ WF_vars(ResolveCorrect(1) \/ Mispredict(1))
  /\ WF_vars(RetireBranch \/ RetireSquash \/ \E v \in Value : RetireEligible(v))

FairSpec == Spec /\ Fairness

(* A rename stall for want of a VPQ entry ends (rename.cc:127). *)
VPQStallEnds == get_VPQ_free_entries = 0 ~> get_VPQ_free_entries # 0

(***************************************************************************)
(* assert(VPQ[VPQ_head].val == true_value), SVP.cc:159: the VPQ head holds *)
(* the value the retiring instruction commits.                             *)
(***************************************************************************)
RecordedValueIsTrue ==
  [][\A v \in Value : RetireEligible(v) => VPQ[VPQ_head].val = v]_vars

=============================================================================
