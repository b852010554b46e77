------------------------------ MODULE History ------------------------------
(***************************************************************************)
(* The speculative branch history of the gshare conditional branch         *)
(* predictor and the log from which it is repaired (uarchsim/gshare.cc).   *)
(* The tables' contents decide only how often a prediction is right and    *)
(* are left out: a prediction is a free choice, and training is the choice *)
(* of a context, that is, of a fetch pc and a history.                     *)
(*                                                                         *)
(* g is a record of the predictor's members and every method is an         *)
(* operator from g to g.  log[id].precise_bhr is the history before branch *)
(* id, log[id].fetch_bhr the one its prediction was read with, and context *)
(* is log_precise_bhr.                                                     *)
(***************************************************************************)
EXTENDS BranchQueue, SequencesExt

CONSTANT bhr_length

ASSUME HistoryAssumption == bhr_length \in Nat

BHR == 0..(2 ^ bhr_length - 1)

(* The oldest branch is the least significant bit.                         *)
update_bhr(bhr, taken) ==
  (bhr \div 2) + (IF taken THEN (2 ^ bhr_length) \div 2 ELSE 0)

(* A history after a sequence of instructions, of which the conditional    *)
(* branches enter their directions.                                        *)
Enter(bhr, d) == IF d.cond THEN update_bhr(bhr, d.taken) ELSE bhr
After(bhr, directions) == FoldLeft(Enter, bhr, directions)

InitialHistory ==
  [bhr |-> 0, fetch2_bhr |-> 0, context |-> 0,
   log |-> [i \in BQSlot |-> [precise_bhr |-> 0, fetch_bhr |-> 0]]]

-----------------------------------------------------------------------------
GshareSave(g)       == [g EXCEPT !.fetch2_bhr = g.bhr]
GshareSpec(g, dirs) == [g EXCEPT !.bhr = After(@, dirs)]
GshareRestore(g)    == [g EXCEPT !.bhr = g.fetch2_bhr]
GshareLogBegin(g)   == [g EXCEPT !.context = g.fetch2_bhr]

(* A mutant: trains with the history of the branch, not of the bundle.     *)
GshareLogPrecise(g, id, iscond, taken) ==
  [g EXCEPT !.log[id] = [precise_bhr |-> g.context, fetch_bhr |-> g.context],
            !.context = IF iscond THEN update_bhr(@, taken) ELSE @]

GshareLog(g, id, iscond, taken) ==
  [g EXCEPT
     !.log[id] = [precise_bhr |-> g.context, fetch_bhr |-> g.fetch2_bhr],
     !.context = IF iscond THEN update_bhr(@, taken) ELSE @]

GshareFlush(g, id) == [g EXCEPT !.bhr = g.log[id].precise_bhr]

(* A mutant: every mispredicted branch adds a direction.                   *)
GshareMispredictAny(g, id, iscond, taken) ==
  [g EXCEPT !.bhr = update_bhr(g.log[id].precise_bhr, taken)]

GshareMispredict(g, id, iscond, taken) ==
  LET bhr == g.log[id].precise_bhr
  IN  [g EXCEPT !.bhr = IF iscond THEN update_bhr(bhr, taken) ELSE bhr]

=============================================================================
