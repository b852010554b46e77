----------------------------- MODULE StrideSpec -----------------------------
(***************************************************************************)
(* What a stride value predictor promises, without a value prediction      *)
(* queue, instance counters or checkpoints.  The table is trained by       *)
(* retired values in program order; a prediction extrapolates the last     *)
(* retired value over the instances of the same entry still in flight and  *)
(* the predicted instruction itself.                                       *)
(***************************************************************************)
EXTENDS Integers, Sequences, FiniteSets

CONSTANTS PC, NoPC, index, tag, confmax, V

VARIABLES
  table,   \* per index: tag, last_value, stride, confidence
  flight   \* per instruction: pc, pred_value, predicted, open

vars == <<table, flight>>

Hit(pc) == table[index[pc]].tag = tag[pc]

SameEntry(pc) ==
  {k \in DOMAIN flight : /\ flight[k].pc # NoPC
                         /\ index[flight[k].pc] = index[pc]
                         /\ tag[flight[k].pc] = tag[pc]}

Extrapolated(pc) ==
  LET e == table[index[pc]]
  IN  (e.last_value + e.stride * (Cardinality(SameEntry(pc)) + 1)) % V

Trained(e, v) ==
  LET s == (v - e.last_value) % V
  IN  [e EXCEPT !.last_value = v, !.stride = s,
                !.confidence = IF s # e.stride THEN 0
                               ELSE IF @ < confmax THEN @ + 1 ELSE @]

Replaced(pc, v) ==
  [tag |-> tag[pc], last_value |-> v, stride |-> v, confidence |-> 0]

Init ==
  /\ table = [i \in {index[p] : p \in PC} |->
                [tag |-> 0, last_value |-> 0, stride |-> 0, confidence |-> 0]]
  /\ flight = <<>>

Predict(pc) ==
  /\ flight' = Append(flight,
       [pc |-> pc,
        pred_value |-> IF Hit(pc) THEN Extrapolated(pc) ELSE 0,
        predicted |-> Hit(pc) /\ table[index[pc]].confidence = confmax,
        open |-> FALSE])
  /\ UNCHANGED table

Branch ==
  /\ flight' = Append(flight, [pc |-> NoPC, pred_value |-> 0,
                               predicted |-> FALSE, open |-> TRUE])
  /\ UNCHANGED table

(* A resolved branch keeps everything, or only itself and what is older. *)
Resolve ==
  \E k \in DOMAIN flight : \E n \in {k, Len(flight)} :
    /\ flight[k].open
    /\ flight' = SubSeq([flight EXCEPT ![k].open = FALSE], 1, n)
    /\ UNCHANGED table

(* Only the oldest instruction trains the table; the rest may be squashed. *)
Retire ==
  /\ flight # <<>> /\ ~Head(flight).open
  /\ LET pc == Head(flight).pc IN
       IF pc = NoPC THEN UNCHANGED table
       ELSE \E v \in 0..(V - 1) :
         table' = [table EXCEPT ![index[pc]] =
                     IF Hit(pc) THEN Trained(@, v) ELSE Replaced(pc, v)]
  /\ flight' \in {Tail(flight), <<>>}

Squash == flight # <<>> /\ flight' = <<>> /\ UNCHANGED table

Next ==
  \/ \E pc \in PC : Predict(pc)
  \/ Branch \/ Resolve \/ Retire \/ Squash

Spec == Init /\ [][Next]_vars

=============================================================================
