------------------------------- MODULE MCBTB -------------------------------
(***************************************************************************)
(* A model-checking instance of BTB.                                       *)
(***************************************************************************)
EXTENDS BTB, TLC

Code(kind, target) == [kind |-> kind, target |-> target]
Plain == Code("plain", 0)

(* Three instructions compete for the two ways of each bank; the first     *)
(* changes.                                                                *)
Changing ==
  0 :> {Code("BTB_BRANCH", 3), Code("BTB_JUMP_DIRECT", 5), Plain}
    @@ 1 :> {Code("BTB_JUMP_DIRECT", 4)}
    @@ 2 :> {Code("BTB_CALL_INDIRECT", 0)}
    @@ 3 :> {Code("BTB_CALL_INDIRECT", 0)}
    @@ 4 :> {Code("BTB_BRANCH", 1)} @@ 5 :> {Code("BTB_RETURN", 0)}
    @@ 6 :> {Code("serialize", 0)} @@ 7 :> {Code("fault", 0)}

=============================================================================
