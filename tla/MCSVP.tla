-------------------------------- MODULE MCSVP --------------------------------
(***************************************************************************)
(* Model-checking instances of SVP: the predictor tables of each run.      *)
(***************************************************************************)
EXTENDS SVP, TLC

CONSTANTS A, B

NoStride == [p \in {} |-> 0]

(* Two PCs that share an index and differ in their tags; the first has the *)
(* tag of a fresh entry.                                                   *)
ConflictIndex == A :> 0 @@ B :> 0
ConflictTag   == A :> 0 @@ B :> 1
StrideA       == A :> 1

=============================================================================
