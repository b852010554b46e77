------------------------------ MODULE MCRenamer ------------------------------
(***************************************************************************)
(* Model-checking instance of Renamer.  The view identifies states that    *)
(* differ only in what the program never reads again:                      *)
(*   - active list entries outside the window and checkpoints outside GBM, *)
(*     which dispatch_inst and checkpoint overwrite before the next read;  *)
(*   - the mask and branch ID of a completed instruction;                  *)
(*   - the ready bit of a register that is free or waits in DISPATCH,      *)
(*     which dispatch overwrites;                                          *)
(* and in the value of phase bits that are only compared with each other.  *)
(***************************************************************************)
EXTENDS RenamerInv

LiveInst(x) ==
  IF x.completed THEN <<x.dest_valid, x.log_reg, x.phys_reg, x.flags>> ELSE x

ReadableRegs ==
  LET w == Window
  IN  Committed \cup {w[k].phys_reg : k \in {j \in WritersIn(w) : j <= ALCount}}

Live ==
  <<RMT, AMT, FreeList, FL_head, FreeRegs, AL_head, ALCount,
    LET w == Window IN [k \in DOMAIN w |-> LiveInst(w[k])],
    {p \in ReadableRegs : PRF_ready[p]}, GBM,
    [b \in GBM |-> <<Checkpoints[b].shadow_RMT, Checkpoints[b].FL_head,
                     Checkpoints[b].FL_head_phase = FL_tail_phase,
                     Checkpoints[b].GBM>>]>>

=============================================================================
