----------------------------- MODULE RenameSpec -----------------------------
(***************************************************************************)
(* What a register renamer promises, without free list order, circular     *)
(* buffers, shadow maps or branch masks.  The committed map and the window *)
(* of unretired instructions determine everything: the speculative map is  *)
(* the committed map overwritten by the window in program order, and a     *)
(* register is free when neither uses it.  A mispredicted branch cuts the  *)
(* window behind it; a squash empties it.                                  *)
(***************************************************************************)
EXTENDS Integers, Sequences

CONSTANTS n_log_regs, n_phys_regs

VARIABLES committed, window, map, free

vars == <<committed, window, map, free>>

LogReg  == 0..(n_log_regs - 1)
PhysReg == 0..(n_phys_regs - 1)

(* The youngest writer of r in w, or the committed register. *)
Lookup(c, w) ==
  [r \in LogReg |->
     LET W == {k \in DOMAIN w : w[k].dest_valid /\ w[k].log_reg = r}
     IN  IF W = {} THEN c[r]
         ELSE w[CHOOSE k \in W : \A l \in W : l <= k].phys_reg]

Unused(c, w) ==
  {p \in PhysReg :
     /\ \A r \in LogReg : c[r] # p
     /\ \A k \in DOMAIN w : w[k].dest_valid => w[k].phys_reg # p}

Update(c, w) ==
  /\ committed' = c /\ window' = w
  /\ map' = Lookup(c, w) /\ free' = Unused(c, w)

Init ==
  /\ committed \in [LogReg -> PhysReg]
  /\ \A r, q \in LogReg : committed[r] = committed[q] => r = q
  /\ window = <<>>
  /\ map = committed
  /\ free = Unused(committed, <<>>)

(* A renamed instruction takes any free register for its destination. *)
Rename ==
  \E open \in BOOLEAN :
    \/ \E r \in LogReg, p \in free :
         Update(committed, Append(window,
           [dest_valid |-> TRUE, log_reg |-> r, phys_reg |-> p, open |-> open]))
    \/ Update(committed, Append(window,
         [dest_valid |-> FALSE, log_reg |-> 0, phys_reg |-> 0, open |-> open]))

Close(w, k) == [w EXCEPT ![k].open = FALSE]

ResolveCorrect ==
  \E k \in DOMAIN window :
    window[k].open /\ Update(committed, Close(window, k))

ResolveMispredict ==
  \E k \in DOMAIN window :
    window[k].open /\ Update(committed, SubSeq(Close(window, k), 1, k))

AfterHead ==
  IF Head(window).dest_valid
    THEN [committed EXCEPT ![Head(window).log_reg] = Head(window).phys_reg]
    ELSE committed

Commit ==
  /\ window # <<>> /\ ~Head(window).open
  /\ Update(AfterHead, Tail(window))

Squash == window # <<>> /\ Update(committed, <<>>)

CommitSquash == 
  /\ window # <<>> /\ ~Head(window).open
  /\ Update(AfterHead, <<>>)

Next ==
  \/ Rename \/ ResolveCorrect \/ ResolveMispredict
  \/ Commit \/ Squash \/ CommitSquash

Spec == Init /\ [][Next]_vars

=============================================================================
