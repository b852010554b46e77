----------------------------- MODULE RenamerInv -----------------------------
(***************************************************************************)
(* The inductive invariant of Renamer.  The whole FreeList array, and not  *)
(* only its free part, always holds exactly the registers AMT does not     *)
(* map: rename only moves FL_head, commit exchanges AMT[log_reg] with the  *)
(* slot at FL_tail, and squash writes the unmapped registers anew.  So the *)
(* destinations in flight are the slots between FL_tail and FL_head, in    *)
(* program order, and a checkpoint splits them at its branch.              *)
(***************************************************************************)
EXTENDS Renamer

Size == ALCount + Len(DISPATCH)

(* Slots counted from FL_tail: those before FL_head, or before the head a  *)
(* checkpoint c kept, are allocated.                                       *)
TailDist(s) == Distance(s, FL_tail, FL_size)
Allocated   == FL_size - FreeRegs
AllocatedAt(c) ==
  FL_size - Occupancy(c.FL_head, c.FL_head_phase, FL_tail, FL_tail_phase, FL_size)

Writes(x, s) == x.dest_valid /\ FreeList[s] = x.phys_reg

MapsDisjoint ==
  /\ \A r, q \in LogReg : AMT[r] = AMT[q] => r = q
  /\ \A s, t \in FLSlot : FreeList[s] = FreeList[t] => s = t
  /\ \A r \in LogReg, s \in FLSlot : AMT[r] # FreeList[s]
  /\ \A p \in PhysReg : \/ \E r \in LogReg : AMT[r] = p
                        \/ \E s \in FLSlot : FreeList[s] = p

SlotsInOrder ==
  /\ \A k \in 1..Size : Window[k].dest_valid =>
       \E s \in FLSlot : Writes(Window[k], s) /\ TailDist(s) < Allocated
  /\ \A k, l \in 1..Size : \A s, t \in FLSlot :
       k < l /\ Writes(Window[k], s) /\ Writes(Window[l], t)
         => TailDist(s) < TailDist(t)
  /\ \A s \in FLSlot : TailDist(s) < Allocated =>
       \E k \in 1..Size : Writes(Window[k], s)

(* The checkpoint of the unresolved branch at k. *)
CheckpointOf(k) == Checkpoints[Window[k].branch_ID]

CheckpointSplits(k) ==
  /\ RingOK(CheckpointOf(k).FL_head, CheckpointOf(k).FL_head_phase,
            FL_tail, FL_tail_phase)
  /\ AllocatedAt(CheckpointOf(k)) <= Allocated
  /\ \A l \in 1..Size : \A s \in FLSlot : Writes(Window[l], s) =>
       (l <= k <=> TailDist(s) < AllocatedAt(CheckpointOf(k)))

CheckpointNests(l, k) ==
  /\ Window[l].branch_ID \in CheckpointOf(k).GBM
  /\ Window[l].branch_ID # Window[k].branch_ID
  /\ AllocatedAt(CheckpointOf(l)) <= AllocatedAt(CheckpointOf(k))

CheckpointsInOrder ==
  /\ \A k \in 1..Size : Unresolved(Window[k]) =>
       CheckpointSplits(k) /\ Window[k].branch_ID \in GBM
  /\ \A l, k \in 1..Size :
       l < k /\ Unresolved(Window[l]) /\ Unresolved(Window[k]) =>
         CheckpointNests(l, k)

(* Nothing completes before it is dispatched. *)
DispatchPending == \A k \in 1..Len(DISPATCH) : ~DISPATCH[k].completed

IInv == TypeOK /\ MapsDisjoint /\ SlotsInOrder /\ CheckpointsInOrder /\ DispatchPending

-----------------------------------------------------------------------------
(* What recovery and execution rely on besides: the branches that are      *)
(* unresolved before the n-th instruction are those in its mask, in its    *)
(* checkpoint and, at the end of the window, in GBM; a map is the          *)
(* committed one overwritten by the writers of the window in order; and a  *)
(* committed register has its value.                                       *)

(* Branch b is open among the instructions of w before the n-th.          *)
OpenIn(w, b, n) ==
  \E j \in 1..(n - 1) : Unresolved(w[j]) /\ w[j].branch_ID = b

BranchesInOrder ==
  /\ \A b \in Branch : b \in GBM <=> OpenIn(Window, b, Size + 1)
  /\ \A k \in 1..Size : ~Window[k].completed =>
       \A b \in Branch : b \in Window[k].branch_mask <=> OpenIn(Window, b, k)
  /\ \A k \in 1..Size : Unresolved(Window[k]) =>
       \A b \in Branch : b \in CheckpointOf(k).GBM <=> OpenIn(Window, b, k)

WritesReg(x, r) == x.dest_valid /\ x.log_reg = r

(* m is the committed map c after the n oldest instructions of w.         *)
MapIs(m, c, w, n) ==
  \A r \in LogReg :
    \/ /\ m[r] = c[r]
       /\ \A k \in 1..n : ~WritesReg(w[k], r)
    \/ \E k \in 1..n :
         /\ WritesReg(w[k], r) /\ m[r] = w[k].phys_reg
         /\ \A l \in 1..n : WritesReg(w[l], r) => l <= k

MapsInOrder ==
  /\ MapIs(RMT, AMT, Window, Size)
  /\ \A k \in 1..Size : Unresolved(Window[k]) =>
       MapIs(CheckpointOf(k).shadow_RMT, AMT, Window, k)

CommittedReady == \A r \in LogReg : PRF_ready[AMT[r]]

RInv == IInv /\ BranchesInOrder /\ MapsInOrder /\ CommittedReady

=============================================================================
