------------------------------- MODULE Renamer -------------------------------
(***************************************************************************)
(* The register renamer of the 721 simulator (uarchsim/renamer.cc) with    *)
(* the calls the pipeline makes on it.                                     *)
(*                                                                         *)
(* The class keeps a speculative map (RMT), a committed map (AMT), a free  *)
(* list and an active list that are circular buffers with phase bits, the  *)
(* ready bits of the physical register file and a bit mask (GBM) of the    *)
(* checkpoints taken for unresolved branches.  The pipeline calls it from  *)
(* Rename2 (one iteration of the loop of rename.cc per RenameInst), from   *)
(* Dispatch (one iteration of the loop of dispatch.cc per DispatchInst),   *)
(* from the execution lanes, from Writeback and from Retire.               *)
(*                                                                         *)
(* An instruction is a record: the fields the class keeps in its AL_entry, *)
(* and the branch_ID and branch_mask that travel with the instruction in   *)
(* the payload buffer and the pipeline registers.  The fields of AL_entry  *)
(* that the class only hands back (load, store, branch, amo, csr, PC) and  *)
(* the register values are left out.                                       *)
(***************************************************************************)
EXTENDS Ring, Sequences, FiniteSets

CONSTANTS
  n_log_regs,     \* logical registers
  n_phys_regs,    \* physical registers
  n_branches,     \* checkpoints
  n_active,       \* active list entries
  dispatch_width, \* most instructions in the DISPATCH pipeline register
  Flag            \* the retire-time flags that can be posted

(* The constructor's assertions; shifts of GBM need at most 64 branches. *)
ASSUME RenamerAssumption ==
  /\ n_log_regs \in Nat \ {0}
  /\ n_phys_regs \in Nat
  /\ n_phys_regs > n_log_regs
  /\ n_branches \in 1..64
  /\ n_active \in Nat \ {0}
  /\ dispatch_width \in Nat \ {0}
  /\ Flag \subseteq {"exception", "load_viol", "br_misp", "val_misp"}

VARIABLES
  RMT, AMT,                                        \* register maps
  FreeList, FL_head, FL_tail, FL_head_phase, FL_tail_phase,
  ActiveList, AL_head, AL_tail, AL_head_phase, AL_tail_phase,
  PRF_ready,                                       \* ready bits
  GBM,                                             \* checkpoints in use
  Checkpoints,
  DISPATCH                                         \* renamed, not yet dispatched

mapVars == <<RMT, AMT>>
flVars  == <<FreeList, FL_head, FL_tail, FL_head_phase, FL_tail_phase>>
alVars  == <<ActiveList, AL_head, AL_tail, AL_head_phase, AL_tail_phase>>
vars    == <<mapVars, flVars, alVars, PRF_ready, GBM, Checkpoints, DISPATCH>>

FL_size == n_phys_regs - n_log_regs
LogReg  == 0..(n_log_regs - 1)
PhysReg == 0..(n_phys_regs - 1)
Branch  == 0..(n_branches - 1)
FLSlot  == 0..(FL_size - 1)
ALIndex == 0..(n_active - 1)

(* branch_ID of an instruction that takes no checkpoint. *)
NoBranch == n_branches

Inst ==
  [dest_valid : BOOLEAN, log_reg : LogReg, phys_reg : PhysReg,
   branch_ID : 0..n_branches, branch_mask : SUBSET Branch,
   completed : BOOLEAN, flags : SUBSET Flag]

Checkpoint ==
  [shadow_RMT : [LogReg -> PhysReg], FL_head : FLSlot,
   FL_head_phase : BOOLEAN, GBM : SUBSET Branch]

-----------------------------------------------------------------------------
FreeRegs == Occupancy(FL_head, FL_head_phase, FL_tail, FL_tail_phase, FL_size)
ALCount  == Occupancy(AL_head, AL_head_phase, AL_tail, AL_tail_phase, n_active)

stall_reg(bundle_dst)       == FreeRegs < bundle_dst
stall_branch(bundle_branch) == Cardinality(Branch \ GBM) < bundle_branch
stall_dispatch(bundle_inst) == n_active - ALCount < bundle_inst

(* The lowest clear bit of GBM. *)
FirstFree == CHOOSE b \in Branch \ GBM : \A c \in Branch \ GBM : b <= c

(* Distance of an active list index from the head: the age of its entry. *)
Age(i)      == Distance(i, AL_head, n_active)
InFlight(i) == Age(i) < ALCount
AtAge(k)    == Ahead(k, AL_head, n_active)

(* All renamed instructions that have not retired, oldest first. *)
Window ==
  [k \in 1..(ALCount + Len(DISPATCH)) |->
     IF k <= ALCount THEN ActiveList[AtAge(k - 1)] ELSE DISPATCH[k - ALCount]]

(* A checkpointed branch is unresolved until the writeback that completes it. *)
Unresolved(x) == x.branch_ID # NoBranch /\ ~x.completed

-----------------------------------------------------------------------------
Init ==
  /\ RMT = [r \in LogReg |-> r]
  /\ AMT = [r \in LogReg |-> r]
  /\ FreeList = [s \in FLSlot |-> n_log_regs + s]
  /\ FL_head = 0 /\ FL_tail = 0
  /\ FL_head_phase = FALSE /\ FL_tail_phase = TRUE
  /\ ActiveList = [i \in ALIndex |->
       [dest_valid |-> FALSE, log_reg |-> 0, phys_reg |-> 0,
        branch_ID |-> NoBranch, branch_mask |-> {},
        completed |-> FALSE, flags |-> {}]]
  /\ AL_head = 0 /\ AL_tail = 0
  /\ AL_head_phase = FALSE /\ AL_tail_phase = FALSE
  /\ PRF_ready = [p \in PhysReg |-> TRUE]
  /\ GBM = {}
  /\ Checkpoints = [b \in Branch |->
       [shadow_RMT |-> [r \in LogReg |-> 0], FL_head |-> 0,
        FL_head_phase |-> FALSE, GBM |-> {}]]
  /\ DISPATCH = <<>>

(***************************************************************************)
(* Rename2: rename the destination (rename_rdst), read GBM as the branch   *)
(* mask, then take a checkpoint of the maps that include the branch's own  *)
(* destination.                                                            *)
(***************************************************************************)
RenameInst(dest, r, branch) ==
  /\ Len(DISPATCH) < dispatch_width
  /\ dest => ~stall_reg(1)
  /\ branch => ~stall_branch(1)
  /\ IF dest
       THEN /\ RMT' = [RMT EXCEPT ![r] = FreeList[FL_head]]
            /\ FL_head' = Next1(FL_head, FL_size)
            /\ FL_head_phase' = NextPhase(FL_head, FL_head_phase, FL_size)
       ELSE UNCHANGED <<RMT, FL_head, FL_head_phase>>
  /\ IF branch
       THEN /\ Checkpoints' = [Checkpoints EXCEPT ![FirstFree] =
                 [shadow_RMT |-> RMT', FL_head |-> FL_head',
                  FL_head_phase |-> FL_head_phase', GBM |-> GBM]]
            /\ GBM' = GBM \cup {FirstFree}
       ELSE UNCHANGED <<Checkpoints, GBM>>
  /\ DISPATCH' = Append(DISPATCH,
       [dest_valid |-> dest,
        log_reg  |-> IF dest THEN r ELSE 0,
        phys_reg |-> IF dest THEN FreeList[FL_head] ELSE 0,
        branch_ID |-> IF branch THEN FirstFree ELSE NoBranch,
        branch_mask |-> GBM, completed |-> FALSE, flags |-> {}])
  /\ UNCHANGED <<AMT, FreeList, FL_tail, FL_tail_phase, alVars, PRF_ready>>

(***************************************************************************)
(* Dispatch: dispatch_inst writes the entry at AL_tail; the destination is *)
(* made not ready, or, when its value was predicted, written and ready.    *)
(* An instruction that skips the issue queue (SEL_IQ_NONE) has no          *)
(* destination and no checkpoint and is complete at once, with its         *)
(* exception if decode posted one.                                         *)
(***************************************************************************)
DispatchInst(predicted, skipIQ, flags) ==
  /\ DISPATCH # <<>>
  /\ ~stall_dispatch(1)
  /\ LET x == Head(DISPATCH) IN
       /\ predicted => x.dest_valid
       /\ skipIQ => ~x.dest_valid /\ x.branch_ID = NoBranch
       /\ flags # {} => skipIQ
       /\ ActiveList' = [ActiveList EXCEPT ![AL_tail] =
                           [x EXCEPT !.completed = skipIQ, !.flags = flags]]
       /\ PRF_ready' = IF x.dest_valid
                         THEN [PRF_ready EXCEPT ![x.phys_reg] = predicted]
                         ELSE PRF_ready
  /\ DISPATCH' = Tail(DISPATCH)
  /\ AL_tail' = Next1(AL_tail, n_active)
  /\ AL_tail_phase' = NextPhase(AL_tail, AL_tail_phase, n_active)
  /\ UNCHANGED <<mapVars, flVars, AL_head, AL_head_phase, GBM, Checkpoints>>

(* A lane makes the destination ready (wakeup at Register Read, or the     *)
(* write of a load or of a multi-cycle result).                            *)
SetReady(i) ==
  /\ InFlight(i) /\ ~ActiveList[i].completed
  /\ ActiveList[i].dest_valid
  /\ PRF_ready' = [PRF_ready EXCEPT ![ActiveList[i].phys_reg] = TRUE]
  /\ UNCHANGED <<mapVars, flVars, alVars, GBM, Checkpoints, DISPATCH>>

(* set_exception and set_value_misprediction come from the instruction's   *)
(* own execution; set_load_violation comes from an older store and can hit *)
(* a load that has completed.                                              *)
SetFlag(i, f) ==
  /\ InFlight(i)
  /\ f # "load_viol" => ~ActiveList[i].completed
  /\ ActiveList' = [ActiveList EXCEPT ![i].flags = @ \cup {f}]
  /\ UNCHANGED <<mapVars, flVars, AL_head, AL_tail, AL_head_phase,
                 AL_tail_phase, PRF_ready, GBM, Checkpoints, DISPATCH>>

(* Writeback or load replay of an instruction without a checkpoint.  Its   *)
(* destination is ready by then, except for the instructions executed at   *)
(* the head (late), which write it when they retire.                       *)
SetComplete(i, late) ==
  /\ InFlight(i) /\ ~ActiveList[i].completed
  /\ ActiveList[i].branch_ID = NoBranch
  /\ ActiveList[i].dest_valid /\ ~late => PRF_ready[ActiveList[i].phys_reg]
  /\ ActiveList' = [ActiveList EXCEPT ![i].completed = TRUE]
  /\ UNCHANGED <<mapVars, flVars, AL_head, AL_tail, AL_head_phase,
                 AL_tail_phase, PRF_ready, GBM, Checkpoints, DISPATCH>>

(* A mutant: the bit of a resolved branch is never cleared. *)
ClearBitNever(S, b) == S
ClearBit(S, b) == S \ {b}

(* A mutant: the other checkpoints keep the bit of a resolved branch. *)
ClearedCheckpointsNone(b) == Checkpoints
ClearedCheckpoints(b) ==
  [c \in Branch |-> [Checkpoints[c] EXCEPT !.GBM = ClearBit(@, b)]]

(***************************************************************************)
(* Writeback of a correctly predicted branch: renamer::resolve(true) frees *)
(* the checkpoint, pipeline_t::resolve clears the bit in every branch mask,*)
(* and the branch is set complete.                                         *)
(***************************************************************************)
ResolveCorrect(i) ==
  /\ InFlight(i) /\ Unresolved(ActiveList[i])
  /\ ActiveList[i].dest_valid => PRF_ready[ActiveList[i].phys_reg]
  /\ LET b == ActiveList[i].branch_ID IN
       /\ GBM' = ClearBit(GBM, b)
       /\ Checkpoints' = ClearedCheckpoints(b)
       /\ ActiveList' = [j \in ALIndex |->
            [ActiveList[j] EXCEPT !.branch_mask = ClearBit(@, b),
                                  !.completed = @ \/ j = i]]
       /\ DISPATCH' = [k \in 1..Len(DISPATCH) |->
            [DISPATCH[k] EXCEPT !.branch_mask = ClearBit(@, b)]]
  /\ UNCHANGED <<mapVars, flVars, AL_head, AL_tail, AL_head_phase,
                 AL_tail_phase, PRF_ready>>

(***************************************************************************)
(* Writeback of a mispredicted branch: renamer::resolve(false) restores    *)
(* the map, the free list head and GBM from the checkpoint and moves       *)
(* AL_tail behind the branch, pipeline_t::resolve empties DISPATCH, and    *)
(* the branch is set complete.                                             *)
(***************************************************************************)
RestoredTail(i) == Next1(i, n_active)

(* A mutant: the phase does not flip when the restored tail wraps. *)
RestoredPhaseNoWrap(i) == IF AL_head <= i THEN AL_head_phase ELSE ~AL_head_phase
RestoredPhase(i) ==
  LET ph == IF AL_head <= i THEN AL_head_phase ELSE ~AL_head_phase
  IN  IF RestoredTail(i) = 0 THEN ~ph ELSE ph

(* A mutant: only the branch's own checkpoint is freed. *)
RestoredGBMOwnOnly(b) == ClearBit(GBM, b)
RestoredGBM(b) == ClearBit(Checkpoints[b].GBM, b)

(* A mutant: the map is not restored. *)
RestoredMapNone(b) == RMT
RestoredMap(b) == Checkpoints[b].shadow_RMT

ResolveMispredict(i) ==
  /\ InFlight(i) /\ Unresolved(ActiveList[i])
  /\ ActiveList[i].dest_valid => PRF_ready[ActiveList[i].phys_reg]
  /\ LET b == ActiveList[i].branch_ID IN
       /\ GBM' = RestoredGBM(b)
       /\ RMT' = RestoredMap(b)
       /\ FL_head' = Checkpoints[b].FL_head
       /\ FL_head_phase' = Checkpoints[b].FL_head_phase
       /\ AL_tail' = RestoredTail(i)
       /\ AL_tail_phase' = RestoredPhase(i)
       /\ ActiveList' = [ActiveList EXCEPT ![i].completed = TRUE]
  /\ DISPATCH' = <<>>
  /\ UNCHANGED <<AMT, FreeList, FL_tail, FL_tail_phase, AL_head,
                 AL_head_phase, PRF_ready, Checkpoints>>

-----------------------------------------------------------------------------
Recover(x) == x.flags \cap {"br_misp", "val_misp"} # {}
Refetch(x) == x.flags \cap {"exception", "load_viol"} # {}

HeadCompleted == ALCount > 0 /\ ActiveList[AL_head].completed

(* What committing x does to AMT and the free list slot at FL_tail; the    *)
(* mutant frees the register that x just wrote.                            *)
CommittedMap(x) ==
  IF x.dest_valid THEN [AMT EXCEPT ![x.log_reg] = x.phys_reg] ELSE AMT
FreedListNew(x) ==
  IF x.dest_valid THEN [FreeList EXCEPT ![FL_tail] = x.phys_reg] ELSE FreeList
FreedList(x) ==
  IF x.dest_valid THEN [FreeList EXCEPT ![FL_tail] = AMT[x.log_reg]]
                  ELSE FreeList

(* renamer::commit, after the late write of amo, csr and sc instructions. *)
commit ==
  LET x == ActiveList[AL_head] IN
  /\ AMT' = CommittedMap(x)
  /\ FreeList' = FreedList(x)
  /\ IF x.dest_valid
      THEN /\ FL_tail' = Next1(FL_tail, FL_size)
           /\ FL_tail_phase' = NextPhase(FL_tail, FL_tail_phase, FL_size)
           /\ PRF_ready' = [PRF_ready EXCEPT ![x.phys_reg] = TRUE]
      ELSE UNCHANGED <<FL_tail, FL_tail_phase, PRF_ready>>

RetireCommit ==
  /\ HeadCompleted
  /\ ~Refetch(ActiveList[AL_head]) /\ ~Recover(ActiveList[AL_head])
  /\ commit
  /\ AL_head' = Next1(AL_head, n_active)
  /\ AL_head_phase' = NextPhase(AL_head, AL_head_phase, n_active)
  /\ UNCHANGED <<RMT, FL_head, FL_head_phase, ActiveList, AL_tail,
                 AL_tail_phase, GBM, Checkpoints, DISPATCH>>

(* The free list squash() rebuilds: the registers amt does not map, in     *)
(* ascending order; FL_tail counts them and wraps when the list is full.   *)
Unmapped(amt)     == {p \in PhysReg : \A r \in LogReg : amt[r] # p}
Rank(p, S)        == Cardinality({q \in S : q < p})
Rebuilt(amt, old) ==
  [s \in FLSlot |->
     IF s < Cardinality(Unmapped(amt))
       THEN CHOOSE p \in Unmapped(amt) : Rank(p, Unmapped(amt)) = s
       ELSE old[s]]

(* renamer::squash for committed map amt and free list fl, and             *)
(* pipeline_t::squash_complete emptying DISPATCH.                          *)
squash(amt, fl) ==
  /\ AMT' = amt
  /\ RMT' = amt
  /\ FreeList' = Rebuilt(amt, fl)
  /\ FL_head' = 0 /\ FL_head_phase' = FALSE
  /\ FL_tail' = IF Cardinality(Unmapped(amt)) = FL_size
                  THEN 0 ELSE Cardinality(Unmapped(amt))
  /\ FL_tail_phase' = (Cardinality(Unmapped(amt)) = FL_size)
  /\ AL_head' = 0 /\ AL_tail' = 0
  /\ AL_head_phase' = FALSE /\ AL_tail_phase' = FALSE
  /\ GBM' = {}
  /\ PRF_ready' = [p \in PhysReg |-> TRUE]
  /\ DISPATCH' = <<>>
  /\ UNCHANGED <<ActiveList, Checkpoints>>

(* Exception or load violation: squash with the head, nothing commits. *)
RetireSquash ==
  /\ HeadCompleted
  /\ Refetch(ActiveList[AL_head])
  /\ squash(AMT, FreeList)

(* Value or branch misprediction: commit the head, then squash the rest. *)
RetireCommitSquash ==
  /\ HeadCompleted
  /\ ~Refetch(ActiveList[AL_head]) /\ Recover(ActiveList[AL_head])
  /\ squash(CommittedMap(ActiveList[AL_head]), FreedList(ActiveList[AL_head]))

Retire == RetireCommit \/ RetireSquash \/ RetireCommitSquash

Next ==
  \/ \E dest, branch \in BOOLEAN, r \in LogReg : RenameInst(dest, r, branch)
  \/ \E predicted, skipIQ \in BOOLEAN, flags \in SUBSET (Flag \cap {"exception"}) :
       DispatchInst(predicted, skipIQ, flags)
  \/ \E i \in ALIndex : SetReady(i)
  \/ \E i \in ALIndex, f \in Flag : SetFlag(i, f)
  \/ \E i \in ALIndex, late \in BOOLEAN : SetComplete(i, late)
  \/ \E i \in ALIndex : ResolveCorrect(i)
  \/ \E i \in ALIndex : ResolveMispredict(i)
  \/ RetireCommit
  \/ RetireSquash
  \/ RetireCommitSquash

Spec == Init /\ [][Next]_vars

-----------------------------------------------------------------------------
(* Properties.                                                             *)

(* Every field ranges over the code's arrays, and each circular buffer is  *)
(* in one of the states its phase bits can tell apart (Ring).              *)
TypeOK ==
  /\ RMT \in [LogReg -> PhysReg]
  /\ AMT \in [LogReg -> PhysReg]
  /\ FreeList \in [FLSlot -> PhysReg]
  /\ FL_head \in FLSlot /\ FL_tail \in FLSlot
  /\ FL_head_phase \in BOOLEAN /\ FL_tail_phase \in BOOLEAN
  /\ RingOK(FL_head, FL_head_phase, FL_tail, FL_tail_phase)
  /\ ActiveList \in [ALIndex -> Inst]
  /\ AL_head \in ALIndex /\ AL_tail \in ALIndex
  /\ AL_head_phase \in BOOLEAN /\ AL_tail_phase \in BOOLEAN
  /\ RingOK(AL_head, AL_head_phase, AL_tail, AL_tail_phase)
  /\ PRF_ready \in [PhysReg -> BOOLEAN]
  /\ GBM \in SUBSET Branch
  /\ Checkpoints \in [Branch -> Checkpoint]
  /\ DISPATCH \in Seq(Inst)

(* Slots of the free list that hold free registers, from FL_head on. *)
FLDist(s) == Distance(s, FL_head, FL_size)
FreeSlots == {s \in FLSlot : FLDist(s) < FreeRegs}
FreeSet   == {FreeList[s] : s \in FreeSlots}
WritersIn(w) == {k \in DOMAIN w : w[k].dest_valid}
Inflight     == LET w == Window IN {w[k].phys_reg : k \in WritersIn(w)}
Committed == {AMT[r] : r \in LogReg}

(***************************************************************************)
(* Every physical register is in exactly one place: mapped by AMT, on the  *)
(* free list, or the destination of one in-flight instruction.  No         *)
(* sequence of renames, commits, branch recoveries and squashes loses a    *)
(* register or hands it out twice (renamer.cc rename_rdst, commit,         *)
(* resolve, squash).                                                       *)
(***************************************************************************)
RegisterPartition ==
  /\ FreeSet \cup Inflight \cup Committed = PhysReg
  /\ FreeSet \cap Inflight = {}
  /\ FreeSet \cap Committed = {}
  /\ Inflight \cap Committed = {}
  /\ \A s, t \in FreeSlots : FreeList[s] = FreeList[t] => s = t
  /\ LET w == Window IN
       \A k, l \in WritersIn(w) : w[k].phys_reg = w[l].phys_reg => k = l
  /\ \A r, q \in LogReg : AMT[r] = AMT[q] => r = q

(* Writers of r among the n oldest instructions, and the map after them. *)
WritersOf(w, r, n) == {k \in WritersIn(w) : k <= n /\ w[k].log_reg = r}
MapAfter(w, n) ==
  [r \in LogReg |->
     LET W == WritersOf(w, r, n)
     IN  IF W = {} THEN AMT[r]
         ELSE w[CHOOSE k \in W : \A l \in W : l <= k].phys_reg]

UnresolvedBefore(w, n) ==
  {w[k].branch_ID : k \in {j \in DOMAIN w : j < n /\ Unresolved(w[j])}}

(***************************************************************************)
(* What a checkpoint restores is what the machine was after the branch:    *)
(* the map of the committed state and the instructions up to the branch,   *)
(* the registers allocated since then free again, and exactly the older    *)
(* branches that are still unresolved (renamer.cc checkpoint, resolve);    *)
(* commits between the checkpoint and the recovery change none of it.      *)
(***************************************************************************)
CheckpointsRestore ==
  LET w == Window IN
  \A k \in DOMAIN w : Unresolved(w[k]) =>
    LET c == Checkpoints[w[k].branch_ID] IN
      /\ c.shadow_RMT = MapAfter(w, k)
      /\ Occupancy(c.FL_head, c.FL_head_phase, FL_tail, FL_tail_phase, FL_size)
           = FreeRegs + Cardinality({l \in WritersIn(w) : l > k})
      /\ c.GBM = UnresolvedBefore(w, k)

(***************************************************************************)
(* Selective squash is exact: an instruction that has not completed has    *)
(* in its branch mask the unresolved branches before it in program order   *)
(* and no other bit, no two unresolved branches share a checkpoint, and    *)
(* GBM is the set of them (rename.cc:192, squash.cc resolve).              *)
(***************************************************************************)
BranchMaskExact ==
  LET w == Window IN
  /\ GBM = UnresolvedBefore(w, Len(w) + 1)
  /\ \A k \in DOMAIN w :
       ~w[k].completed => w[k].branch_mask = UnresolvedBefore(w, k)
  /\ \A k \in DOMAIN w : Unresolved(w[k]) =>
       w[k].branch_ID \notin UnresolvedBefore(w, k)

(***************************************************************************)
(* Nobody waits for a register that nobody will write: a register that the *)
(* speculative map names and that is not ready is the destination of an    *)
(* instruction in flight (the bits of squashed instructions' registers and *)
(* of late-written amo, csr and sc destinations included).                 *)
(***************************************************************************)
NoOrphanWait ==
  \A r \in LogReg : ~PRF_ready[RMT[r]] => RMT[r] \in Inflight

(***************************************************************************)
(* The renamer implements precise renaming: RenameSpec over the committed  *)
(* map, the window, the speculative map and the set of free registers.     *)
(***************************************************************************)
AbstractWindow ==
  LET w == Window IN
  [k \in DOMAIN w |->
     [dest_valid |-> w[k].dest_valid, log_reg |-> w[k].log_reg,
      phys_reg |-> w[k].phys_reg, open |-> Unresolved(w[k])]]

Precise == INSTANCE RenameSpec WITH
  committed <- AMT, window <- AbstractWindow, map <- RMT, free <- FreeSet

ImplementsPrecise == Precise!Spec

(***************************************************************************)
(* The cycle loop of pipeline.cc calls retire, the lanes and dispatch in   *)
(* every cycle; fetch, and so rename, may stop.  An instruction that is    *)
(* not squashed reaches its writeback, as the lanes are free-flowing.      *)
(***************************************************************************)
Writeback(i) ==
  \/ SetComplete(i, TRUE)
  \/ ResolveCorrect(i)
  \/ ResolveMispredict(i)

Fairness ==
  /\ WF_vars(DispatchInst(FALSE, FALSE, {}))
  /\ \A i \in ALIndex : WF_vars(SetReady(i))
  /\ \A i \in ALIndex : WF_vars(Writeback(i))
  /\ WF_vars(Retire)

FairSpec == Spec /\ Fairness

(* A rename stall for want of a physical register or of a checkpoint ends: *)
(* what is in flight drains and frees them (rename.cc:123).                *)
RenameStallEnds ==
  /\ stall_reg(1) ~> ~stall_reg(1)
  /\ stall_branch(1) ~> ~stall_branch(1)

=============================================================================
