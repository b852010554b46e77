---------------------------- MODULE RenamerProofs ----------------------------
(***************************************************************************)
(* The renamer for every number of registers, checkpoints and active list  *)
(* entries: each action keeps TypeOK; IInv (RenamerInv) is inductive, one  *)
(* lemma per action; and it implies that every physical register is in     *)
(* exactly one place.  RInv (RenamerInv) adds the branch masks, the maps   *)
(* and the ready bits: it is inductive too, and it implies that a          *)
(* checkpoint restores the machine as it was after its branch, that        *)
(* selective squash is exact and that nobody waits for a register nobody   *)
(* will write.  With it the renamer implements precise renaming, step by   *)
(* step.                                                                   *)
(***************************************************************************)
EXTENDS RenamerInv, RingProofs, FiniteSetTheorems, SequenceTheorems

-----------------------------------------------------------------------------
(* Facts about finite sets of naturals: GBM's clear bits, squash's list.   *)

(* In a finite set of naturals the ranks are 0, 1, 2 ... without gaps.     *)
LEMMA RankBijection ==
  ASSUME NEW S \in SUBSET Nat, IsFiniteSet(S)
  PROVE  /\ \A p \in S : Rank(p, S) \in 0..(Cardinality(S) - 1)
         /\ \A p, q \in S : Rank(p, S) = Rank(q, S) => p = q
         /\ \A n \in 0..(Cardinality(S) - 1) : \E p \in S : Rank(p, S) = n
<1> DEFINE Below(p) == {q \in S : q < p}
           f == [p \in S |-> Rank(p, S)]
           T == 0..(Cardinality(S) - 1)
<1>0. Cardinality(S) \in Nat
  BY FS_CardinalityType
<1>1. ASSUME NEW p \in S, NEW q \in S, p < q
      PROVE  Rank(p, S) < Rank(q, S)
  <2>1. Below(q) \in SUBSET S
    OBVIOUS
  <2>6. \A r \in S : r < p => r < q
    BY <1>1
  <2>7. Below(p) \in SUBSET Below(q)
    BY <2>6
  <2>5. IsFiniteSet(Below(q))
    BY <2>1, FS_Subset
  <2>2. p \in Below(q) /\ p \notin Below(p)
    BY <1>1
  <2>3. /\ Cardinality(Below(p)) <= Cardinality(Below(q))
        /\ Cardinality(Below(p)) # Cardinality(Below(q))
        /\ IsFiniteSet(Below(p))
    BY <2>2, <2>5, <2>7, FS_Subset
  <2>4. Cardinality(Below(p)) \in Nat /\ Cardinality(Below(q)) \in Nat
    BY <2>5, <2>3, FS_CardinalityType
  <2> QED  BY <2>3, <2>4 DEF Rank
<1>2. ASSUME NEW p \in S
      PROVE  Rank(p, S) \in T
  <2>1. Below(p) \in SUBSET S /\ p \notin Below(p)
    OBVIOUS
  <2>2. /\ IsFiniteSet(Below(p))
        /\ Cardinality(Below(p)) <= Cardinality(S)
        /\ Cardinality(Below(p)) # Cardinality(S)
    BY <2>1, FS_Subset
  <2>3. Cardinality(Below(p)) \in Nat
    BY <2>2, FS_CardinalityType
  <2> QED  BY <2>2, <2>3, <1>0 DEF Rank
<1>3. ASSUME NEW p \in S, NEW q \in S, Rank(p, S) = Rank(q, S)
      PROVE  p = q
  <2>1. p < q \/ q < p \/ p = q
    OBVIOUS
  <2>2. Rank(p, S) \in T /\ Rank(q, S) \in T
    BY <1>2
  <2>3. T \subseteq Int
    BY <1>0
  <2> QED  BY <1>1, <1>3, <2>1, <2>2, <2>3
<1>4. f \in Injection(S, T)
  BY <1>2, <1>3 DEF Injection, IsInjective
<1>5. IsFiniteSet(T) /\ Cardinality(T) = Cardinality(S)
  <2>1. /\ IsFiniteSet(T)
        /\ Cardinality(T) = IF 0 > Cardinality(S) - 1 THEN 0
                            ELSE (Cardinality(S) - 1) - 0 + 1
    BY <1>0, FS_Interval
  <2> QED  BY <2>1, <1>0
<1>6. f \in Surjection(S, T)
  BY <1>4, <1>5, FS_Injection
<1>7. \A n \in T : \E p \in S : Rank(p, S) = n
  BY <1>6 DEF Surjection
<1> QED  BY <1>2, <1>3, <1>7

(* A nonempty finite set of naturals has a least element. *)
LEMMA LeastExists ==
  ASSUME NEW S \in SUBSET Nat, IsFiniteSet(S), S # {}
  PROVE  \E p \in S : \A q \in S : p <= q
<1>1. Cardinality(S) \in Nat /\ Cardinality(S) # 0
  BY FS_CardinalityType, FS_EmptySet
<1>2. PICK p \in S : Rank(p, S) = 0
  BY <1>1, RankBijection
<1>3. {q \in S : q < p} \in SUBSET S
  OBVIOUS
<1>4. IsFiniteSet({q \in S : q < p})
  BY <1>3, FS_Subset
<1>5. {q \in S : q < p} = {}
  BY <1>2, <1>4, FS_EmptySet DEF Rank
<1>6. \A q \in S : p <= q
  BY <1>5
<1> QED  BY <1>6

-----------------------------------------------------------------------------
(* Consequences of the type invariant used throughout. *)

(* The sets the constants span, from the constructor's assertions. *)
LEMMA Constants ==
  /\ FL_size \in Nat \ {0} /\ n_active \in Nat \ {0}
  /\ n_log_regs \in Nat \ {0} /\ n_phys_regs \in Nat
  /\ 0 \in LogReg /\ 0 \in PhysReg /\ 0 \in FLSlot /\ 0 \in ALIndex
  /\ Branch \in SUBSET Nat /\ IsFiniteSet(Branch)
  /\ NoBranch \notin Branch
<1>1. /\ n_log_regs \in Nat \ {0} /\ n_phys_regs \in Nat
      /\ n_phys_regs > n_log_regs /\ n_branches \in 1..64
      /\ n_active \in Nat \ {0}
  BY RenamerAssumption DEF RenamerAssumption
<1>2. IsFiniteSet(Branch)
  BY <1>1, FS_Interval DEF Branch
<1> QED  BY <1>1, <1>2 DEF FL_size, LogReg, PhysReg, FLSlot, ALIndex, Branch, NoBranch

(* The occupancies of the two lists are in range. *)
LEMMA Occupancies ==
  ASSUME TypeOK
  PROVE  /\ FreeRegs \in 0..FL_size /\ ALCount \in 0..n_active
         /\ Allocated \in 0..FL_size
         /\ Len(DISPATCH) \in Nat /\ Size \in Nat
         /\ DISPATCH \in [1..Len(DISPATCH) -> Inst]
<1>1. FreeRegs \in 0..FL_size
  BY Constants, OccupancyRange DEF TypeOK, FreeRegs, FLSlot
<1>2. ALCount \in 0..n_active
  BY Constants, OccupancyRange DEF TypeOK, ALCount, ALIndex
<1>3. Len(DISPATCH) \in Nat /\ DISPATCH \in [1..Len(DISPATCH) -> Inst]
  BY LenProperties DEF TypeOK
<1> QED  BY <1>1, <1>2, <1>3, Constants DEF Allocated, Size

(* The ages of the active list's entries and the entries at an age. *)
LEMMA Ages ==
  ASSUME TypeOK
  PROVE  /\ \A i \in ALIndex : Age(i) \in 0..(n_active - 1) /\ AtAge(Age(i)) = i
         /\ \A d \in 0..(n_active - 1) : AtAge(d) \in ALIndex /\ Age(AtAge(d)) = d
<1>1. AL_head \in 0..(n_active - 1)
  BY DEF TypeOK, ALIndex
<1> QED  BY <1>1, Constants, DistanceAhead DEF Age, AtAge, ALIndex

(* The elements of the window. *)
LEMMA WindowValues ==
  ASSUME TypeOK, NEW k \in 1..Size
  PROVE  /\ Window[k] = IF k <= ALCount THEN ActiveList[AtAge(k - 1)]
                                        ELSE DISPATCH[k - ALCount]
         /\ Window[k] \in Inst
         /\ k <= ALCount => AtAge(k - 1) \in ALIndex
<1>1. Window[k] = IF k <= ALCount THEN ActiveList[AtAge(k - 1)]
                                  ELSE DISPATCH[k - ALCount]
  BY DEF Window, Size
<1>2. k <= ALCount => AtAge(k - 1) \in ALIndex
  BY Occupancies, Ages, Constants
<1>3. k > ALCount => k - ALCount \in 1..Len(DISPATCH)
  BY Occupancies DEF Size
<1> QED  BY <1>1, <1>2, <1>3, Occupancies DEF TypeOK

(* The fields of an active list entry. *)
LEMMA InstFields ==
  ASSUME NEW x \in Inst
  PROVE  /\ x.dest_valid \in BOOLEAN /\ x.log_reg \in LogReg
         /\ x.phys_reg \in PhysReg /\ x.branch_ID \in Branch \cup {NoBranch}
         /\ x.branch_mask \in SUBSET Branch
         /\ x.completed \in BOOLEAN /\ x.flags \in SUBSET Flag
BY RenamerAssumption DEF Inst, RenamerAssumption, Branch, NoBranch

(* The branch ID of an unresolved branch names a checkpoint. *)
LEMMA UnresolvedID ==
  ASSUME NEW x \in Inst, Unresolved(x)
  PROVE  x.branch_ID \in Branch
BY InstFields DEF Unresolved

(* checkpoint() finds a clear bit when stall_branch(1) is false. *)
LEMMA FirstFreeIsFree ==
  ASSUME TypeOK, ~stall_branch(1)
  PROVE  FirstFree \in Branch \ GBM
<1>1. Branch \ GBM \in SUBSET Branch
  OBVIOUS
<1>2. IsFiniteSet(Branch \ GBM)
  BY <1>1, Constants, FS_Subset
<1>3. Cardinality(Branch \ GBM) # 0
  BY DEF stall_branch
<1>4. Branch \ GBM # {}
  BY <1>2, <1>3, FS_EmptySet
<1>5. \E b \in Branch \ GBM : \A c \in Branch \ GBM : b <= c
  <2>1. Branch \ GBM \in SUBSET Nat
    BY Constants
  <2> QED  BY <2>1, <1>2, <1>4, LeastExists
<1> QED  BY <1>5 DEF FirstFree

-----------------------------------------------------------------------------
(* Type correctness, one lemma per action. *)

(* The constructor sets up a well-typed machine. *)
LEMMA InitType ==
  ASSUME Init
  PROVE  TypeOK
<1>1. /\ RMT \in [LogReg -> PhysReg] /\ AMT \in [LogReg -> PhysReg]
      /\ FreeList \in [FLSlot -> PhysReg]
  BY RenamerAssumption DEF Init, RenamerAssumption, LogReg, PhysReg, FLSlot, FL_size
<1>2. /\ FL_head \in FLSlot /\ FL_tail \in FLSlot
      /\ FL_head_phase \in BOOLEAN /\ FL_tail_phase \in BOOLEAN
      /\ RingOK(FL_head, FL_head_phase, FL_tail, FL_tail_phase)
  <2>1. /\ FL_head = 0 /\ FL_tail = 0
        /\ FL_head_phase = FALSE /\ FL_tail_phase = TRUE
    BY DEF Init
  <2>2. 0 <= 0
    OBVIOUS
  <2> QED  BY <2>1, <2>2, Constants, Zenon DEF RingOK
<1>3. /\ AL_head \in ALIndex /\ AL_tail \in ALIndex
      /\ AL_head_phase \in BOOLEAN /\ AL_tail_phase \in BOOLEAN
      /\ RingOK(AL_head, AL_head_phase, AL_tail, AL_tail_phase)
  <2>1. /\ AL_head = 0 /\ AL_tail = 0
        /\ AL_head_phase = FALSE /\ AL_tail_phase = FALSE
    BY DEF Init
  <2>2. 0 <= 0
    OBVIOUS
  <2> QED  BY <2>1, <2>2, Constants, Zenon DEF RingOK
<1>4. ActiveList \in [ALIndex -> Inst]
  <2>1. [dest_valid |-> FALSE, log_reg |-> 0, phys_reg |-> 0,
         branch_ID |-> NoBranch, branch_mask |-> {},
         completed |-> FALSE, flags |-> {}] \in Inst
    BY Constants, RenamerAssumption DEF Inst, NoBranch, RenamerAssumption
  <2> QED  BY <2>1 DEF Init
<1>5. Checkpoints \in [Branch -> Checkpoint]
  <2>1. [shadow_RMT |-> [r \in LogReg |-> 0], FL_head |-> 0,
         FL_head_phase |-> FALSE, GBM |-> {}] \in Checkpoint
    BY Constants DEF Checkpoint
  <2> QED  BY <2>1 DEF Init
<1>6. PRF_ready \in [PhysReg -> BOOLEAN] /\ GBM \in SUBSET Branch /\ DISPATCH \in Seq(Inst)
  BY DEF Init
<1> QED  BY <1>1, <1>2, <1>3, <1>4, <1>5, <1>6 DEF TypeOK

(* The advance of FL_head that a destination causes. *)
LEMMA RenameFLHead ==
  ASSUME TypeOK, NEW dest \in BOOLEAN, NEW r \in LogReg, NEW branch \in BOOLEAN,
         RenameInst(dest, r, branch)
  PROVE  /\ RMT' \in [LogReg -> PhysReg]
         /\ FL_head' \in FLSlot /\ FL_head_phase' \in BOOLEAN
         /\ RingOK(FL_head', FL_head_phase', FL_tail, FL_tail_phase)
         /\ FreeRegs' = IF dest THEN FreeRegs - 1 ELSE FreeRegs
<1>1. CASE dest
  <2>1. FreeRegs > 0
    BY <1>1, Occupancies DEF RenameInst, stall_reg
  <2>2. /\ FL_head' = Next1(FL_head, FL_size)
        /\ FL_head_phase' = NextPhase(FL_head, FL_head_phase, FL_size)
        /\ FL_tail' = FL_tail /\ FL_tail_phase' = FL_tail_phase
        /\ RMT' = [RMT EXCEPT ![r] = FreeList[FL_head]]
    BY <1>1 DEF RenameInst
  <2>3. /\ FL_head \in 0..(FL_size - 1) /\ FL_tail \in 0..(FL_size - 1)
        /\ FL_head_phase \in BOOLEAN /\ FL_tail_phase \in BOOLEAN
        /\ RingOK(FL_head, FL_head_phase, FL_tail, FL_tail_phase)
        /\ FreeList[FL_head] \in PhysReg
    BY DEF TypeOK, FLSlot
  <2>4. FL_head' \in FLSlot /\ FL_head_phase' \in BOOLEAN
    BY <2>2, <2>3, Constants, AdvanceType DEF FLSlot
  <2>5. /\ RingOK(FL_head', FL_head_phase', FL_tail, FL_tail_phase)
        /\ FreeRegs' = FreeRegs - 1
    BY <2>1, <2>2, <2>3, Constants, AdvanceHead DEF FreeRegs
  <2> QED  BY <1>1, <2>2, <2>3, <2>4, <2>5 DEF TypeOK
<1>2. CASE ~dest
  <2>1. /\ RMT' = RMT /\ FL_head' = FL_head /\ FL_head_phase' = FL_head_phase
        /\ FL_tail' = FL_tail /\ FL_tail_phase' = FL_tail_phase
    BY <1>2 DEF RenameInst
  <2> QED  BY <1>2, <2>1 DEF TypeOK, FreeRegs
<1> QED  BY <1>1, <1>2

(* The record that rename adds to DISPATCH. *)
Renamed(dest, r, branch) ==
  [dest_valid |-> dest,
   log_reg  |-> IF dest THEN r ELSE 0,
   phys_reg |-> IF dest THEN FreeList[FL_head] ELSE 0,
   branch_ID |-> IF branch THEN FirstFree ELSE NoBranch,
   branch_mask |-> GBM, completed |-> FALSE, flags |-> {}]

(* Renaming appends one well-typed instruction to DISPATCH. *)
LEMMA RenameType ==
  ASSUME TypeOK, NEW dest \in BOOLEAN, NEW r \in LogReg, NEW branch \in BOOLEAN,
         RenameInst(dest, r, branch)
  PROVE  /\ TypeOK' /\ Renamed(dest, r, branch) \in Inst
         /\ DISPATCH' = Append(DISPATCH, Renamed(dest, r, branch))
<1>1. branch => FirstFree \in Branch
  BY FirstFreeIsFree DEF RenameInst
<1>2. Renamed(dest, r, branch) \in Inst
  <2>1. /\ (IF dest THEN r ELSE 0) \in LogReg
        /\ (IF dest THEN FreeList[FL_head] ELSE 0) \in PhysReg
    BY Constants DEF TypeOK
  <2>2. (IF branch THEN FirstFree ELSE NoBranch) \in 0..n_branches
    BY <1>1, RenamerAssumption DEF NoBranch, Branch, RenamerAssumption
  <2>3. GBM \in SUBSET Branch
    BY DEF TypeOK
  <2> QED  BY <2>1, <2>2, <2>3 DEF Inst, Renamed
<1>3. DISPATCH' = Append(DISPATCH, Renamed(dest, r, branch))
  BY DEF RenameInst, Renamed
<1>4. DISPATCH' \in Seq(Inst)
  BY <1>2, <1>3, AppendProperties DEF TypeOK
<1>5. Checkpoints' \in [Branch -> Checkpoint] /\ GBM' \in SUBSET Branch
  <2>1. CASE branch
    <3>1. [shadow_RMT |-> RMT', FL_head |-> FL_head',
           FL_head_phase |-> FL_head_phase', GBM |-> GBM] \in Checkpoint
      BY RenameFLHead DEF Checkpoint, TypeOK
    <3>2. /\ Checkpoints' = [Checkpoints EXCEPT ![FirstFree] =
               [shadow_RMT |-> RMT', FL_head |-> FL_head',
                FL_head_phase |-> FL_head_phase', GBM |-> GBM]]
          /\ GBM' = GBM \cup {FirstFree}
      BY <2>1 DEF RenameInst
    <3> QED  BY <3>1, <3>2, <2>1, <1>1 DEF TypeOK
  <2>2. CASE ~branch
    BY <2>2 DEF RenameInst, TypeOK
  <2> QED  BY <2>1, <2>2
<1>6. UNCHANGED <<AMT, FreeList, FL_tail, FL_tail_phase, alVars, PRF_ready>>
  BY DEF RenameInst
<1> QED  BY <1>2, <1>3, <1>4, <1>5, <1>6, RenameFLHead DEF TypeOK, alVars

(* Dispatch fills the entry at the active list tail and counts it. *)
LEMMA DispatchType ==
  ASSUME TypeOK, NEW predicted \in BOOLEAN, NEW skipIQ \in BOOLEAN,
         NEW flags \in SUBSET Flag, DispatchInst(predicted, skipIQ, flags)
  PROVE  /\ TypeOK'
         /\ ALCount' = ALCount + 1 /\ ALCount < n_active
         /\ AtAge(ALCount) = AL_tail
<1>1. DISPATCH # <<>> /\ ALCount < n_active
  BY Occupancies, Constants DEF DispatchInst, stall_dispatch
<1>2. Head(DISPATCH) \in Inst /\ DISPATCH' \in Seq(Inst)
  BY <1>1, HeadTailProperties DEF DispatchInst, TypeOK
<1>3. ActiveList' \in [ALIndex -> Inst] /\ PRF_ready' \in [PhysReg -> BOOLEAN]
  BY <1>2 DEF DispatchInst, TypeOK, Inst
<1>4. /\ AL_tail' = Next1(AL_tail, n_active)
      /\ AL_tail_phase' = NextPhase(AL_tail, AL_tail_phase, n_active)
      /\ AL_head' = AL_head /\ AL_head_phase' = AL_head_phase
  BY DEF DispatchInst
<1>5. /\ AL_head \in 0..(n_active - 1) /\ AL_tail \in 0..(n_active - 1)
      /\ AL_head_phase \in BOOLEAN /\ AL_tail_phase \in BOOLEAN
      /\ RingOK(AL_head, AL_head_phase, AL_tail, AL_tail_phase)
  BY DEF TypeOK, ALIndex
<1>6. AL_tail' \in ALIndex /\ AL_tail_phase' \in BOOLEAN
  BY <1>4, <1>5, Constants, AdvanceType DEF ALIndex
<1>7. /\ RingOK(AL_head', AL_head_phase', AL_tail', AL_tail_phase')
      /\ ALCount' = ALCount + 1
  BY <1>1, <1>4, <1>5, Constants, AdvanceTail DEF ALCount
<1>8. AtAge(ALCount) = AL_tail
  BY <1>1, <1>5, Constants, EndsFromTail DEF ALCount, AtAge
<1>9. UNCHANGED <<mapVars, flVars, GBM, Checkpoints>>
  BY DEF DispatchInst
<1>10. TypeOK'
  BY <1>2, <1>3, <1>4, <1>6, <1>7, <1>9 DEF TypeOK, mapVars, flVars
<1> QED  BY <1>1, <1>7, <1>8, <1>10

(* Completing an entry and clearing mask bits keep its type. *)
LEMMA CompletedType ==
  ASSUME NEW x \in Inst, NEW c \in BOOLEAN, NEW m \in SUBSET Branch
  PROVE  /\ [x EXCEPT !.completed = c] \in Inst
         /\ [x EXCEPT !.branch_mask = m, !.completed = c] \in Inst
BY DEF Inst

(* A flag, a completion or a ready bit changes one field of one entry. *)
LEMMA SetReadyType ==
  ASSUME TypeOK, NEW i \in ALIndex, SetReady(i)
  PROVE  TypeOK'
<1>1. ActiveList[i].phys_reg \in PhysReg
  BY InstFields DEF TypeOK
<1> QED  BY <1>1 DEF SetReady, TypeOK, mapVars, flVars, alVars

(* Posting a retire-time flag keeps the types. *)
LEMMA SetFlagType ==
  ASSUME TypeOK, NEW i \in ALIndex, NEW f \in Flag, SetFlag(i, f)
  PROVE  TypeOK'
<1>1. ActiveList' \in [ALIndex -> Inst]
  BY DEF SetFlag, TypeOK, Inst
<1> QED  BY <1>1 DEF SetFlag, TypeOK, mapVars, flVars

(* set_complete keeps the types. *)
LEMMA SetCompleteType ==
  ASSUME TypeOK, NEW i \in ALIndex, NEW late \in BOOLEAN, SetComplete(i, late)
  PROVE  TypeOK'
<1>1. [ActiveList[i] EXCEPT !.completed = TRUE] \in Inst
  BY CompletedType DEF TypeOK
<1>2. ActiveList' = [ActiveList EXCEPT ![i] = [ActiveList[i] EXCEPT !.completed = TRUE]]
  BY DEF SetComplete, TypeOK
<1>3. ActiveList' \in [ALIndex -> Inst]
  BY <1>1, <1>2 DEF TypeOK
<1> QED  BY <1>3 DEF SetComplete, TypeOK, mapVars, flVars

(* resolve(correct) keeps the types. *)
LEMMA ResolveCorrectType ==
  ASSUME TypeOK, NEW i \in ALIndex, ResolveCorrect(i)
  PROVE  TypeOK'
<1> DEFINE b == ActiveList[i].branch_ID
<1>1. /\ GBM' = ClearBit(GBM, b)
      /\ Checkpoints' = ClearedCheckpoints(b)
      /\ ActiveList' = [j \in ALIndex |->
           [ActiveList[j] EXCEPT !.branch_mask = ClearBit(@, b),
                                 !.completed = @ \/ j = i]]
      /\ DISPATCH' = [k \in 1..Len(DISPATCH) |->
           [DISPATCH[k] EXCEPT !.branch_mask = ClearBit(@, b)]]
      /\ UNCHANGED <<mapVars, flVars, AL_head, AL_tail, AL_head_phase,
                     AL_tail_phase, PRF_ready>>
  BY DEF ResolveCorrect
<1>2. GBM' \in SUBSET Branch /\ Checkpoints' \in [Branch -> Checkpoint]
  BY <1>1 DEF TypeOK, ClearBit, ClearedCheckpoints, Checkpoint
<1>3. ActiveList' \in [ALIndex -> Inst]
  <2>1. ASSUME NEW j \in ALIndex
        PROVE  [ActiveList[j] EXCEPT !.branch_mask = ClearBit(@, b),
                                     !.completed = @ \/ j = i] \in Inst
    <3>1. /\ ActiveList[j] \in Inst
          /\ ClearBit(ActiveList[j].branch_mask, b) \in SUBSET Branch
      BY InstFields DEF TypeOK, ClearBit
    <3>2. (ActiveList[j].completed \/ j = i) \in BOOLEAN
      OBVIOUS
    <3> QED  BY <3>1, <3>2, CompletedType
  <2> QED  BY <2>1, <1>1
<1>4. DISPATCH' \in Seq(Inst)
  <2>1. \A k \in 1..Len(DISPATCH) :
          [DISPATCH[k] EXCEPT !.branch_mask = ClearBit(@, b)] \in Inst
    BY Occupancies DEF ClearBit, Inst
  <2>2. DISPATCH' \in [1..Len(DISPATCH) -> Inst]
    BY <2>1, <1>1
  <2> QED  BY <2>2, Occupancies, SeqDef
<1> QED  BY <1>1, <1>2, <1>3, <1>4 DEF TypeOK, mapVars, flVars

(* The entry of an active list index in flight is the one of its age. *)
LEMMA WindowAt ==
  ASSUME TypeOK, NEW i \in ALIndex, InFlight(i)
  PROVE  /\ Age(i) + 1 \in 1..Size /\ Age(i) + 1 <= ALCount
         /\ Window[Age(i) + 1] = ActiveList[i]
<1>1. Age(i) \in Nat /\ Age(i) < ALCount /\ AtAge(Age(i)) = i
  BY Ages, Constants DEF InFlight
<1>2. Age(i) + 1 \in 1..Size /\ Age(i) + 1 <= ALCount /\ (Age(i) + 1) - 1 = Age(i)
  BY <1>1, Occupancies DEF Size
<1> QED  BY <1>1, <1>2, WindowValues

(* The tail that a mispredicted branch restores is the one behind it. *)
LEMMA RestoredRing ==
  ASSUME TypeOK, NEW i \in ALIndex, InFlight(i)
  PROVE  /\ RestoredTail(i) \in ALIndex /\ RestoredPhase(i) \in BOOLEAN
         /\ RingOK(AL_head, AL_head_phase, RestoredTail(i), RestoredPhase(i))
         /\ Occupancy(AL_head, AL_head_phase, RestoredTail(i), RestoredPhase(i),
                      n_active) = Age(i) + 1
<1>1. /\ AL_head \in 0..(n_active - 1) /\ AL_tail \in 0..(n_active - 1)
      /\ AL_head_phase \in BOOLEAN /\ AL_tail_phase \in BOOLEAN
      /\ i \in 0..(n_active - 1)
  BY DEF TypeOK, ALIndex
<1>2. RestoredTail(i) \in ALIndex
  BY <1>1, Constants, AdvanceType DEF RestoredTail, ALIndex
<1>3. RestoredPhase(i) \in BOOLEAN
  BY <1>1, ZenonT(30) DEF RestoredPhase
<1>4. /\ RingOK(AL_head, AL_head_phase, RestoredTail(i), RestoredPhase(i))
      /\ Occupancy(AL_head, AL_head_phase, RestoredTail(i), RestoredPhase(i),
                   n_active) = Age(i) + 1
  <2>1. CASE i + 1 = n_active
    <3>1. RestoredTail(i) = 0
      BY <2>1 DEF RestoredTail, Next1
    <3>2. CASE AL_head <= i
      <4>1. RestoredPhase(i) = ~AL_head_phase
        BY <3>1, <3>2 DEF RestoredPhase
      <4> QED  BY <1>1, <2>1, <3>1, <3>2, <4>1, Constants
                DEF RingOK, Occupancy, Age, Distance
    <3>3. CASE ~(AL_head <= i)
      BY <1>1, <2>1, <3>3, Constants
    <3> QED  BY <3>2, <3>3
  <2>2. CASE i + 1 # n_active
    <3>1. RestoredTail(i) = i + 1 /\ RestoredTail(i) # 0
      BY <1>1, <2>2 DEF RestoredTail, Next1
    <3>2. CASE AL_head <= i
      <4>1. RestoredPhase(i) = AL_head_phase
        BY <3>1, <3>2 DEF RestoredPhase
      <4> QED  BY <1>1, <3>1, <3>2, <4>1, Constants
                DEF RingOK, Occupancy, Age, Distance
    <3>3. CASE ~(AL_head <= i)
      <4>1. RestoredPhase(i) = ~AL_head_phase
        BY <3>1, <3>3 DEF RestoredPhase
      <4> QED  BY <1>1, <2>2, <3>1, <3>3, <4>1, Constants
                DEF RingOK, Occupancy, Age, Distance
    <3> QED  BY <3>2, <3>3
  <2> QED  BY <2>1, <2>2
<1> QED  BY <1>2, <1>3, <1>4

(* resolve(mispredicted) moves the tail right behind the branch: the active*)
(* list then ends with it.                                                 *)
LEMMA MispredictType ==
  ASSUME TypeOK, CheckpointsInOrder, NEW i \in ALIndex, ResolveMispredict(i)
  PROVE  /\ TypeOK' /\ ALCount' = Age(i) + 1
         /\ ActiveList[i].branch_ID \in Branch
<1> DEFINE b == ActiveList[i].branch_ID
<1>1. InFlight(i) /\ Unresolved(ActiveList[i])
  BY DEF ResolveMispredict
<1>2. b \in Branch
  BY <1>1, UnresolvedID DEF TypeOK
<1>3. Checkpoints[b] \in Checkpoint
  BY <1>2 DEF TypeOK
<1>4. RingOK(Checkpoints[b].FL_head, Checkpoints[b].FL_head_phase,
             FL_tail, FL_tail_phase)
  BY <1>1, WindowAt DEF CheckpointsInOrder, CheckpointSplits, CheckpointOf
<1>5. /\ GBM' = ClearBit(Checkpoints[b].GBM, b)
      /\ RMT' = Checkpoints[b].shadow_RMT
      /\ FL_head' = Checkpoints[b].FL_head
      /\ FL_head_phase' = Checkpoints[b].FL_head_phase
      /\ AL_tail' = RestoredTail(i)
      /\ AL_tail_phase' = RestoredPhase(i)
      /\ ActiveList' = [ActiveList EXCEPT ![i] =
                          [ActiveList[i] EXCEPT !.completed = TRUE]]
      /\ DISPATCH' = <<>>
      /\ UNCHANGED <<AMT, FreeList, FL_tail, FL_tail_phase, AL_head,
                     AL_head_phase, PRF_ready, Checkpoints>>
  BY DEF ResolveMispredict, RestoredGBM, RestoredMap, TypeOK
<1>6. ActiveList' \in [ALIndex -> Inst] /\ DISPATCH' \in Seq(Inst)
  <2>1. [ActiveList[i] EXCEPT !.completed = TRUE] \in Inst
    BY CompletedType DEF TypeOK
  <2> QED  BY <1>5, <2>1 DEF TypeOK
<1>7. /\ GBM' \in SUBSET Branch /\ RMT' \in [LogReg -> PhysReg]
      /\ FL_head' \in FLSlot /\ FL_head_phase' \in BOOLEAN
  BY <1>3, <1>5 DEF Checkpoint, ClearBit
<1>8. TypeOK'
  BY <1>1, <1>4, <1>5, <1>6, <1>7, RestoredRing DEF TypeOK
<1>9. ALCount' = Age(i) + 1
  BY <1>1, <1>5, RestoredRing DEF ALCount
<1> QED  BY <1>2, <1>8, <1>9

-----------------------------------------------------------------------------
(* The free list that squash builds from an injective map. *)

InjectiveMap(amt) == \A r, q \in LogReg : amt[r] = amt[q] => r = q

(* An injective committed map leaves exactly FL_size registers for the free*)
(* list that squash rebuilds.                                              *)
LEMMA UnmappedCount ==
  ASSUME NEW amt \in [LogReg -> PhysReg], InjectiveMap(amt)
  PROVE  /\ IsFiniteSet(Unmapped(amt)) /\ Cardinality(Unmapped(amt)) = FL_size
         /\ Unmapped(amt) \in SUBSET Nat
<1> DEFINE Mapped == {amt[r] : r \in LogReg}
<1>1. /\ n_log_regs \in Nat \ {0} /\ n_phys_regs \in Nat
  BY Constants
<1>2. IsFiniteSet(LogReg) /\ Cardinality(LogReg) = n_log_regs
  <2>1. /\ IsFiniteSet(0..(n_log_regs - 1))
        /\ Cardinality(0..(n_log_regs - 1)) =
             IF 0 > n_log_regs - 1 THEN 0 ELSE (n_log_regs - 1) - 0 + 1
    BY <1>1, FS_Interval
  <2> QED  BY <1>1, <2>1 DEF LogReg
<1>3. IsFiniteSet(PhysReg) /\ Cardinality(PhysReg) = n_phys_regs
  <2>1. /\ IsFiniteSet(0..(n_phys_regs - 1))
        /\ Cardinality(0..(n_phys_regs - 1)) =
             IF 0 > n_phys_regs - 1 THEN 0 ELSE (n_phys_regs - 1) - 0 + 1
    BY <1>1, FS_Interval
  <2> QED  BY <1>1, <2>1 DEF PhysReg
<1>4. IsFiniteSet(Mapped) /\ Cardinality(Mapped) = n_log_regs
  <2>1. amt \in Injection(LogReg, Mapped)
    BY DEF InjectiveMap, Injection, IsInjective
  <2>2. amt \in Surjection(LogReg, Mapped)
    BY DEF Surjection
  <2> QED  BY <1>2, <2>1, <2>2, FS_Surjection
<1>5. Unmapped(amt) = PhysReg \ Mapped /\ PhysReg \cap Mapped = Mapped
  BY DEF Unmapped
<1>6. /\ IsFiniteSet(PhysReg \ Mapped)
      /\ Cardinality(PhysReg \ Mapped) = Cardinality(PhysReg) - Cardinality(PhysReg \cap Mapped)
  BY <1>3, FS_Difference
<1>7. Unmapped(amt) \in SUBSET Nat
  BY <1>1 DEF Unmapped, PhysReg
<1>8. IsFiniteSet(Unmapped(amt))
  BY <1>5, <1>6
<1>9. Cardinality(Unmapped(amt)) = n_phys_regs - n_log_regs
  BY <1>3, <1>4, <1>5, <1>6
<1> QED  BY <1>7, <1>8, <1>9 DEF FL_size

(* squash's rebuilt free list holds each register the committed map does   *)
(* not name, once.                                                         *)
LEMMA RebuiltList ==
  ASSUME NEW amt \in [LogReg -> PhysReg], InjectiveMap(amt), NEW old
  PROVE  /\ Rebuilt(amt, old) \in [FLSlot -> Unmapped(amt)]
         /\ \A s, t \in FLSlot : Rebuilt(amt, old)[s] = Rebuilt(amt, old)[t] => s = t
         /\ \A p \in Unmapped(amt) : \E s \in FLSlot : Rebuilt(amt, old)[s] = p
<1> DEFINE U == Unmapped(amt)
           At(s) == CHOOSE p \in U : Rank(p, U) = s
<1>1. IsFiniteSet(U) /\ Cardinality(U) = FL_size /\ U \in SUBSET Nat
  BY UnmappedCount
<1>2. /\ \A p \in U : Rank(p, U) \in 0..(FL_size - 1)
      /\ \A p, q \in U : Rank(p, U) = Rank(q, U) => p = q
      /\ \A n \in 0..(FL_size - 1) : \E p \in U : Rank(p, U) = n
  BY <1>1, RankBijection
<1>3. \A s \in FLSlot : At(s) \in U /\ Rank(At(s), U) = s
  BY <1>2 DEF FLSlot
<1>4. Rebuilt(amt, old) = [s \in FLSlot |-> At(s)]
  <2>1. \A s \in FLSlot : s < Cardinality(U)
    BY <1>1, Constants DEF FLSlot
  <2> QED  BY <2>1 DEF Rebuilt
<1>5. \A p \in U : Rank(p, U) \in FLSlot /\ At(Rank(p, U)) = p
  BY <1>2, <1>3 DEF FLSlot
<1>6. \A s \in FLSlot : Rebuilt(amt, old)[s] = At(s)
  BY <1>4
<1>7. Rebuilt(amt, old) \in [FLSlot -> Unmapped(amt)]
  BY <1>3, <1>4
<1>8. \A s, t \in FLSlot : Rebuilt(amt, old)[s] = Rebuilt(amt, old)[t] => s = t
  BY <1>3, <1>6
<1>9. \A p \in Unmapped(amt) : \E s \in FLSlot : Rebuilt(amt, old)[s] = p
  <2>1. ASSUME NEW p \in U
        PROVE  \E s \in FLSlot : Rebuilt(amt, old)[s] = p
    <3>1. Rank(p, U) \in FLSlot /\ At(Rank(p, U)) = p
      BY <1>5
    <3>2. Rebuilt(amt, old)[Rank(p, U)] = p
      BY <3>1, <1>6
    <3> QED  BY <3>1, <3>2
  <2> QED  BY <2>1
<1> QED  BY <1>7, <1>8, <1>9

(* Squash leaves a full free list, an empty window and no checkpoint. *)
LEMMA SquashStep ==
  ASSUME TypeOK, NEW amt \in [LogReg -> PhysReg], InjectiveMap(amt),
         NEW fl, squash(amt, fl)
  PROVE  IInv'
<1>1. /\ AMT' = amt /\ RMT' = amt /\ FreeList' = Rebuilt(amt, fl)
      /\ FL_head' = 0 /\ FL_head_phase' = FALSE
      /\ FL_tail' = 0 /\ FL_tail_phase' = TRUE
      /\ AL_head' = 0 /\ AL_tail' = 0
      /\ AL_head_phase' = FALSE /\ AL_tail_phase' = FALSE
      /\ GBM' = {} /\ PRF_ready' = [p \in PhysReg |-> TRUE] /\ DISPATCH' = <<>>
      /\ UNCHANGED <<ActiveList, Checkpoints>>
  BY UnmappedCount DEF squash
<1>2. 0 \in Nat /\ 0 <= 0
  OBVIOUS
<1>3. FreeList' \in [FLSlot -> PhysReg]
  BY <1>1, RebuiltList DEF Unmapped
<1>4. TypeOK'
  <2>1. /\ FL_head' \in FLSlot /\ FL_tail' \in FLSlot
        /\ FL_head_phase' \in BOOLEAN /\ FL_tail_phase' \in BOOLEAN
        /\ RingOK(FL_head', FL_head_phase', FL_tail', FL_tail_phase')
    BY <1>1, <1>2, Constants, Zenon DEF RingOK
  <2>2. /\ AL_head' \in ALIndex /\ AL_tail' \in ALIndex
        /\ AL_head_phase' \in BOOLEAN /\ AL_tail_phase' \in BOOLEAN
        /\ RingOK(AL_head', AL_head_phase', AL_tail', AL_tail_phase')
    BY <1>1, <1>2, Constants, Zenon DEF RingOK
  <2>3. DISPATCH' \in Seq(Inst) /\ PRF_ready' \in [PhysReg -> BOOLEAN] /\ GBM' \in SUBSET Branch
    BY <1>1
  <2> QED  BY <1>1, <1>3, <2>1, <2>2, <2>3 DEF TypeOK
<1>5. FreeRegs' = FL_size /\ ALCount' = 0
  <2>1. FreeRegs' = FL_size - (0 - 0)
    BY <1>1, Zenon DEF FreeRegs, Occupancy
  <2>2. ALCount' = 0 - 0
    BY <1>1, Zenon DEF ALCount, Occupancy
  <2> QED  BY <2>1, <2>2, Constants
<1>6. Size' = 0 /\ Allocated' = 0
  BY <1>1, <1>5, Constants DEF Size, Allocated
<1>7. MapsDisjoint'
  BY <1>1, RebuiltList DEF MapsDisjoint, InjectiveMap, Unmapped
<1>8. SlotsInOrder'
  <2>1. ASSUME NEW s \in FLSlot
        PROVE  ~(TailDist(s)' < Allocated')
    <3>1. TailDist(s)' = Distance(s, 0, FL_size)
      BY <1>1 DEF TailDist
    <3>2. s \in 0..(FL_size - 1) /\ 0 \in 0..(FL_size - 1)
      BY Constants DEF FLSlot
    <3>3. Distance(s, 0, FL_size) \in 0..(FL_size - 1)
      BY <3>2, Constants, DistanceAhead
    <3> QED  BY <3>1, <3>3, <1>6, Constants
  <2> QED  BY <2>1, <1>6 DEF SlotsInOrder
<1>9. CheckpointsInOrder'
  BY <1>6 DEF CheckpointsInOrder
<1>10. DispatchPending'
  BY <1>1 DEF DispatchPending
<1> QED  BY <1>4, <1>7, <1>8, <1>9, <1>10 DEF IInv

-----------------------------------------------------------------------------
(* Steps that leave the registers of the window and the free list alone.   *)

(* What the window's slots depend on. *)
SameSlots ==
  /\ Size' = Size /\ AMT' = AMT /\ FreeList' = FreeList
  /\ FL_tail' = FL_tail /\ FL_tail_phase' = FL_tail_phase
  /\ Allocated' = Allocated
  /\ \A k \in 1..Size :
       /\ Window'[k].dest_valid = Window[k].dest_valid
       /\ Window'[k].phys_reg = Window[k].phys_reg

(* What the order of the checkpoints depends on. *)
SameCheckpoints ==
  /\ \A b \in Branch :
       /\ Checkpoints'[b].FL_head = Checkpoints[b].FL_head
       /\ Checkpoints'[b].FL_head_phase = Checkpoints[b].FL_head_phase
  /\ \A k \in 1..Size : Unresolved(Window'[k]) =>
       /\ Unresolved(Window[k])
       /\ Window'[k].branch_ID = Window[k].branch_ID
       /\ Window[k].branch_ID \in GBM'
  /\ \A l, k \in 1..Size :
       l < k /\ Unresolved(Window'[l]) /\ Unresolved(Window'[k]) =>
         Window[l].branch_ID \in Checkpoints'[Window[k].branch_ID].GBM

(* A step that keeps slots, maps and window keeps the order of the slots. *)
LEMMA SameSlotsStep ==
  ASSUME SameSlots, MapsDisjoint, SlotsInOrder
  PROVE  MapsDisjoint' /\ SlotsInOrder'
<1>1. MapsDisjoint'
  BY DEF SameSlots, MapsDisjoint
<1>2. ASSUME NEW s \in FLSlot
      PROVE  TailDist(s)' = TailDist(s)
  BY DEF SameSlots, TailDist
<1>3. ASSUME NEW k \in 1..Size, NEW s \in FLSlot
      PROVE  /\ Writes(Window[k], s)' <=> Writes(Window[k], s)
             /\ Window'[k].dest_valid = Window[k].dest_valid
  BY DEF SameSlots, Writes
<1>4. SlotsInOrder'
  BY <1>2, <1>3 DEF SlotsInOrder, SameSlots
<1> QED  BY <1>1, <1>4

(* A step that keeps slots and what open branches own keeps the checkpoints*)
(* in order.                                                               *)
LEMMA SameCheckpointsStep ==
  ASSUME TypeOK, TypeOK', SameSlots, SameCheckpoints, CheckpointsInOrder
  PROVE  CheckpointsInOrder'
<1>1. Size' = Size
  BY DEF SameSlots
<1>2. ASSUME NEW k \in 1..Size, Unresolved(Window'[k])
      PROVE  /\ Unresolved(Window[k])
             /\ CheckpointOf(k).FL_head' = CheckpointOf(k).FL_head
             /\ CheckpointOf(k).FL_head_phase' = CheckpointOf(k).FL_head_phase
             /\ AllocatedAt(CheckpointOf(k))' = AllocatedAt(CheckpointOf(k))
             /\ CheckpointOf(k)' = Checkpoints'[Window[k].branch_ID]
  <2>1. Unresolved(Window[k]) /\ Window'[k].branch_ID = Window[k].branch_ID
    BY <1>2 DEF SameCheckpoints
  <2>2. Window[k].branch_ID \in Branch
    BY <2>1, WindowValues, UnresolvedID
  <2>3. /\ CheckpointOf(k)' = Checkpoints'[Window[k].branch_ID]
        /\ CheckpointOf(k) = Checkpoints[Window[k].branch_ID]
    BY <2>1 DEF CheckpointOf
  <2>4. /\ CheckpointOf(k).FL_head' = CheckpointOf(k).FL_head
        /\ CheckpointOf(k).FL_head_phase' = CheckpointOf(k).FL_head_phase
    BY <2>2, <2>3 DEF SameCheckpoints
  <2>5. AllocatedAt(CheckpointOf(k))' = AllocatedAt(CheckpointOf(k))
    BY <2>4 DEF AllocatedAt, SameSlots
  <2> QED  BY <2>1, <2>3, <2>4, <2>5
<1>3. ASSUME NEW k \in 1..Size, Unresolved(Window'[k])
      PROVE  CheckpointSplits(k)' /\ Window'[k].branch_ID \in GBM'
  <2>1. CheckpointSplits(k)
    BY <1>2, <1>3 DEF CheckpointsInOrder
  <2>2. Window'[k].branch_ID \in GBM'
    BY <1>3 DEF SameCheckpoints
  <2>3. ASSUME NEW l \in 1..Size, NEW s \in FLSlot
        PROVE  /\ TailDist(s)' = TailDist(s)
               /\ Writes(Window[l], s)' <=> Writes(Window[l], s)
    BY DEF SameSlots, TailDist, Writes
  <2>4. RingOK(CheckpointOf(k).FL_head, CheckpointOf(k).FL_head_phase, FL_tail, FL_tail_phase)'
    BY <2>1, <1>2, <1>3 DEF CheckpointSplits, SameSlots, RingOK
  <2>5. (AllocatedAt(CheckpointOf(k)) <= Allocated)'
    BY <2>1, <1>2, <1>3 DEF CheckpointSplits, SameSlots
  <2>6. CheckpointSplits(k)'
    BY <2>1, <2>3, <2>4, <2>5, <1>1, <1>2, <1>3 DEF CheckpointSplits
  <2> QED  BY <2>2, <2>6
<1>4. ASSUME NEW l \in 1..Size, NEW k \in 1..Size, l < k,
             Unresolved(Window'[l]), Unresolved(Window'[k])
      PROVE  CheckpointNests(l, k)'
  <2>1. CheckpointNests(l, k)
    BY <1>2, <1>4 DEF CheckpointsInOrder
  <2>2. /\ Window'[l].branch_ID = Window[l].branch_ID
        /\ Window'[k].branch_ID = Window[k].branch_ID
        /\ Window[l].branch_ID \in Checkpoints'[Window[k].branch_ID].GBM
    BY <1>4 DEF SameCheckpoints
  <2> QED  BY <2>1, <2>2, <1>2, <1>4 DEF CheckpointNests
<1> QED  BY <1>1, <1>3, <1>4 DEF CheckpointsInOrder
-----------------------------------------------------------------------------
(* The steps that keep registers, free list and checkpoints as they are.   *)

(* A step that at most completes instructions keeps the invariant. *)
LEMMA StillStep ==
  ASSUME IInv, TypeOK', SameSlots, DispatchPending',
         Checkpoints' = Checkpoints, GBM' = GBM,
         \A k \in 1..Size : Unresolved(Window'[k]) =>
           Unresolved(Window[k]) /\ Window'[k].branch_ID = Window[k].branch_ID
  PROVE  IInv'
<1>1. /\ TypeOK /\ MapsDisjoint /\ SlotsInOrder /\ CheckpointsInOrder
  BY DEF IInv
<1>2. SameCheckpoints
  BY <1>1 DEF SameCheckpoints, CheckpointsInOrder, CheckpointNests, CheckpointOf
<1> QED  BY <1>1, <1>2, SameSlotsStep, SameCheckpointsStep DEF IInv

(* The window's elements when the active list's pointers stand still. *)
LEMMA SameRings ==
  ASSUME TypeOK, TypeOK', Len(DISPATCH') = Len(DISPATCH),
         UNCHANGED <<AMT, flVars, AL_head, AL_tail, AL_head_phase, AL_tail_phase>>
  PROVE  /\ Size' = Size /\ Allocated' = Allocated /\ ALCount' = ALCount
         /\ \A k \in 1..Size :
              \/ /\ k <= ALCount /\ AtAge(k - 1) \in ALIndex
                 /\ Window[k] = ActiveList[AtAge(k - 1)]
                 /\ Window'[k] = ActiveList'[AtAge(k - 1)]
              \/ /\ k - ALCount \in 1..Len(DISPATCH)
                 /\ Window[k] = DISPATCH[k - ALCount]
                 /\ Window'[k] = DISPATCH'[k - ALCount]
<1>1. ALCount' = ALCount /\ Size' = Size
  BY DEF ALCount, Size
<1>2. Allocated' = Allocated
  BY DEF flVars, Allocated, FreeRegs
<1>3. ASSUME NEW k \in 1..Size
      PROVE  \/ /\ k <= ALCount /\ AtAge(k - 1) \in ALIndex
                /\ Window[k] = ActiveList[AtAge(k - 1)]
                /\ Window'[k] = ActiveList'[AtAge(k - 1)]
             \/ /\ k - ALCount \in 1..Len(DISPATCH)
                /\ Window[k] = DISPATCH[k - ALCount]
                /\ Window'[k] = DISPATCH'[k - ALCount]
  <2>1. AtAge(k - 1)' = AtAge(k - 1)
    BY DEF AtAge
  <2>2. Window'[k] = IF k <= ALCount THEN ActiveList'[AtAge(k - 1)]
                                     ELSE DISPATCH'[k - ALCount]
    BY <1>1, <2>1 DEF Window, Size
  <2>3. k > ALCount => k - ALCount \in 1..Len(DISPATCH)
    BY Occupancies DEF Size
  <2> QED  BY <2>2, <2>3, WindowValues, Occupancies
<1> QED  BY <1>1, <1>2, <1>3

(* A lane's wakeup keeps the invariant. *)
LEMMA SetReadyStep ==
  ASSUME IInv, NEW i \in ALIndex, SetReady(i)
  PROVE  IInv'
<1>1. TypeOK /\ TypeOK' /\ DispatchPending'
  BY SetReadyType DEF IInv, SetReady, DispatchPending
<1>2. /\ ActiveList' = ActiveList /\ DISPATCH' = DISPATCH
      /\ Checkpoints' = Checkpoints /\ GBM' = GBM
      /\ UNCHANGED <<AMT, flVars, AL_head, AL_tail, AL_head_phase, AL_tail_phase>>
  BY DEF SetReady, mapVars, alVars
<1>3. \A k \in 1..Size : Window'[k] = Window[k]
  BY <1>1, <1>2, SameRings
<1>4. SameSlots
  BY <1>1, <1>2, <1>3, SameRings DEF SameSlots, flVars
<1> QED  BY <1>1, <1>2, <1>3, <1>4, StillStep

(* Posting a retire-time flag keeps the invariant. *)
LEMMA SetFlagStep ==
  ASSUME IInv, NEW i \in ALIndex, NEW f \in Flag, SetFlag(i, f)
  PROVE  IInv'
<1>1. TypeOK /\ TypeOK' /\ DispatchPending'
  BY SetFlagType DEF IInv, SetFlag, DispatchPending
<1>2. /\ DISPATCH' = DISPATCH /\ Checkpoints' = Checkpoints /\ GBM' = GBM
      /\ UNCHANGED <<AMT, flVars, AL_head, AL_tail, AL_head_phase, AL_tail_phase>>
  BY DEF SetFlag, mapVars
<1>3. \A j \in ALIndex :
        /\ ActiveList'[j].dest_valid = ActiveList[j].dest_valid
        /\ ActiveList'[j].phys_reg = ActiveList[j].phys_reg
        /\ ActiveList'[j].branch_ID = ActiveList[j].branch_ID
        /\ ActiveList'[j].completed = ActiveList[j].completed
  BY <1>1 DEF SetFlag, TypeOK, Inst
<1>4. \A k \in 1..Size :
        /\ Window'[k].dest_valid = Window[k].dest_valid
        /\ Window'[k].phys_reg = Window[k].phys_reg
        /\ Window'[k].branch_ID = Window[k].branch_ID
        /\ Window'[k].completed = Window[k].completed
  BY <1>1, <1>2, <1>3, SameRings
<1>5. SameSlots
  BY <1>1, <1>2, <1>4, SameRings DEF SameSlots, flVars
<1> QED  BY <1>1, <1>2, <1>4, <1>5, StillStep DEF Unresolved

(* Completion of an instruction without a checkpoint keeps the invariant. *)
LEMMA SetCompleteStep ==
  ASSUME IInv, NEW i \in ALIndex, NEW late \in BOOLEAN, SetComplete(i, late)
  PROVE  IInv'
<1>1. TypeOK /\ TypeOK' /\ DispatchPending'
  BY SetCompleteType DEF IInv, SetComplete, DispatchPending
<1>2. /\ DISPATCH' = DISPATCH /\ Checkpoints' = Checkpoints /\ GBM' = GBM
      /\ UNCHANGED <<AMT, flVars, AL_head, AL_tail, AL_head_phase, AL_tail_phase>>
  BY DEF SetComplete, mapVars
<1>3. \A j \in ALIndex :
        /\ ActiveList'[j].dest_valid = ActiveList[j].dest_valid
        /\ ActiveList'[j].phys_reg = ActiveList[j].phys_reg
        /\ ActiveList'[j].branch_ID = ActiveList[j].branch_ID
        /\ ActiveList[j].completed => ActiveList'[j].completed
  BY <1>1 DEF SetComplete, TypeOK, Inst
<1>4. \A k \in 1..Size :
        /\ Window'[k].dest_valid = Window[k].dest_valid
        /\ Window'[k].phys_reg = Window[k].phys_reg
        /\ Window'[k].branch_ID = Window[k].branch_ID
        /\ Window[k].completed => Window'[k].completed
  BY <1>1, <1>2, <1>3, SameRings
<1>5. SameSlots
  BY <1>1, <1>2, <1>4, SameRings DEF SameSlots, flVars
<1> QED  BY <1>1, <1>2, <1>4, <1>5, StillStep DEF Unresolved
(* The entry that dispatch_inst writes. *)
Dispatched(skipIQ, flags) ==
  [Head(DISPATCH) EXCEPT !.completed = skipIQ, !.flags = flags]

(* Dispatch moves the oldest entry of DISPATCH behind the active list: the *)
(* window keeps its order and its length.                                  *)
LEMMA DispatchWindow ==
  ASSUME IInv, NEW predicted \in BOOLEAN, NEW skipIQ \in BOOLEAN,
         NEW flags \in SUBSET Flag, DispatchInst(predicted, skipIQ, flags)
  PROVE  /\ TypeOK' /\ Size' = Size /\ Allocated' = Allocated
         /\ Head(DISPATCH) \in Inst /\ ~Head(DISPATCH).completed
         /\ \A k \in 1..Size :
              \/ Window'[k] = Window[k]
              \/ /\ Window'[k] = Dispatched(skipIQ, flags)
                 /\ Window[k] = Head(DISPATCH)
         /\ \A k \in 1..Len(DISPATCH') :
              k + 1 \in 1..Len(DISPATCH) /\ DISPATCH'[k] = DISPATCH[k + 1]
<1> DEFINE x == Head(DISPATCH)
           y == [x EXCEPT !.completed = skipIQ, !.flags = flags]
<1>1. /\ TypeOK /\ TypeOK' /\ ALCount' = ALCount + 1 /\ ALCount < n_active
      /\ AtAge(ALCount) = AL_tail
  BY DispatchType DEF IInv
<1>2. /\ DISPATCH # <<>> /\ DISPATCH' = Tail(DISPATCH)
      /\ ActiveList' = [ActiveList EXCEPT ![AL_tail] = y]
      /\ Checkpoints' = Checkpoints /\ GBM' = GBM
      /\ UNCHANGED <<AMT, flVars, AL_head>>
  BY DEF DispatchInst, mapVars
<1>3. /\ x = DISPATCH[1] /\ x \in Inst /\ ~x.completed
      /\ Len(DISPATCH) \in Nat /\ Len(DISPATCH) > 0
      /\ Len(DISPATCH') = Len(DISPATCH) - 1
      /\ \A k \in 1..Len(DISPATCH') : DISPATCH'[k] = DISPATCH[k + 1]
  <2>1. DISPATCH \in Seq(Inst)
    BY <1>1 DEF TypeOK
  <2>2. Len(DISPATCH) \in Nat /\ Len(DISPATCH) > 0
    BY <2>1, <1>2, LenProperties, EmptySeq
  <2>3. /\ x = DISPATCH[1] /\ x \in Inst
        /\ Len(DISPATCH') = Len(DISPATCH) - 1
    <3>1. x \in Inst /\ Len(Tail(DISPATCH)) = Len(DISPATCH) - 1
      BY <2>1, <1>2, HeadTailProperties
    <3>2. x = DISPATCH[1]
      BY <2>1, <1>2
    <3> QED  BY <3>1, <3>2, <1>2
  <2>4. \A k \in 1..Len(DISPATCH') : DISPATCH'[k] = DISPATCH[k + 1]
    BY <2>1, <2>2, <2>3, <1>2, HeadTailProperties
  <2>5. ~DISPATCH[1].completed
    BY <2>2 DEF IInv, DispatchPending
  <2> QED  BY <2>2, <2>3, <2>4, <2>5
<1>4. Size' = Size /\ Allocated' = Allocated
  BY <1>1, <1>2, <1>3, Occupancies DEF Size, flVars, Allocated, FreeRegs
<1>5. ASSUME NEW k \in 1..Size
      PROVE  \/ Window'[k] = Window[k]
             \/ Window'[k] = y /\ Window[k] = x
  <2>0. /\ ALCount \in Nat /\ k \in Nat /\ k >= 1
        /\ Window[k] = IF k <= ALCount THEN ActiveList[AtAge(k - 1)]
                                       ELSE DISPATCH[k - ALCount]
    BY <1>1, Occupancies, Constants, WindowValues
  <2>1. AtAge(k - 1)' = AtAge(k - 1)
    BY <1>2 DEF AtAge
  <2>2. Window'[k] = IF k <= ALCount + 1 THEN ActiveList'[AtAge(k - 1)]
                                         ELSE DISPATCH'[k - (ALCount + 1)]
    BY <1>1, <1>4, <2>1 DEF Window, Size
  <2>3. CASE k <= ALCount
    <3>1. AtAge(k - 1) # AL_tail /\ AtAge(k - 1) \in ALIndex
      <4>1. k - 1 \in 0..(n_active - 1) /\ ALCount \in 0..(n_active - 1)
        BY <1>1, <2>0, <2>3, Constants
      <4>2. Age(AtAge(k - 1)) = k - 1 /\ Age(AtAge(ALCount)) = ALCount
        BY <4>1, <1>1, Ages
      <4> QED  BY <4>1, <4>2, <1>1, <2>0, <2>3, Ages
    <3>2. ActiveList'[AtAge(k - 1)] = ActiveList[AtAge(k - 1)]
      BY <3>1, <1>1, <1>2 DEF TypeOK
    <3> QED  BY <2>0, <2>2, <2>3, <3>2
  <2>4. CASE k = ALCount + 1
    <3>1. Window[k] = x
      BY <2>0, <2>4, <1>3
    <3>2. AtAge(k - 1) = AL_tail /\ AL_tail \in ALIndex
      BY <2>0, <2>4, <1>1 DEF TypeOK
    <3>3. Window'[k] = y
      BY <2>0, <2>2, <2>4, <3>2, <1>1, <1>2 DEF TypeOK
    <3> QED  BY <3>1, <3>3
  <2>5. CASE k > ALCount + 1
    <3>1. k - (ALCount + 1) \in 1..Len(DISPATCH')
      BY <2>0, <2>5, <1>3 DEF Size
    <3>2. DISPATCH'[k - (ALCount + 1)] = DISPATCH[k - ALCount]
      BY <3>1, <1>3, <2>0
    <3> QED  BY <2>0, <2>2, <2>5, <3>2
  <2> QED  BY <2>0, <2>3, <2>4, <2>5
<1>6. \A k \in 1..Len(DISPATCH') : k + 1 \in 1..Len(DISPATCH)
  BY <1>3
<1> QED  BY <1>1, <1>3, <1>4, <1>5, <1>6 DEF Dispatched

(* Dispatch keeps the invariant. *)
LEMMA DispatchStep ==
  ASSUME IInv, NEW predicted \in BOOLEAN, NEW skipIQ \in BOOLEAN,
         NEW flags \in SUBSET Flag, DispatchInst(predicted, skipIQ, flags)
  PROVE  IInv'
<1> DEFINE x == Head(DISPATCH)
           y == Dispatched(skipIQ, flags)
<1>1. /\ TypeOK' /\ Size' = Size /\ Allocated' = Allocated
      /\ x \in Inst /\ ~x.completed
      /\ \A k \in 1..Size : \/ Window'[k] = Window[k]
                            \/ Window'[k] = y /\ Window[k] = x
      /\ \A k \in 1..Len(DISPATCH') :
           k + 1 \in 1..Len(DISPATCH) /\ DISPATCH'[k] = DISPATCH[k + 1]
  BY DispatchWindow
<1>2. /\ Checkpoints' = Checkpoints /\ GBM' = GBM /\ UNCHANGED <<AMT, flVars>>
  BY DEF DispatchInst, mapVars
<1>3. /\ y.dest_valid = x.dest_valid /\ y.phys_reg = x.phys_reg
      /\ y.branch_ID = x.branch_ID
  BY <1>1 DEF Inst, Dispatched
<1>4. SameSlots
  <2>1. UNCHANGED <<FreeList, FL_tail, FL_tail_phase>>
    BY <1>2 DEF flVars
  <2> HIDE DEF x, y
  <2> QED  BY <1>1, <1>2, <1>3, <2>1 DEF SameSlots
<1>5. DispatchPending'
  BY <1>1 DEF DispatchPending, IInv
<1>6. \A k \in 1..Size : Unresolved(Window'[k]) =>
        Unresolved(Window[k]) /\ Window'[k].branch_ID = Window[k].branch_ID
  <2> HIDE DEF x, y
  <2> QED  BY <1>1, <1>3 DEF Unresolved
<1> QED  BY <1>1, <1>2, <1>4, <1>5, <1>6, StillStep

(* The window after a branch i resolved correctly. *)
LEMMA ResolvedWindow ==
  ASSUME IInv, NEW i \in ALIndex, ResolveCorrect(i), NEW n \in Nat, n = Age(i) + 1
  PROVE  /\ TypeOK' /\ Size' = Size /\ Len(DISPATCH') = Len(DISPATCH)
         /\ \A k \in 1..Len(DISPATCH) : DISPATCH'[k].completed = DISPATCH[k].completed
         /\ n \in 1..Size /\ Window[n] = ActiveList[i] /\ Window'[n].completed
         /\ \A k \in 1..Size :
              /\ Window'[k].dest_valid = Window[k].dest_valid
              /\ Window'[k].log_reg = Window[k].log_reg
              /\ Window'[k].phys_reg = Window[k].phys_reg
              /\ Window'[k].branch_ID = Window[k].branch_ID
              /\ Window'[k].branch_mask = Window[k].branch_mask \ {ActiveList[i].branch_ID}
              /\ k # n => Window'[k].completed = Window[k].completed
<1> DEFINE b == ActiveList[i].branch_ID
<1>1. TypeOK /\ TypeOK'
  BY ResolveCorrectType DEF IInv
<1>2. /\ InFlight(i)
      /\ UNCHANGED <<AMT, flVars, AL_head, AL_tail, AL_head_phase, AL_tail_phase>>
  BY DEF ResolveCorrect, mapVars
<1>3. \A j \in ALIndex :
        /\ ActiveList'[j].dest_valid = ActiveList[j].dest_valid
        /\ ActiveList'[j].log_reg = ActiveList[j].log_reg
        /\ ActiveList'[j].phys_reg = ActiveList[j].phys_reg
        /\ ActiveList'[j].branch_ID = ActiveList[j].branch_ID
        /\ ActiveList'[j].branch_mask = ActiveList[j].branch_mask \ {b}
        /\ j # i => ActiveList'[j].completed = ActiveList[j].completed
        /\ j = i => ActiveList'[j].completed
  <2> SUFFICES ASSUME NEW j \in ALIndex
               PROVE  /\ ActiveList'[j].dest_valid = ActiveList[j].dest_valid
                      /\ ActiveList'[j].log_reg = ActiveList[j].log_reg
                      /\ ActiveList'[j].phys_reg = ActiveList[j].phys_reg
                      /\ ActiveList'[j].branch_ID = ActiveList[j].branch_ID
                      /\ ActiveList'[j].branch_mask = ActiveList[j].branch_mask \ {b}
                      /\ j # i => ActiveList'[j].completed = ActiveList[j].completed
                      /\ j = i => ActiveList'[j].completed
    OBVIOUS
  <2>1. ActiveList[j] \in Inst /\ ActiveList[j].completed \in BOOLEAN
    BY <1>1, InstFields DEF TypeOK
  <2>2. PICK c \in BOOLEAN : c = (ActiveList[j].completed \/ j = i)
    OBVIOUS
  <2>3. ActiveList'[j] = [ActiveList[j] EXCEPT !.branch_mask = @ \ {b}, !.completed = @ \/ j = i]
    BY DEF ResolveCorrect, ClearBit
  <2>4. ActiveList'[j] = [ActiveList[j] EXCEPT !.branch_mask = @ \ {b}, !.completed = c]
    BY <2>2, <2>3
  <2>5. /\ ActiveList'[j].dest_valid = ActiveList[j].dest_valid
        /\ ActiveList'[j].log_reg = ActiveList[j].log_reg
        /\ ActiveList'[j].phys_reg = ActiveList[j].phys_reg
        /\ ActiveList'[j].branch_ID = ActiveList[j].branch_ID
        /\ ActiveList'[j].branch_mask = ActiveList[j].branch_mask \ {b}
        /\ ActiveList'[j].completed = c
    BY <2>1, <2>4 DEF Inst
  <2>6. /\ j # i => c = ActiveList[j].completed
        /\ j = i => c
    BY <2>1, <2>2
  <2> QED  BY <2>5, <2>6
<1>4. DISPATCH' = [k \in 1..Len(DISPATCH) |->
        [DISPATCH[k] EXCEPT !.branch_mask = DISPATCH[k].branch_mask \ {b}]]
  BY DEF ResolveCorrect, ClearBit
<1>5. Len(DISPATCH') = Len(DISPATCH)
  BY <1>1, <1>4, LenProperties, Occupancies DEF TypeOK
<1>6. \A k \in 1..Len(DISPATCH) :
        /\ DISPATCH'[k].dest_valid = DISPATCH[k].dest_valid
        /\ DISPATCH'[k].log_reg = DISPATCH[k].log_reg
        /\ DISPATCH'[k].phys_reg = DISPATCH[k].phys_reg
        /\ DISPATCH'[k].branch_ID = DISPATCH[k].branch_ID
        /\ DISPATCH'[k].branch_mask = DISPATCH[k].branch_mask \ {b}
        /\ DISPATCH'[k].completed = DISPATCH[k].completed
  BY <1>1, <1>4, Occupancies DEF Inst
<1>7. /\ n \in 1..Size /\ n <= ALCount /\ Window[n] = ActiveList[i]
      /\ AtAge(n - 1) = i
  <2>1. Age(i) \in Int /\ AtAge(Age(i)) = i
    BY <1>1, Ages, Constants
  <2>2. n - 1 = Age(i)
    BY <2>1
  <2> QED  BY <1>1, <1>2, <2>1, <2>2, WindowAt
<1>8. Size' = Size
  BY <1>1, <1>2, <1>5, SameRings
<1>9. \A k \in 1..Size :
        /\ Window'[k].dest_valid = Window[k].dest_valid
        /\ Window'[k].log_reg = Window[k].log_reg
        /\ Window'[k].phys_reg = Window[k].phys_reg
        /\ Window'[k].branch_ID = Window[k].branch_ID
        /\ Window'[k].branch_mask = Window[k].branch_mask \ {b}
  BY <1>1, <1>2, <1>3, <1>5, <1>6, SameRings
<1>10. ASSUME NEW k \in 1..Size, k # n
       PROVE  Window'[k].completed = Window[k].completed
  <2>1. k <= ALCount => AtAge(k - 1) # i
    <3>1. k <= ALCount => k - 1 \in 0..(n_active - 1)
      BY <1>1, Occupancies, Constants
    <3>2. k <= ALCount => Age(AtAge(k - 1)) = k - 1
      BY <3>1, <1>1, Ages
    <3> QED  BY <3>2, <1>10
  <2>2. \/ /\ k <= ALCount /\ AtAge(k - 1) \in ALIndex
           /\ Window[k] = ActiveList[AtAge(k - 1)]
           /\ Window'[k] = ActiveList'[AtAge(k - 1)]
        \/ /\ k - ALCount \in 1..Len(DISPATCH)
           /\ Window[k] = DISPATCH[k - ALCount]
           /\ Window'[k] = DISPATCH'[k - ALCount]
    BY <1>1, <1>2, <1>5, SameRings
  <2> QED  BY <2>1, <2>2, <1>3, <1>6
<1>11. Window'[n].completed
  <2>1. n \in Int /\ ALCount \in Int
    BY <1>1, <1>7, Occupancies, Constants
  <2>2. Window'[n] = ActiveList'[i]
    BY <1>1, <1>2, <1>5, <1>7, <2>1, SameRings
  <2> QED  BY <2>2, <1>3
<1> QED  BY <1>1, <1>5, <1>6, <1>7, <1>8, <1>9, <1>10, <1>11

(* A resolved branch leaves every mask; the other branches keep theirs. *)
LEMMA ResolveCorrectStep ==
  ASSUME IInv, NEW i \in ALIndex, ResolveCorrect(i)
  PROVE  IInv'
<1> DEFINE b == ActiveList[i].branch_ID
<1>1. TypeOK /\ TypeOK' /\ SlotsInOrder /\ MapsDisjoint /\ CheckpointsInOrder
  BY ResolveCorrectType DEF IInv
<1>2. /\ InFlight(i) /\ Unresolved(ActiveList[i])
      /\ GBM' = GBM \ {b}
      /\ Checkpoints' = [c \in Branch |->
           [Checkpoints[c] EXCEPT !.GBM = Checkpoints[c].GBM \ {b}]]
      /\ UNCHANGED <<AMT, flVars, AL_head, AL_tail, AL_head_phase, AL_tail_phase>>
  BY DEF ResolveCorrect, ClearBit, ClearedCheckpoints, mapVars
<1>3. PICK n \in Nat : n = Age(i) + 1
  BY <1>1, Ages, Constants
<1>4. /\ Size' = Size /\ Len(DISPATCH') = Len(DISPATCH)
      /\ \A k \in 1..Len(DISPATCH) : DISPATCH'[k].completed = DISPATCH[k].completed
      /\ n \in 1..Size /\ Window[n] = ActiveList[i] /\ Window'[n].completed
      /\ \A k \in 1..Size :
           /\ Window'[k].dest_valid = Window[k].dest_valid
           /\ Window'[k].phys_reg = Window[k].phys_reg
           /\ Window'[k].branch_ID = Window[k].branch_ID
           /\ k # n => Window'[k].completed = Window[k].completed
  BY <1>3, ResolvedWindow
<1>5. SameSlots
  BY <1>1, <1>2, <1>4, SameRings DEF SameSlots, flVars
<1>6. ASSUME NEW k \in 1..Size, Unresolved(Window'[k])
       PROVE  /\ Unresolved(Window[k]) /\ Window[k].branch_ID \in Branch
              /\ Window[k].branch_ID # b
  <2>1. Unresolved(Window[k]) /\ k # n
    BY <1>4, <1>6 DEF Unresolved
  <2>2. k < n \/ n < k
    BY <2>1, <1>4
  <2>3. Window[k].branch_ID # Window[n].branch_ID
    BY <2>1, <2>2, <1>1, <1>2, <1>4 DEF CheckpointsInOrder, CheckpointNests
  <2> QED  BY <2>1, <2>3, <1>1, <1>4, WindowValues, UnresolvedID
<1>7. SameCheckpoints
  <2>1. \A c \in Branch :
          /\ Checkpoints'[c].FL_head = Checkpoints[c].FL_head
          /\ Checkpoints'[c].FL_head_phase = Checkpoints[c].FL_head_phase
          /\ Checkpoints'[c].GBM = Checkpoints[c].GBM \ {b}
    BY <1>1, <1>2 DEF TypeOK, Checkpoint
  <2>2. \A k \in 1..Size : Unresolved(Window'[k]) => Window[k].branch_ID \in GBM'
    BY <1>1, <1>2, <1>6 DEF CheckpointsInOrder
  <2>3. ASSUME NEW l \in 1..Size, NEW k \in 1..Size,
               l < k, Unresolved(Window'[l]), Unresolved(Window'[k])
        PROVE  Window[l].branch_ID \in Checkpoints'[Window[k].branch_ID].GBM
    <3>1. Window[l].branch_ID \in Checkpoints[Window[k].branch_ID].GBM
      BY <2>3, <1>1, <1>6 DEF CheckpointsInOrder, CheckpointNests, CheckpointOf
    <3> QED  BY <3>1, <2>1, <2>3, <1>6
  <2> QED  BY <2>1, <2>2, <2>3, <1>4, <1>6 DEF SameCheckpoints
<1>8. DispatchPending'
  BY <1>4 DEF DispatchPending, IInv
<1> QED  BY <1>1, <1>5, <1>7, <1>8, SameSlotsStep, SameCheckpointsStep DEF IInv
-----------------------------------------------------------------------------
(* Rename appends an instruction and takes the slot at FL_head for it.     *)

(* A slot that an instruction in flight writes is allocated, and only one  *)
(* instruction writes it.                                                  *)
LEMMA WriterSlot ==
  ASSUME TypeOK, MapsDisjoint, SlotsInOrder,
         NEW k \in 1..Size, NEW s \in FLSlot, Writes(Window[k], s)
  PROVE  /\ TailDist(s) < Allocated
         /\ \A t \in FLSlot : Writes(Window[k], t) => t = s
<1>1. \A t \in FLSlot : Writes(Window[k], t) => t = s
  BY DEF Writes, MapsDisjoint
<1>2. PICK t \in FLSlot : Writes(Window[k], t) /\ TailDist(t) < Allocated
  BY DEF SlotsInOrder, Writes
<1> QED  BY <1>1, <1>2

(* The distances from FL_tail tell the slots apart. *)
LEMMA TailDistances ==
  ASSUME TypeOK
  PROVE  /\ \A s \in FLSlot : TailDist(s) \in 0..(FL_size - 1)
         /\ \A s, t \in FLSlot : TailDist(s) = TailDist(t) => s = t
         /\ TailDist(FL_tail) = 0
<1>1. FL_tail \in 0..(FL_size - 1)
  BY DEF TypeOK, FLSlot
<1>2. \A s \in FLSlot : /\ TailDist(s) \in 0..(FL_size - 1)
                        /\ Ahead(TailDist(s), FL_tail, FL_size) = s
  BY <1>1, Constants, DistanceAhead DEF TailDist, FLSlot
<1>3. \A s, t \in FLSlot : TailDist(s) = TailDist(t) => s = t
  <2>1. ASSUME NEW s \in FLSlot, NEW t \in FLSlot, TailDist(s) = TailDist(t)
        PROVE  s = t
    <3>1. /\ Ahead(TailDist(s), FL_tail, FL_size) = s
          /\ Ahead(TailDist(t), FL_tail, FL_size) = t
      BY <1>2
    <3> QED  BY <2>1, <3>1
  <2> QED  BY <2>1
<1>4. TailDist(FL_tail) = 0
  BY <1>1 DEF TailDist, Distance
<1> QED  BY <1>2, <1>3, <1>4

(* Renaming adds one element to the window, which owns the slot at FL_head. *)
LEMMA RenameWindow ==
  ASSUME IInv, NEW dest \in BOOLEAN, NEW r \in LogReg, NEW branch \in BOOLEAN,
         RenameInst(dest, r, branch), NEW n \in Nat, n = Size
  PROVE  /\ Size' = n + 1
         /\ \A k \in 1..n : Window'[k] = Window[k]
         /\ Window'[n + 1] = Renamed(dest, r, branch)
         /\ Allocated' = IF dest THEN Allocated + 1 ELSE Allocated
         /\ \A k \in 1..n, s \in FLSlot : Writes(Window[k], s)' <=> Writes(Window[k], s)
         /\ \A s \in FLSlot : TailDist(s)' = TailDist(s)
         /\ \A s \in FLSlot : Writes(Window[n + 1], s)' <=> dest /\ s = FL_head
         /\ dest => FL_head \in FLSlot /\ TailDist(FL_head) = Allocated
<1> DEFINE z == Renamed(dest, r, branch)
<1>1. /\ TypeOK /\ MapsDisjoint /\ z \in Inst /\ DISPATCH' = Append(DISPATCH, z)
      /\ UNCHANGED <<FreeList, FL_tail, FL_tail_phase, alVars>>
  BY RenameType DEF IInv, RenameInst
<1>2. /\ Len(DISPATCH') = Len(DISPATCH) + 1 /\ DISPATCH'[Len(DISPATCH) + 1] = z
      /\ \A k \in 1..Len(DISPATCH) : DISPATCH'[k] = DISPATCH[k]
  BY <1>1, AppendProperties DEF TypeOK
<1>3. /\ Size \in Nat /\ ALCount \in Nat /\ Len(DISPATCH) \in Nat
      /\ Size = ALCount + Len(DISPATCH) /\ Allocated \in Int /\ FreeRegs \in Int
  BY <1>1, Occupancies, Constants DEF Size
<1>4. ALCount' = ALCount /\ Size' = n + 1
  BY <1>1, <1>2, <1>3 DEF ALCount, Size, alVars
<1>5. ASSUME NEW k \in 1..(n + 1)
      PROVE  Window'[k] = IF k <= n THEN Window[k] ELSE z
  <2>1. AtAge(k - 1)' = AtAge(k - 1) /\ ActiveList' = ActiveList
    BY <1>1 DEF AtAge, alVars
  <2>2. Window'[k] = IF k <= ALCount THEN ActiveList[AtAge(k - 1)]
                                     ELSE DISPATCH'[k - ALCount]
    BY <1>4, <2>1 DEF Window, Size
  <2>3. CASE k <= n
    <3>1. k \in 1..n /\ (k > ALCount => k - ALCount \in 1..Len(DISPATCH))
      BY <1>3, <2>3
    <3>2. Window[k] = IF k <= ALCount THEN ActiveList[AtAge(k - 1)]
                                      ELSE DISPATCH[k - ALCount]
      BY <3>1, <1>1, WindowValues
    <3>3. Window'[k] = Window[k]
      BY <3>1, <3>2, <2>2, <1>2, <1>3
    <3> QED  BY <3>3, <2>3
  <2>4. CASE k = n + 1
    <3>1. ~(k <= ALCount) /\ k - ALCount = Len(DISPATCH) + 1 /\ ~(k <= n)
      BY <1>3, <2>4
    <3> QED  BY <3>1, <2>2, <1>2
  <2> QED  BY <2>3, <2>4, <1>3
<1>6. /\ \A k \in 1..n : Window'[k] = Window[k]
      /\ Window'[n + 1] = z
  BY <1>3, <1>5
<1>7. Allocated' = IF dest THEN Allocated + 1 ELSE Allocated
  BY <1>1, <1>3, Constants, RenameFLHead DEF Allocated
<1>8. \A k \in 1..n, s \in FLSlot : Writes(Window[k], s)' <=> Writes(Window[k], s)
  BY <1>1, <1>6 DEF Writes
<1>9. \A s \in FLSlot : TailDist(s)' = TailDist(s)
  BY <1>1 DEF TailDist
<1>10. \A s \in FLSlot : Writes(Window[n + 1], s)' <=> dest /\ s = FL_head
  <2>1. ASSUME NEW s \in FLSlot
        PROVE  Writes(Window[n + 1], s)' <=> dest /\ s = FL_head
    <3>1. Writes(Window[n + 1], s)' <=> z.dest_valid /\ FreeList[s] = z.phys_reg
      BY <1>1, <1>4, <1>6 DEF Writes
    <3>2. z.dest_valid = dest /\ (dest => z.phys_reg = FreeList[FL_head])
      BY DEF Renamed
    <3>3. FL_head \in FLSlot
      BY <1>1 DEF TypeOK
    <3> QED  BY <3>1, <3>2, <3>3, <1>1 DEF MapsDisjoint
  <2> QED  BY <2>1
<1>11. dest => FL_head \in FLSlot /\ TailDist(FL_head) = Allocated
  <2>1. dest => FreeRegs > 0
    BY <1>1, Occupancies DEF RenameInst, stall_reg
  <2>2. /\ FL_head \in 0..(FL_size - 1) /\ FL_tail \in 0..(FL_size - 1)
        /\ FL_head_phase \in BOOLEAN /\ FL_tail_phase \in BOOLEAN
        /\ RingOK(FL_head, FL_head_phase, FL_tail, FL_tail_phase)
    BY <1>1 DEF TypeOK, FLSlot
  <2>3. FreeRegs > 0 => TailDist(FL_head) = FL_size - FreeRegs
    BY <2>2, Constants, EndsFromTail DEF TailDist, FreeRegs
  <2> QED  BY <2>1, <2>3, <1>1 DEF Allocated, TypeOK
<1> QED  BY <1>4, <1>6, <1>7, <1>8, <1>9, <1>10, <1>11
(* The slots a checkpoint counts as allocated. *)
LEMMA CheckpointOccupancy ==
  ASSUME TypeOK, NEW c \in Checkpoint,
         RingOK(c.FL_head, c.FL_head_phase, FL_tail, FL_tail_phase)
  PROVE  AllocatedAt(c) \in 0..FL_size /\ AllocatedAt(c) \in Int
<1>1. /\ c.FL_head \in 0..(FL_size - 1) /\ c.FL_head_phase \in BOOLEAN
      /\ FL_tail \in 0..(FL_size - 1) /\ FL_tail_phase \in BOOLEAN
  BY DEF Checkpoint, TypeOK, FLSlot
<1>2. Occupancy(c.FL_head, c.FL_head_phase, FL_tail, FL_tail_phase, FL_size) \in 0..FL_size
  BY <1>1, Constants, OccupancyRange
<1> QED  BY <1>2, Constants DEF AllocatedAt

(* Renaming keeps the slots in program order. *)
LEMMA RenameSlots ==
  ASSUME IInv, NEW dest \in BOOLEAN, NEW r \in LogReg, NEW branch \in BOOLEAN,
         RenameInst(dest, r, branch)
  PROVE  MapsDisjoint' /\ SlotsInOrder'
<1> DEFINE z == Renamed(dest, r, branch)
<1>1. TypeOK /\ MapsDisjoint /\ SlotsInOrder
  BY DEF IInv
<1>2. PICK n \in Nat : n = Size
  BY <1>1, Occupancies
<1>3. /\ Size' = n + 1
      /\ \A k \in 1..n : Window'[k] = Window[k]
      /\ Window'[n + 1] = z
      /\ Allocated' = IF dest THEN Allocated + 1 ELSE Allocated
      /\ \A k \in 1..n, s \in FLSlot : Writes(Window[k], s)' <=> Writes(Window[k], s)
      /\ \A s \in FLSlot : TailDist(s)' = TailDist(s)
      /\ \A s \in FLSlot : Writes(Window[n + 1], s)' <=> dest /\ s = FL_head
      /\ dest => FL_head \in FLSlot /\ TailDist(FL_head) = Allocated
  BY <1>2, RenameWindow
<1>4. /\ Allocated \in Int
      /\ \A s \in FLSlot : TailDist(s) \in Int
  BY <1>1, Occupancies, TailDistances, Constants
<1>5. MapsDisjoint'
  BY <1>1 DEF RenameInst, MapsDisjoint
<1>6. ASSUME NEW k \in 1..(n + 1), Window'[k].dest_valid
      PROVE  \E s \in FLSlot : Writes(Window[k], s)' /\ TailDist(s)' < Allocated'
  <2>1. CASE k \in 1..n
    <3>1. PICK s \in FLSlot : Writes(Window[k], s) /\ TailDist(s) < Allocated
      BY <2>1, <1>1, <1>2, <1>3, <1>6 DEF SlotsInOrder
    <3>2. Writes(Window[k], s)' /\ TailDist(s)' < Allocated'
      BY <2>1, <3>1, <1>3, <1>4
    <3> QED  BY <3>2
  <2>2. CASE k = n + 1
    <3>1. dest
      BY <2>2, <1>3, <1>6 DEF Renamed
    <3>2. PICK s \in FLSlot : s = FL_head
      BY <3>1, <1>3
    <3>3. Writes(Window[k], s)'
      BY <2>2, <3>1, <3>2, <1>3
    <3>4. TailDist(s)' < Allocated'
      BY <3>1, <3>2, <1>3, <1>4
    <3> QED  BY <3>3, <3>4
  <2> QED  BY <2>1, <2>2
<1>7. ASSUME NEW k \in 1..(n + 1), NEW l \in 1..(n + 1),
             NEW s \in FLSlot, NEW t \in FLSlot,
             k < l, Writes(Window[k], s)', Writes(Window[l], t)'
      PROVE  TailDist(s)' < TailDist(t)'
  <2>1. k \in 1..n /\ Writes(Window[k], s)
    BY <1>3, <1>7
  <2>2. CASE l \in 1..n
    BY <2>1, <2>2, <1>1, <1>2, <1>3, <1>7 DEF SlotsInOrder
  <2>3. CASE l = n + 1
    <3>1. t = FL_head /\ TailDist(t) = Allocated
      BY <2>3, <1>3, <1>7
    <3> QED  BY <3>1, <2>1, <1>1, <1>2, <1>3, WriterSlot
  <2> QED  BY <2>2, <2>3
<1>8. ASSUME NEW s \in FLSlot, TailDist(s)' < Allocated'
      PROVE  \E k \in 1..(n + 1) : Writes(Window[k], s)'
  <2>1. CASE TailDist(s) < Allocated
    <3>1. PICK k \in 1..n : Writes(Window[k], s)
      BY <2>1, <1>1, <1>2 DEF SlotsInOrder
    <3>2. k \in 1..(n + 1) /\ Writes(Window[k], s)'
      BY <3>1, <1>3
    <3> QED  BY <3>2
  <2>2. CASE ~(TailDist(s) < Allocated)
    <3>1. dest /\ TailDist(s) = TailDist(FL_head) /\ FL_head \in FLSlot
      BY <2>2, <1>3, <1>4, <1>8
    <3>2. s = FL_head
      BY <3>1, <1>1, TailDistances
    <3>3. Writes(Window[n + 1], s)'
      BY <3>1, <3>2, <1>3
    <3> QED  BY <3>3
  <2> QED  BY <2>1, <2>2
<1>9. SlotsInOrder'
  BY <1>3, <1>6, <1>7, <1>8 DEF SlotsInOrder
<1> QED  BY <1>5, <1>9

(* A checkpoint taken at rename holds all branches and slots before it. *)
LEMMA RenameCheckpoints ==
  ASSUME IInv, NEW dest \in BOOLEAN, NEW r \in LogReg, NEW branch \in BOOLEAN,
         RenameInst(dest, r, branch)
  PROVE  CheckpointsInOrder'
<1> DEFINE z == Renamed(dest, r, branch)
           f == FirstFree
<1>1. /\ TypeOK /\ MapsDisjoint /\ SlotsInOrder /\ CheckpointsInOrder
      /\ TypeOK' /\ MapsDisjoint' /\ SlotsInOrder'
  BY RenameType, RenameSlots DEF IInv
<1>2. PICK n \in Nat : n = Size
  BY <1>1, Occupancies
<1>3. /\ Size' = n + 1
      /\ \A k \in 1..n : Window'[k] = Window[k]
      /\ Window'[n + 1] = z
      /\ Allocated' = IF dest THEN Allocated + 1 ELSE Allocated
      /\ \A k \in 1..n, s \in FLSlot : Writes(Window[k], s)' <=> Writes(Window[k], s)
      /\ \A s \in FLSlot : TailDist(s)' = TailDist(s)
      /\ \A s \in FLSlot : Writes(Window[n + 1], s)' <=> dest /\ s = FL_head
      /\ dest => FL_head \in FLSlot /\ TailDist(FL_head) = Allocated
  BY <1>2, RenameWindow
<1>4. /\ Allocated \in Int
      /\ \A s \in FLSlot : TailDist(s) \in Int
      /\ FL_tail' = FL_tail /\ FL_tail_phase' = FL_tail_phase
  BY <1>1, Occupancies, TailDistances, Constants DEF RenameInst
<1>5. /\ branch => /\ f \in Branch \ GBM /\ GBM' = GBM \cup {f}
                   /\ Checkpoints'[f].FL_head = FL_head'
                   /\ Checkpoints'[f].FL_head_phase = FL_head_phase'
                   /\ Checkpoints'[f].GBM = GBM
      /\ \A b \in GBM : b \in GBM' /\ Checkpoints'[b] = Checkpoints[b]
  <2>1. CASE branch
    <3>1. f \in Branch \ GBM
      BY <2>1, <1>1, FirstFreeIsFree DEF RenameInst
    <3>2. /\ Checkpoints' = [Checkpoints EXCEPT ![f] =
               [shadow_RMT |-> RMT', FL_head |-> FL_head',
                FL_head_phase |-> FL_head_phase', GBM |-> GBM]]
          /\ GBM' = GBM \cup {f}
      BY <2>1 DEF RenameInst
    <3> QED  BY <3>1, <3>2, <1>1 DEF TypeOK
  <2>2. CASE ~branch
    BY <2>2 DEF RenameInst
  <2> QED  BY <2>1, <2>2
<1>6. Unresolved(z) => branch /\ z.branch_ID = f
  BY DEF Renamed, Unresolved
<1>7. ASSUME NEW k \in 1..n, Unresolved(Window[k])
      PROVE  /\ CheckpointOf(k)' = CheckpointOf(k)
             /\ AllocatedAt(CheckpointOf(k))' = AllocatedAt(CheckpointOf(k))
             /\ AllocatedAt(CheckpointOf(k)) \in Int
             /\ AllocatedAt(CheckpointOf(k)) <= Allocated
             /\ Window[k].branch_ID \in GBM
             /\ CheckpointSplits(k)
  <2>1. CheckpointSplits(k) /\ Window[k].branch_ID \in GBM
    BY <1>1, <1>2, <1>7 DEF CheckpointsInOrder
  <2>2. CheckpointOf(k)' = CheckpointOf(k)
    BY <2>1, <1>3, <1>5 DEF CheckpointOf
  <2>3. AllocatedAt(CheckpointOf(k))' = AllocatedAt(CheckpointOf(k))
    BY <2>2, <1>4 DEF AllocatedAt
  <2>4. CheckpointOf(k) \in Checkpoint
    BY <2>1, <1>1 DEF CheckpointOf, TypeOK
  <2>5. AllocatedAt(CheckpointOf(k)) \in Int
    BY <2>1, <2>4, <1>1, CheckpointOccupancy DEF CheckpointSplits
  <2> QED  BY <2>1, <2>2, <2>3, <2>5 DEF CheckpointSplits
<1>8. ASSUME Unresolved(z)
      PROVE  /\ CheckpointOf(n + 1)' = Checkpoints'[f]
             /\ RingOK(CheckpointOf(n + 1).FL_head, CheckpointOf(n + 1).FL_head_phase,
                       FL_tail, FL_tail_phase)'
             /\ AllocatedAt(CheckpointOf(n + 1))' = Allocated'
  <2>1. CheckpointOf(n + 1)' = Checkpoints'[f]
    BY <1>3, <1>6, <1>8 DEF CheckpointOf
  <2>2. /\ CheckpointOf(n + 1)'.FL_head = FL_head'
        /\ CheckpointOf(n + 1)'.FL_head_phase = FL_head_phase'
    BY <2>1, <1>5, <1>6, <1>8
  <2>3. AllocatedAt(CheckpointOf(n + 1))' = Allocated'
    BY <2>2 DEF AllocatedAt, Allocated, FreeRegs
  <2>4. RingOK(FL_head', FL_head_phase', FL_tail', FL_tail_phase')
    BY <1>1 DEF TypeOK
  <2> QED  BY <2>1, <2>2, <2>3, <2>4
<1>9. ASSUME NEW k \in 1..(n + 1), Unresolved(Window'[k])
      PROVE  CheckpointSplits(k)' /\ Window'[k].branch_ID \in GBM'
  <2>1. CASE k \in 1..n
    <3>1. /\ Unresolved(Window[k]) /\ CheckpointSplits(k)
          /\ CheckpointOf(k)' = CheckpointOf(k)
          /\ AllocatedAt(CheckpointOf(k))' = AllocatedAt(CheckpointOf(k))
          /\ AllocatedAt(CheckpointOf(k)) \in Int
          /\ AllocatedAt(CheckpointOf(k)) <= Allocated
          /\ Window'[k].branch_ID \in GBM'
      BY <2>1, <1>3, <1>5, <1>7, <1>9
    <3>2. ASSUME NEW l \in 1..(n + 1), NEW s \in FLSlot, Writes(Window[l], s)'
          PROVE  l <= k <=> TailDist(s)' < AllocatedAt(CheckpointOf(k))'
      <4>1. CASE l \in 1..n
        BY <4>1, <3>1, <3>2, <1>2, <1>3 DEF CheckpointSplits
      <4>2. CASE l = n + 1
        BY <4>2, <2>1, <3>1, <3>2, <1>3, <1>4
      <4> QED  BY <4>1, <4>2
    <3>3. (AllocatedAt(CheckpointOf(k)) <= Allocated)'
      BY <3>1, <1>3, <1>4
    <3>4. RingOK(CheckpointOf(k).FL_head, CheckpointOf(k).FL_head_phase, FL_tail, FL_tail_phase)'
      BY <3>1, <1>4 DEF CheckpointSplits
    <3>5. CheckpointSplits(k)'
      BY <3>2, <3>3, <3>4, <1>3 DEF CheckpointSplits
    <3> QED  BY <3>1, <3>5
  <2>2. CASE k = n + 1
    <3>1. Unresolved(z) /\ Window'[k].branch_ID = f /\ f \in GBM'
      BY <2>2, <1>3, <1>5, <1>6, <1>9
    <3>2. ASSUME NEW l \in 1..(n + 1), NEW s \in FLSlot, Writes(Window[l], s)'
          PROVE  TailDist(s)' < Allocated'
      <4>3. CASE l \in 1..n
        <5>1. TailDist(s) < Allocated
          BY <4>3, <3>2, <1>1, <1>2, <1>3, WriterSlot
        <5> QED  BY <5>1, <1>3, <1>4
      <4>4. CASE l = n + 1
        <5>1. dest /\ s = FL_head /\ TailDist(s) = Allocated
          BY <4>4, <3>2, <1>3
        <5> QED  BY <5>1, <1>3, <1>4
      <4> QED  BY <4>3, <4>4
    <3>3. CheckpointSplits(k)'
      <4>1. Allocated' \in Int
        BY <1>3, <1>4
      <4> QED  BY <2>2, <3>1, <3>2, <4>1, <1>3, <1>8 DEF CheckpointSplits
    <3> QED  BY <3>1, <3>3
  <2> QED  BY <2>1, <2>2
<1>10. ASSUME NEW l \in 1..(n + 1), NEW k \in 1..(n + 1), l < k,
              Unresolved(Window'[l]), Unresolved(Window'[k])
       PROVE  CheckpointNests(l, k)'
  <2>1. /\ l \in 1..n /\ Unresolved(Window[l]) /\ Window'[l] = Window[l]
    BY <1>3, <1>10
  <2>2. CASE k \in 1..n
    <3>1. CheckpointNests(l, k) /\ Unresolved(Window[k]) /\ Window'[k] = Window[k]
      BY <2>1, <2>2, <1>1, <1>2, <1>3, <1>10 DEF CheckpointsInOrder
    <3> QED  BY <3>1, <2>1, <2>2, <1>7 DEF CheckpointNests
  <2>3. CASE k = n + 1
    <3>1. Unresolved(z) /\ Window'[k].branch_ID = f
      BY <2>3, <1>3, <1>6, <1>10
    <3>2. Window[l].branch_ID \in GBM /\ f \notin GBM /\ CheckpointOf(k)'.GBM = GBM
      BY <2>1, <2>3, <3>1, <1>5, <1>6, <1>7, <1>8
    <3>3. AllocatedAt(CheckpointOf(l))' <= AllocatedAt(CheckpointOf(k))'
      BY <2>1, <2>3, <3>1, <1>3, <1>4, <1>7, <1>8
    <3> QED  BY <2>1, <3>1, <3>2, <3>3 DEF CheckpointNests
  <2> QED  BY <2>2, <2>3
<1> QED  BY <1>3, <1>9, <1>10 DEF CheckpointsInOrder

(* Rename2 keeps the invariant. *)
LEMMA RenameStep ==
  ASSUME IInv, NEW dest \in BOOLEAN, NEW r \in LogReg, NEW branch \in BOOLEAN,
         RenameInst(dest, r, branch)
  PROVE  IInv'
<1> DEFINE z == Renamed(dest, r, branch)
<1>1. /\ TypeOK /\ DispatchPending /\ TypeOK' /\ z \in Inst
      /\ DISPATCH' = Append(DISPATCH, z)
  BY RenameType DEF IInv
<1>2. /\ Len(DISPATCH) \in Nat /\ Len(DISPATCH') = Len(DISPATCH) + 1
      /\ DISPATCH'[Len(DISPATCH) + 1] = z
      /\ \A k \in 1..Len(DISPATCH) : DISPATCH'[k] = DISPATCH[k]
  BY <1>1, AppendProperties, LenProperties DEF TypeOK
<1>3. ~z.completed
  BY DEF Renamed
<1>4. DispatchPending'
  BY <1>1, <1>2, <1>3 DEF DispatchPending
<1> QED  BY <1>1, <1>4, RenameSlots, RenameCheckpoints DEF IInv
-----------------------------------------------------------------------------
(* Recovery truncates the window behind the branch, and the checkpoint's   *)
(* free list head gives back exactly the slots behind it.                  *)

(* The window and the slots after a branch recovery. *)
LEMMA RecoveredWindow ==
  ASSUME IInv, NEW i \in ALIndex, ResolveMispredict(i),
         NEW n \in Nat, n = Age(i) + 1
  PROVE  /\ n \in 1..Size /\ Size' = n
         /\ Unresolved(Window[n]) /\ Window[n].branch_ID = ActiveList[i].branch_ID
         /\ \A k \in 1..n : /\ Window'[k].dest_valid = Window[k].dest_valid
                            /\ Window'[k].log_reg = Window[k].log_reg
                            /\ Window'[k].phys_reg = Window[k].phys_reg
                            /\ k < n => Window'[k] = Window[k]
         /\ Window'[n].completed
         /\ Allocated' = AllocatedAt(CheckpointOf(n))
<1> DEFINE b == ActiveList[i].branch_ID
<1>1. /\ TypeOK /\ CheckpointsInOrder /\ TypeOK' /\ ALCount' = n
  BY MispredictType DEF IInv
<1>2. /\ InFlight(i) /\ Unresolved(ActiveList[i]) /\ DISPATCH' = <<>>
      /\ FL_head' = Checkpoints[b].FL_head
      /\ FL_head_phase' = Checkpoints[b].FL_head_phase
      /\ ActiveList' = [ActiveList EXCEPT ![i] =
                          [ActiveList[i] EXCEPT !.completed = TRUE]]
      /\ UNCHANGED <<FL_tail, FL_tail_phase, AL_head>>
  BY DEF ResolveMispredict, TypeOK
<1>3. /\ n \in 1..Size /\ n <= ALCount /\ Window[n] = ActiveList[i]
      /\ Age(i) \in Nat /\ AtAge(Age(i)) = i /\ n - 1 = Age(i)
  BY <1>1, <1>2, WindowAt, Ages, Constants
<1>4. Size' = n
  BY <1>1, <1>2 DEF Size
<1>5. ASSUME NEW k \in 1..n
      PROVE  /\ k \in 1..Size /\ Window[k] = ActiveList[AtAge(k - 1)]
             /\ Window'[k] = ActiveList'[AtAge(k - 1)]
             /\ AtAge(k - 1) \in ALIndex
             /\ k < n => AtAge(k - 1) # i
  <2>1. /\ k <= ALCount /\ k \in 1..Size /\ k - 1 \in 0..(n_active - 1)
    <3>1. ALCount \in 0..n_active /\ Size \in Nat
      BY <1>1, Occupancies
    <3>2. n \in 1..Size /\ n <= ALCount
      BY <1>3
    <3>3. n_active \in Nat
      BY Constants
    <3> HIDE DEF b
    <3> QED  BY <3>1, <3>2, <3>3
  <2>2. AtAge(k - 1)' = AtAge(k - 1)
    BY <1>2 DEF AtAge
  <2>3. Window'[k] = ActiveList'[AtAge(k - 1)]
    BY <1>1, <1>4, <2>2 DEF Window, Size
  <2>4. k < n => AtAge(k - 1) # i
    <3>1. Age(AtAge(k - 1)) = k - 1
      BY <2>1, <1>1, Ages
    <3> QED  BY <3>1, <1>3
  <2> QED  BY <2>1, <2>3, <2>4, <1>1, WindowValues
<1>6. \A j \in ALIndex :
        /\ ActiveList'[j].dest_valid = ActiveList[j].dest_valid
        /\ ActiveList'[j].log_reg = ActiveList[j].log_reg
        /\ ActiveList'[j].phys_reg = ActiveList[j].phys_reg
        /\ j # i => ActiveList'[j] = ActiveList[j]
        /\ j = i => ActiveList'[j].completed
  BY <1>1, <1>2 DEF TypeOK, Inst
<1>7. \A k \in 1..n : /\ Window'[k].dest_valid = Window[k].dest_valid
                      /\ Window'[k].log_reg = Window[k].log_reg
                      /\ Window'[k].phys_reg = Window[k].phys_reg
                      /\ k < n => Window'[k] = Window[k]
  BY <1>5, <1>6
<1>8. Window'[n].completed
  <2>1. n \in 1..n
    BY <1>3
  <2> QED  BY <2>1, <1>3, <1>5, <1>6
<1>9. Allocated' = AllocatedAt(CheckpointOf(n))
  BY <1>2, <1>3 DEF Allocated, AllocatedAt, FreeRegs, CheckpointOf
<1> QED  BY <1>2, <1>3, <1>4, <1>7, <1>8, <1>9

(* Recovery from a mispredicted branch keeps the invariant. *)
LEMMA MispredictStep ==
  ASSUME IInv, NEW i \in ALIndex, ResolveMispredict(i)
  PROVE  IInv'
<1>1. /\ TypeOK /\ MapsDisjoint /\ SlotsInOrder /\ CheckpointsInOrder /\ TypeOK'
  BY MispredictType DEF IInv
<1>2. PICK n \in Nat : n = Age(i) + 1
  BY <1>1, Ages, Constants
<1>3. /\ n \in 1..Size /\ Size' = n
      /\ Unresolved(Window[n]) /\ Window[n].branch_ID = ActiveList[i].branch_ID
      /\ \A k \in 1..n : /\ Window'[k].dest_valid = Window[k].dest_valid
                         /\ Window'[k].phys_reg = Window[k].phys_reg
                         /\ k < n => Window'[k] = Window[k]
      /\ Window'[n].completed
      /\ Allocated' = AllocatedAt(CheckpointOf(n))
  BY <1>2, RecoveredWindow
<1>4. /\ AMT' = AMT /\ FreeList' = FreeList /\ FL_tail' = FL_tail
      /\ FL_tail_phase' = FL_tail_phase /\ Checkpoints' = Checkpoints
      /\ GBM' = CheckpointOf(n).GBM \ {Window[n].branch_ID}
      /\ DISPATCH' = <<>>
  BY <1>3 DEF ResolveMispredict, RestoredGBM, ClearBit, CheckpointOf
<1>5. CheckpointSplits(n)
  BY <1>1, <1>3 DEF CheckpointsInOrder
<1>6. /\ \A s \in FLSlot : TailDist(s)' = TailDist(s) /\ TailDist(s) \in Int
      /\ Allocated \in Int /\ Allocated' \in Int
      /\ 1..n \subseteq 1..Size /\ Size \in Nat
  <2>0. CheckpointOf(n) \in Checkpoint
    BY <1>1, <1>3, WindowValues, UnresolvedID DEF CheckpointOf, TypeOK
  <2>1. Allocated \in Int /\ Allocated' \in Int /\ Size \in Nat
    BY <2>0, <1>1, <1>3, <1>5, Occupancies, Constants, CheckpointOccupancy
    DEF CheckpointSplits
  <2> QED  BY <2>1, <1>1, <1>3, <1>4, TailDistances, Constants DEF TailDist
<1>7. \A k \in 1..n, s \in FLSlot : Writes(Window[k], s)' <=> Writes(Window[k], s)
  BY <1>3, <1>4 DEF Writes
<1>8. MapsDisjoint'
  BY <1>1, <1>4 DEF MapsDisjoint
<1>9. SlotsInOrder'
  <2>1. ASSUME NEW k \in 1..n, Window'[k].dest_valid
        PROVE  \E s \in FLSlot : Writes(Window[k], s)' /\ TailDist(s)' < Allocated'
    <3>1. PICK s \in FLSlot : Writes(Window[k], s) /\ TailDist(s) < Allocated
      BY <2>1, <1>1, <1>3, <1>6 DEF SlotsInOrder
    <3>2. TailDist(s) < Allocated'
      BY <3>1, <1>3, <1>5, <1>6 DEF CheckpointSplits
    <3> QED  BY <3>1, <3>2, <1>6, <1>7
  <2>2. ASSUME NEW k \in 1..n, NEW l \in 1..n, NEW s \in FLSlot, NEW t \in FLSlot,
               k < l, Writes(Window[k], s)', Writes(Window[l], t)'
        PROVE  TailDist(s)' < TailDist(t)'
    BY <2>2, <1>1, <1>6, <1>7 DEF SlotsInOrder
  <2>3. ASSUME NEW s \in FLSlot, TailDist(s)' < Allocated'
        PROVE  \E k \in 1..n : Writes(Window[k], s)'
    <3>1. TailDist(s) < AllocatedAt(CheckpointOf(n)) /\ TailDist(s) < Allocated
      BY <2>3, <1>3, <1>5, <1>6 DEF CheckpointSplits
    <3>2. PICK k \in 1..Size : Writes(Window[k], s)
      BY <3>1, <1>1 DEF SlotsInOrder
    <3>3. k <= n
      BY <3>1, <3>2, <1>5 DEF CheckpointSplits
    <3> QED  BY <3>2, <3>3, <1>7
  <2> QED  BY <2>1, <2>2, <2>3, <1>3 DEF SlotsInOrder
<1>10. ASSUME NEW k \in 1..n, Unresolved(Window'[k])
       PROVE  /\ k < n /\ k \in 1..Size /\ Window'[k] = Window[k]
              /\ Unresolved(Window[k])
              /\ CheckpointOf(k)' = CheckpointOf(k)
              /\ AllocatedAt(CheckpointOf(k))' = AllocatedAt(CheckpointOf(k))
  <2>1. k < n
    BY <1>3, <1>10 DEF Unresolved
  <2>2. CheckpointOf(k)' = CheckpointOf(k)
    BY <2>1, <1>3, <1>4 DEF CheckpointOf
  <2> QED  BY <2>1, <2>2, <1>3, <1>4, <1>6, <1>10 DEF AllocatedAt
<1>11. ASSUME NEW k \in 1..n, Unresolved(Window'[k])
       PROVE  CheckpointSplits(k)' /\ Window'[k].branch_ID \in GBM'
  <2>1. CheckpointSplits(k) /\ CheckpointNests(k, n)
    BY <1>1, <1>3, <1>10, <1>11 DEF CheckpointsInOrder
  <2>2. Window'[k].branch_ID \in GBM'
    BY <2>1, <1>4, <1>10, <1>11 DEF CheckpointNests
  <2>3. (AllocatedAt(CheckpointOf(k)) <= Allocated)'
    BY <2>1, <1>3, <1>10, <1>11 DEF CheckpointNests
  <2>4. RingOK(CheckpointOf(k).FL_head, CheckpointOf(k).FL_head_phase, FL_tail, FL_tail_phase)'
    BY <2>1, <1>4, <1>10, <1>11 DEF CheckpointSplits
  <2>5. ASSUME NEW l \in 1..n, NEW s \in FLSlot, Writes(Window[l], s)'
        PROVE  l <= k <=> TailDist(s)' < AllocatedAt(CheckpointOf(k))'
    BY <2>1, <2>5, <1>6, <1>7, <1>10, <1>11 DEF CheckpointSplits
  <2> QED  BY <2>2, <2>3, <2>4, <2>5, <1>3 DEF CheckpointSplits
<1>12. ASSUME NEW l \in 1..n, NEW k \in 1..n, l < k,
              Unresolved(Window'[l]), Unresolved(Window'[k])
       PROVE  CheckpointNests(l, k)'
  <2>1. CheckpointNests(l, k)
    BY <1>1, <1>10, <1>12 DEF CheckpointsInOrder
  <2> QED  BY <2>1, <1>10, <1>12 DEF CheckpointNests
<1>13. CheckpointsInOrder'
  BY <1>3, <1>11, <1>12 DEF CheckpointsInOrder
<1>14. DispatchPending'
  BY <1>4 DEF DispatchPending
<1> QED  BY <1>1, <1>8, <1>9, <1>13, <1>14 DEF IInv
-----------------------------------------------------------------------------
(* Commit: the head of the window owns the slot at FL_tail, and exchanges  *)
(* its register there with the one AMT maps.                               *)

(* The window starts with the active list head. *)
LEMMA HeadOfWindow ==
  ASSUME TypeOK, HeadCompleted
  PROVE  /\ 1 \in 1..Size /\ Window[1] = ActiveList[AL_head]
         /\ ActiveList[AL_head] \in Inst /\ ALCount > 0 /\ Size - 1 \in Nat
<1>1. /\ ALCount \in Nat /\ ALCount > 0 /\ Len(DISPATCH) \in Nat /\ Size \in Nat
  BY Occupancies, Constants DEF HeadCompleted
<1>2. 1 \in 1..Size /\ 1 <= ALCount
  BY <1>1 DEF Size
<1>3. AL_head \in 0..(n_active - 1) /\ ActiveList[AL_head] \in Inst
  BY DEF TypeOK, ALIndex
<1>4. AtAge(0) = AL_head
  BY <1>3, Constants DEF AtAge, Ahead
<1>5. Window[1] = ActiveList[AL_head]
  BY <1>2, <1>4, WindowValues
<1> QED  BY <1>1, <1>2, <1>3, <1>5

(* The destination of the oldest instruction is in the free list slot at   *)
(* FL_tail.                                                                *)
LEMMA HeadSlot ==
  ASSUME TypeOK, MapsDisjoint, SlotsInOrder, HeadCompleted,
         ActiveList[AL_head].dest_valid
  PROVE  /\ Writes(Window[1], FL_tail) /\ FL_tail \in FLSlot
         /\ ActiveList[AL_head].phys_reg = FreeList[FL_tail]
         /\ Allocated > 0
         /\ \A k \in 1..Size : Writes(Window[k], FL_tail) => k = 1
<1>1. /\ 1 \in 1..Size /\ Window[1] = ActiveList[AL_head]
  BY HeadOfWindow
<1>2. /\ FL_tail \in FLSlot /\ TailDist(FL_tail) = 0 /\ Allocated \in Int
      /\ \A s \in FLSlot : TailDist(s) \in Nat
  BY TailDistances, Occupancies, Constants DEF TypeOK
<1>3. PICK s \in FLSlot : Writes(Window[1], s) /\ TailDist(s) < Allocated
  BY <1>1 DEF SlotsInOrder
<1>4. Allocated > 0
  BY <1>2, <1>3
<1>5. ASSUME NEW k \in 1..Size, Writes(Window[k], FL_tail)
      PROVE  k = 1
  <2>1. CASE 1 < k
    <3>1. TailDist(s) < TailDist(FL_tail)
      BY <2>1, <1>1, <1>2, <1>3, <1>5 DEF SlotsInOrder
    <3> QED  BY <3>1, <1>2
  <2> QED  BY <2>1
<1>6. PICK k \in 1..Size : Writes(Window[k], FL_tail)
  BY <1>2, <1>4 DEF SlotsInOrder
<1>7. Writes(Window[1], FL_tail)
  BY <1>5, <1>6
<1> QED  BY <1>1, <1>2, <1>4, <1>5, <1>7 DEF Writes

(* Committing the head keeps the committed map injective. *)
LEMMA CommittedMapInjective ==
  ASSUME TypeOK, MapsDisjoint, SlotsInOrder, HeadCompleted
  PROVE  /\ CommittedMap(ActiveList[AL_head]) \in [LogReg -> PhysReg]
         /\ InjectiveMap(CommittedMap(ActiveList[AL_head]))
<1> DEFINE x == ActiveList[AL_head]
<1>1. x \in Inst /\ x.log_reg \in LogReg /\ x.phys_reg \in PhysReg
  BY HeadOfWindow, InstFields
<1>2. CASE x.dest_valid
  <2>1. x.phys_reg = FreeList[FL_tail] /\ FL_tail \in FLSlot
    BY <1>2, HeadSlot
  <2>2. CommittedMap(x) = [AMT EXCEPT ![x.log_reg] = x.phys_reg]
    BY <1>2 DEF CommittedMap
  <2> QED  BY <2>1, <2>2, <1>1 DEF MapsDisjoint, InjectiveMap, TypeOK
<1>3. CASE ~x.dest_valid
  BY <1>3 DEF CommittedMap, MapsDisjoint, InjectiveMap, TypeOK
<1> QED  BY <1>2, <1>3

(* A squash for an exception or a load violation keeps the invariant. *)
LEMMA RetireSquashStep ==
  ASSUME IInv, RetireSquash
  PROVE  IInv'
BY SquashStep DEF IInv, RetireSquash, TypeOK, MapsDisjoint, InjectiveMap

(* Committing the head and squashing the rest keeps the invariant. *)
LEMMA RetireCommitSquashStep ==
  ASSUME IInv, RetireCommitSquash
  PROVE  IInv'
<1>1. /\ TypeOK /\ MapsDisjoint /\ SlotsInOrder /\ HeadCompleted
      /\ squash(CommittedMap(ActiveList[AL_head]), FreedList(ActiveList[AL_head]))
  BY DEF IInv, RetireCommitSquash
<1> QED  BY <1>1, CommittedMapInjective, SquashStep

(* A commit exchanges one register between AMT and the slot at FL_tail. *)
LEMMA CommitMaps ==
  ASSUME IInv, RetireCommit, ActiveList[AL_head].dest_valid
  PROVE  /\ AMT' \in [LogReg -> PhysReg] /\ FreeList' \in [FLSlot -> PhysReg]
         /\ PRF_ready' \in [PhysReg -> BOOLEAN]
         /\ FL_tail' \in FLSlot /\ FL_tail_phase' \in BOOLEAN
         /\ RingOK(FL_head, FL_head_phase, FL_tail', FL_tail_phase')
         /\ FL_tail' = Next1(FL_tail, FL_size)
         /\ FL_tail_phase' = NextPhase(FL_tail, FL_tail_phase, FL_size)
         /\ Allocated' = Allocated - 1 /\ Allocated > 0
         /\ \A s \in FLSlot : s # FL_tail => FreeList'[s] = FreeList[s]
         /\ FreeList'[FL_tail] \in {AMT[r] : r \in LogReg}
         /\ MapsDisjoint'
<1> DEFINE x == ActiveList[AL_head]
<1>1. /\ TypeOK /\ MapsDisjoint /\ SlotsInOrder /\ HeadCompleted
  BY DEF IInv, RetireCommit
<1>2. x \in Inst /\ x.log_reg \in LogReg /\ x.phys_reg \in PhysReg
  BY <1>1, HeadOfWindow, InstFields
<1>3. x.phys_reg = FreeList[FL_tail] /\ FL_tail \in FLSlot /\ Allocated > 0
  BY <1>1, HeadSlot
<1>4. /\ AMT' = [AMT EXCEPT ![x.log_reg] = FreeList[FL_tail]]
      /\ FreeList' = [FreeList EXCEPT ![FL_tail] = AMT[x.log_reg]]
      /\ PRF_ready' = [PRF_ready EXCEPT ![x.phys_reg] = TRUE]
      /\ FL_tail' = Next1(FL_tail, FL_size)
      /\ FL_tail_phase' = NextPhase(FL_tail, FL_tail_phase, FL_size)
      /\ FL_head' = FL_head /\ FL_head_phase' = FL_head_phase
  BY <1>3 DEF RetireCommit, commit, CommittedMap, FreedList
<1>5. /\ AMT' \in [LogReg -> PhysReg] /\ FreeList' \in [FLSlot -> PhysReg]
      /\ PRF_ready' \in [PhysReg -> BOOLEAN]
  BY <1>1, <1>2, <1>3, <1>4 DEF TypeOK
<1>6. /\ FL_head \in 0..(FL_size - 1) /\ FL_tail \in 0..(FL_size - 1)
      /\ FL_head_phase \in BOOLEAN /\ FL_tail_phase \in BOOLEAN
      /\ RingOK(FL_head, FL_head_phase, FL_tail, FL_tail_phase)
      /\ FreeRegs \in 0..FL_size /\ FreeRegs < FL_size
  BY <1>1, <1>3, Occupancies, Constants DEF TypeOK, FLSlot, Allocated
<1>7. /\ FL_tail' \in FLSlot /\ FL_tail_phase' \in BOOLEAN
  BY <1>4, <1>6, Constants, AdvanceType DEF FLSlot
<1>8. /\ RingOK(FL_head, FL_head_phase, FL_tail', FL_tail_phase')
      /\ FreeRegs' = FreeRegs + 1
  BY <1>4, <1>6, Constants, AdvanceTail DEF FreeRegs
<1>9. Allocated' = Allocated - 1
  BY <1>6, <1>8, Constants DEF Allocated
<1>10. /\ \A s \in FLSlot : s # FL_tail => FreeList'[s] = FreeList[s]
       /\ FreeList'[FL_tail] = AMT[x.log_reg]
       /\ AMT'[x.log_reg] = FreeList[FL_tail]
       /\ \A r \in LogReg : r # x.log_reg => AMT'[r] = AMT[r]
  BY <1>1, <1>2, <1>3, <1>4 DEF TypeOK
<1>11. MapsDisjoint'
  <2>1. \A r, q \in LogReg : AMT'[r] = AMT'[q] => r = q
    BY <1>1, <1>2, <1>3, <1>10 DEF MapsDisjoint
  <2>2. \A s, t \in FLSlot : FreeList'[s] = FreeList'[t] => s = t
    BY <1>1, <1>2, <1>3, <1>10 DEF MapsDisjoint
  <2>3. \A r \in LogReg, s \in FLSlot : AMT'[r] # FreeList'[s]
    BY <1>1, <1>2, <1>3, <1>10 DEF MapsDisjoint
  <2>4. \A p \in PhysReg : \/ \E r \in LogReg : AMT'[r] = p
                           \/ \E s \in FLSlot : FreeList'[s] = p
    BY <1>1, <1>2, <1>3, <1>10 DEF MapsDisjoint
  <2> QED  BY <2>1, <2>2, <2>3, <2>4 DEF MapsDisjoint
<1> QED  BY <1>2, <1>3, <1>4, <1>5, <1>7, <1>8, <1>9, <1>10, <1>11

(* A commit keeps the types and removes one active list entry. *)
LEMMA CommitType ==
  ASSUME IInv, RetireCommit
  PROVE  TypeOK' /\ MapsDisjoint' /\ ALCount' = ALCount - 1
<1>1. TypeOK /\ MapsDisjoint /\ HeadCompleted /\ ALCount > 0
  BY DEF IInv, RetireCommit, HeadCompleted
<1>2. /\ AL_head' = Next1(AL_head, n_active)
      /\ AL_head_phase' = NextPhase(AL_head, AL_head_phase, n_active)
      /\ UNCHANGED <<RMT, FL_head, FL_head_phase, ActiveList, AL_tail,
                     AL_tail_phase, GBM, Checkpoints, DISPATCH>>
  BY DEF RetireCommit
<1>3. /\ AL_head \in 0..(n_active - 1) /\ AL_tail \in 0..(n_active - 1)
      /\ AL_head_phase \in BOOLEAN /\ AL_tail_phase \in BOOLEAN
      /\ RingOK(AL_head, AL_head_phase, AL_tail, AL_tail_phase)
  BY <1>1 DEF TypeOK, ALIndex
<1>4. AL_head' \in ALIndex /\ AL_head_phase' \in BOOLEAN
  BY <1>2, <1>3, Constants, AdvanceType DEF ALIndex
<1>5. /\ RingOK(AL_head', AL_head_phase', AL_tail, AL_tail_phase)
      /\ ALCount' = ALCount - 1
  BY <1>1, <1>2, <1>3, Constants, AdvanceHead DEF ALCount
<1>6. /\ AMT' \in [LogReg -> PhysReg] /\ FreeList' \in [FLSlot -> PhysReg]
      /\ PRF_ready' \in [PhysReg -> BOOLEAN]
      /\ FL_tail' \in FLSlot /\ FL_tail_phase' \in BOOLEAN
      /\ RingOK(FL_head, FL_head_phase, FL_tail', FL_tail_phase')
      /\ MapsDisjoint'
  <2>1. CASE ActiveList[AL_head].dest_valid
    BY <2>1, CommitMaps
  <2>2. CASE ~ActiveList[AL_head].dest_valid
    <3>1. UNCHANGED <<AMT, FreeList, PRF_ready, FL_tail, FL_tail_phase>>
      BY <2>2 DEF RetireCommit, commit, CommittedMap, FreedList
    <3> QED  BY <3>1, <1>1 DEF TypeOK, MapsDisjoint
  <2> QED  BY <2>1, <2>2
<1> QED  BY <1>1, <1>2, <1>4, <1>5, <1>6 DEF TypeOK

(* 1 if the head writes a register, and so consumes the slot at FL_tail. *)
HeadWrites == IF ActiveList[AL_head].dest_valid THEN 1 ELSE 0

(* A commit drops the first element of the window and, with it, its slot. *)
LEMMA CommitWindow ==
  ASSUME IInv, RetireCommit, NEW n \in Nat, n = Size - 1,
         NEW d \in {0, 1}, d = HeadWrites
  PROVE  /\ Size' = n /\ Allocated' = Allocated - d
         /\ \A k \in 1..n : k + 1 \in 1..Size /\ Window'[k] = Window[k + 1]
         /\ \A k \in 1..n, s \in FLSlot :
              /\ Writes(Window[k], s)' <=> Writes(Window[k + 1], s)
              /\ Writes(Window[k + 1], s) => TailDist(s)' = TailDist(s) - d
         /\ \A s \in FLSlot : TailDist(s)' < Allocated' =>
              TailDist(s) < Allocated /\ ~Writes(Window[1], s)
<1> DEFINE x == ActiveList[AL_head]
<1>1. /\ TypeOK /\ MapsDisjoint /\ SlotsInOrder /\ HeadCompleted
      /\ ALCount' = ALCount - 1 /\ TypeOK'
  BY CommitType DEF IInv, RetireCommit
<1>2. /\ AL_head' = Next1(AL_head, n_active) /\ ActiveList' = ActiveList
      /\ DISPATCH' = DISPATCH /\ FL_head' = FL_head /\ FL_head_phase' = FL_head_phase
  BY DEF RetireCommit
<1>3. /\ ALCount \in Nat /\ ALCount <= n_active /\ Len(DISPATCH) \in Nat
      /\ ALCount > 0 /\ Size = ALCount + Len(DISPATCH)
      /\ AL_head \in 0..(n_active - 1)
      /\ Allocated \in Int /\ FL_size \in Nat /\ Allocated <= FL_size
      /\ 1 \in 1..Size /\ Window[1] = x
  <2>1. /\ ALCount \in Nat /\ ALCount <= n_active /\ Len(DISPATCH) \in Nat
        /\ Allocated \in Int /\ FL_size \in Nat /\ Allocated <= FL_size
    BY <1>1, Occupancies, Constants
  <2>2. ALCount > 0 /\ 1 \in 1..Size /\ Window[1] = x
    BY <1>1, HeadOfWindow
  <2>3. AL_head \in 0..(n_active - 1) /\ Size = ALCount + Len(DISPATCH)
    BY <1>1 DEF TypeOK, ALIndex, Size
  <2> QED  BY <2>1, <2>2, <2>3
<1>4. Size' = n
  BY <1>1, <1>2, <1>3 DEF Size
<1>5. ASSUME NEW k \in 1..n
      PROVE  k + 1 \in 1..Size /\ Window'[k] = Window[k + 1]
  <2>1. k + 1 \in 1..Size
    BY <1>3
  <2>2. Window[k + 1] = IF k + 1 <= ALCount THEN ActiveList[AtAge((k + 1) - 1)]
                                            ELSE DISPATCH[(k + 1) - ALCount]
    BY <2>1, <1>1, WindowValues
  <2>3. Window'[k] = IF k <= ALCount - 1 THEN ActiveList[AtAge(k - 1)']
                                         ELSE DISPATCH[k - (ALCount - 1)]
    BY <1>1, <1>2, <1>4 DEF Window, Size
  <2>4. CASE k + 1 <= ALCount
    <3>1. k - 1 \in 0..(n_active - 2)
      BY <2>4, <1>3, Constants
    <3>2. Ahead(k - 1, Next1(AL_head, n_active), n_active)
            = Ahead((k - 1) + 1, AL_head, n_active)
      BY <3>1, <1>3, Constants, AdvanceAhead
    <3>3. (k - 1) + 1 = (k + 1) - 1
      OBVIOUS
    <3>4. AtAge(k - 1)' = AtAge((k + 1) - 1)
      BY <3>2, <3>3, <1>2 DEF AtAge
    <3>5. k <= ALCount - 1
      BY <2>4, <1>3
    <3> QED  BY <2>1, <2>2, <2>3, <2>4, <3>4, <3>5
  <2>5. CASE ~(k + 1 <= ALCount)
    <3>1. ~(k <= ALCount - 1) /\ k - (ALCount - 1) = (k + 1) - ALCount
      BY <2>5, <1>3
    <3> QED  BY <2>1, <2>2, <2>3, <2>5, <3>1
  <2> QED  BY <2>4, <2>5
<1>6. CASE x.dest_valid
  <2>1. d = 1
    BY <1>6 DEF HeadWrites
  <2>2. /\ Writes(Window[1], FL_tail) /\ FL_tail \in FLSlot
        /\ \A k \in 1..Size : Writes(Window[k], FL_tail) => k = 1
    BY <1>1, <1>6, HeadSlot
  <2>3. /\ FL_tail' = Next1(FL_tail, FL_size) /\ Allocated' = Allocated - 1
        /\ \A s \in FLSlot : s # FL_tail => FreeList'[s] = FreeList[s]
        /\ FreeList'[FL_tail] \in {AMT[r] : r \in LogReg}
    BY <1>6, CommitMaps
  <2>4. /\ \A s \in FLSlot : s # FL_tail => TailDist(s)' = TailDist(s) - 1
        /\ TailDist(FL_tail) \in Int
        /\ \A s \in FLSlot : s = FL_tail => TailDist(s)' = FL_size - 1
        /\ \A s \in FLSlot : TailDist(s) \in Int
    <3>1. \A s \in FLSlot : s \in 0..(FL_size - 1) /\ FL_tail \in 0..(FL_size - 1)
      BY <2>2 DEF FLSlot
    <3>2. ASSUME NEW s \in FLSlot
          PROVE  TailDist(s)' = IF s = FL_tail THEN FL_size - 1 ELSE TailDist(s) - 1
      <4>1. TailDist(s)' = Distance(s, Next1(FL_tail, FL_size), FL_size)
        BY <2>3 DEF TailDist
      <4> QED  BY <4>1, <3>1, <2>2, Constants, AdvanceDistance DEF TailDist
    <3> QED  BY <3>2, <2>2, <1>1, TailDistances, Constants
  <2>5. ASSUME NEW k \in 1..n, NEW s \in FLSlot
        PROVE  /\ Writes(Window[k], s)' <=> Writes(Window[k + 1], s)
               /\ Writes(Window[k + 1], s) => s # FL_tail
    <3>1. k + 1 \in 1..Size /\ Window'[k] = Window[k + 1] /\ k + 1 # 1
      BY <1>5
    <3>2. Writes(Window[k + 1], s) => s # FL_tail
      BY <3>1, <2>2
    <3>3. Writes(Window[k], s)' <=>
            Window[k + 1].dest_valid /\ FreeList'[s] = Window[k + 1].phys_reg
      BY <3>1 DEF Writes
    <3>4. CASE s # FL_tail
      BY <3>2, <3>3, <3>4, <2>3 DEF Writes
    <3>5. CASE s = FL_tail
      <4>1. ASSUME Window[k + 1].dest_valid
            PROVE  FreeList'[s] # Window[k + 1].phys_reg
        <5>1. PICK t \in FLSlot : FreeList[t] = Window[k + 1].phys_reg
          BY <4>1, <3>1, <1>1 DEF SlotsInOrder, Writes
        <5> QED  BY <5>1, <3>5, <2>3, <1>1 DEF MapsDisjoint
      <4> QED  BY <4>1, <3>2, <3>3, <3>5
    <3> QED  BY <3>4, <3>5
  <2>6. ASSUME NEW s \in FLSlot, TailDist(s)' < Allocated'
        PROVE  TailDist(s) < Allocated /\ ~Writes(Window[1], s)
    <3>1. s # FL_tail
      BY <2>3, <2>4, <2>6, <1>3
    <3>2. TailDist(s) < Allocated
      BY <3>1, <2>3, <2>4, <2>6, <1>3
    <3>3. ~Writes(Window[1], s)
      BY <3>1, <2>2, <1>1, <1>3, WriterSlot
    <3> QED  BY <3>2, <3>3
  <2> QED  BY <2>1, <2>3, <2>4, <2>5, <2>6, <1>4, <1>5
<1>7. CASE ~x.dest_valid
  <2>1. d = 0
    BY <1>7 DEF HeadWrites
  <2>2. FreeList' = FreeList /\ FL_tail' = FL_tail /\ FL_tail_phase' = FL_tail_phase
    BY <1>7 DEF RetireCommit, commit, FreedList
  <2>3. Allocated' = Allocated - 0
    BY <2>2, <1>2, <1>3 DEF Allocated, FreeRegs
  <2>4. \A s \in FLSlot : TailDist(s)' = TailDist(s) /\ TailDist(s) - 0 = TailDist(s)
    BY <2>2, <1>1, TailDistances, Constants DEF TailDist
  <2>5. \A k \in 1..n, s \in FLSlot : Writes(Window[k], s)' <=> Writes(Window[k + 1], s)
    BY <2>2, <1>5 DEF Writes
  <2>6. \A s \in FLSlot : ~Writes(Window[1], s)
    BY <1>3, <1>7 DEF Writes
  <2> QED  BY <2>1, <2>3, <2>4, <2>5, <2>6, <1>3, <1>4, <1>5
<1> QED  BY <1>6, <1>7

(* A commit keeps the invariant. *)
LEMMA CommitStep ==
  ASSUME IInv, RetireCommit
  PROVE  IInv'
<1>1. /\ TypeOK /\ MapsDisjoint /\ SlotsInOrder /\ CheckpointsInOrder
      /\ HeadCompleted /\ TypeOK' /\ MapsDisjoint'
  BY CommitType DEF IInv, RetireCommit
<1>2. PICK n \in Nat : n = Size - 1
  BY <1>1, HeadOfWindow
<1>3. PICK d \in {0, 1} : d = HeadWrites
  BY DEF HeadWrites
<1>4. /\ Size' = n /\ Allocated' = Allocated - d
      /\ \A k \in 1..n : k + 1 \in 1..Size /\ Window'[k] = Window[k + 1]
      /\ \A k \in 1..n, s \in FLSlot :
           /\ Writes(Window[k], s)' <=> Writes(Window[k + 1], s)
           /\ Writes(Window[k + 1], s) => TailDist(s)' = TailDist(s) - d
      /\ \A s \in FLSlot : TailDist(s)' < Allocated' =>
           TailDist(s) < Allocated /\ ~Writes(Window[1], s)
  BY <1>2, <1>3, CommitWindow
<1>5. /\ Allocated \in Int /\ \A s \in FLSlot : TailDist(s) \in Int
      /\ Size \in Nat /\ Size = n + 1
  BY <1>1, <1>2, Occupancies, TailDistances, Constants
<1>6. SlotsInOrder'
  <2>1. ASSUME NEW k \in 1..n, Window'[k].dest_valid
        PROVE  \E s \in FLSlot : Writes(Window[k], s)' /\ TailDist(s)' < Allocated'
    <3>1. PICK s \in FLSlot : Writes(Window[k + 1], s) /\ TailDist(s) < Allocated
      BY <2>1, <1>1, <1>4 DEF SlotsInOrder
    <3> QED  BY <3>1, <1>4, <1>5
  <2>2. ASSUME NEW k \in 1..n, NEW l \in 1..n, NEW s \in FLSlot, NEW t \in FLSlot,
               k < l, Writes(Window[k], s)', Writes(Window[l], t)'
        PROVE  TailDist(s)' < TailDist(t)'
    <3>1. Writes(Window[k + 1], s) /\ Writes(Window[l + 1], t) /\ k + 1 < l + 1
      BY <2>2, <1>4
    <3>2. TailDist(s) < TailDist(t)
      BY <3>1, <1>1, <1>4 DEF SlotsInOrder
    <3> QED  BY <3>1, <3>2, <1>4, <1>5
  <2>3. ASSUME NEW s \in FLSlot, TailDist(s)' < Allocated'
        PROVE  \E k \in 1..n : Writes(Window[k], s)'
    <3>1. TailDist(s) < Allocated /\ ~Writes(Window[1], s)
      BY <2>3, <1>4
    <3>2. PICK k \in 1..Size : Writes(Window[k], s)
      BY <3>1, <1>1 DEF SlotsInOrder
    <3>3. k # 1
      BY <3>1, <3>2
    <3>4. PICK m \in 1..n : k = m + 1
      BY <3>2, <3>3, <1>5
    <3> QED  BY <3>2, <3>4, <1>4
  <2> QED  BY <2>1, <2>2, <2>3, <1>4 DEF SlotsInOrder
<1>7. Checkpoints' = Checkpoints /\ GBM' = GBM /\ DISPATCH' = DISPATCH
  BY DEF RetireCommit
<1>8. ASSUME NEW k \in 1..n, Unresolved(Window'[k])
      PROVE  /\ Unresolved(Window[k + 1]) /\ CheckpointSplits(k + 1)
             /\ Window'[k].branch_ID \in GBM'
             /\ CheckpointOf(k)' = CheckpointOf(k + 1)
             /\ RingOK(CheckpointOf(k).FL_head, CheckpointOf(k).FL_head_phase,
                       FL_tail, FL_tail_phase)'
             /\ AllocatedAt(CheckpointOf(k))' = AllocatedAt(CheckpointOf(k + 1)) - d
             /\ AllocatedAt(CheckpointOf(k + 1)) \in Int
  <2> DEFINE c == CheckpointOf(k + 1)
  <2>1. Unresolved(Window[k + 1]) /\ k + 1 \in 1..Size
    BY <1>4, <1>8
  <2>2. CheckpointSplits(k + 1) /\ Window'[k].branch_ID \in GBM'
    BY <2>1, <1>1, <1>4, <1>7 DEF CheckpointsInOrder
  <2>3. CheckpointOf(k)' = c
    BY <1>4, <1>7 DEF CheckpointOf
  <2>4. c \in Checkpoint
    BY <2>1, <1>1, WindowValues, UnresolvedID DEF CheckpointOf, TypeOK
  <2>5. RingOK(c.FL_head, c.FL_head_phase, FL_tail, FL_tail_phase)
    BY <2>2 DEF CheckpointSplits
  <2>6. AllocatedAt(c) \in 0..FL_size /\ AllocatedAt(c) \in Int
    BY <2>4, <2>5, <1>1, CheckpointOccupancy
  <2>7. CASE ActiveList[AL_head].dest_valid
    <3>1. /\ FL_tail' = Next1(FL_tail, FL_size)
          /\ FL_tail_phase' = NextPhase(FL_tail, FL_tail_phase, FL_size)
          /\ d = 1
      BY <2>7, <1>3, CommitMaps DEF HeadWrites
    <3>2. AllocatedAt(c) > 0
      <4>1. Writes(Window[1], FL_tail) /\ FL_tail \in FLSlot /\ 1 \in 1..Size
        BY <2>7, <1>1, HeadSlot, HeadOfWindow
      <4>2. 1 <= k + 1
        OBVIOUS
      <4>3. TailDist(FL_tail) < AllocatedAt(c)
        BY <4>1, <4>2, <2>2 DEF CheckpointSplits
      <4> QED  BY <4>3, <1>1, TailDistances
    <3>3. /\ c.FL_head \in 0..(FL_size - 1) /\ c.FL_head_phase \in BOOLEAN
          /\ FL_tail \in 0..(FL_size - 1) /\ FL_tail_phase \in BOOLEAN
      BY <2>4, <1>1 DEF Checkpoint, TypeOK, FLSlot
    <3> DEFINE occ == Occupancy(c.FL_head, c.FL_head_phase, FL_tail, FL_tail_phase, FL_size)
    <3>4. occ \in 0..FL_size
      BY <3>3, <2>5, Constants, OccupancyRange
    <3>5. occ < FL_size
      BY <3>2, <3>4, Constants DEF AllocatedAt
    <3>6. /\ RingOK(c.FL_head, c.FL_head_phase, FL_tail', FL_tail_phase')
          /\ Occupancy(c.FL_head, c.FL_head_phase, FL_tail', FL_tail_phase', FL_size) = occ + 1
      BY <3>1, <3>3, <3>5, <2>5, Constants, AdvanceTail
    <3>7. AllocatedAt(CheckpointOf(k))' = FL_size - (occ + 1)
      BY <3>6, <2>3 DEF AllocatedAt
    <3>8. AllocatedAt(CheckpointOf(k))' = AllocatedAt(c) - d
      BY <3>1, <3>4, <3>7, Constants DEF AllocatedAt
    <3>9. RingOK(CheckpointOf(k).FL_head, CheckpointOf(k).FL_head_phase, FL_tail, FL_tail_phase)'
      BY <3>6, <2>3
    <3> QED  BY <2>1, <2>2, <2>3, <2>6, <3>8, <3>9
  <2>8. CASE ~ActiveList[AL_head].dest_valid
    <3>1. FL_tail' = FL_tail /\ FL_tail_phase' = FL_tail_phase /\ d = 0
      BY <2>8, <1>3 DEF RetireCommit, commit, HeadWrites
    <3>2. AllocatedAt(CheckpointOf(k))' = AllocatedAt(c)
      BY <3>1, <2>3 DEF AllocatedAt
    <3>3. RingOK(CheckpointOf(k).FL_head, CheckpointOf(k).FL_head_phase, FL_tail, FL_tail_phase)'
      BY <3>1, <2>3, <2>5
    <3>4. AllocatedAt(c) = AllocatedAt(c) - d
      BY <3>1, <2>6
    <3> QED  BY <2>1, <2>2, <2>3, <2>6, <3>2, <3>3, <3>4
  <2> QED  BY <2>7, <2>8
<1>9. ASSUME NEW k \in 1..n, Unresolved(Window'[k])
      PROVE  CheckpointSplits(k)'
  <2>1. ASSUME NEW l \in 1..n, NEW s \in FLSlot, Writes(Window[l], s)'
        PROVE  l <= k <=> TailDist(s)' < AllocatedAt(CheckpointOf(k))'
    <3>1. /\ Writes(Window[l + 1], s) /\ l + 1 \in 1..Size
          /\ TailDist(s)' = TailDist(s) - d
      BY <2>1, <1>4
    <3>2. l + 1 <= k + 1 <=> TailDist(s) < AllocatedAt(CheckpointOf(k + 1))
      BY <3>1, <1>8, <1>9 DEF CheckpointSplits
    <3> QED  BY <3>1, <3>2, <1>5, <1>8, <1>9
  <2>2. (AllocatedAt(CheckpointOf(k)) <= Allocated)'
    <3>1. AllocatedAt(CheckpointOf(k + 1)) <= Allocated
      BY <1>8, <1>9 DEF CheckpointSplits
    <3> QED  BY <3>1, <1>4, <1>5, <1>8, <1>9
  <2> QED  BY <2>1, <2>2, <1>4, <1>8, <1>9 DEF CheckpointSplits
<1>10. ASSUME NEW l \in 1..n, NEW k \in 1..n, l < k,
              Unresolved(Window'[l]), Unresolved(Window'[k])
       PROVE  CheckpointNests(l, k)'
  <2>1. CheckpointNests(l + 1, k + 1)
    BY <1>1, <1>4, <1>8, <1>10 DEF CheckpointsInOrder
  <2>2. AllocatedAt(CheckpointOf(l))' <= AllocatedAt(CheckpointOf(k))'
    BY <2>1, <1>8, <1>10 DEF CheckpointNests
  <2> QED  BY <2>1, <2>2, <1>4, <1>8, <1>10 DEF CheckpointNests
<1>11. CheckpointsInOrder'
  BY <1>4, <1>8, <1>9, <1>10 DEF CheckpointsInOrder
<1>12. DispatchPending'
  BY <1>7 DEF DispatchPending, IInv
<1> QED  BY <1>1, <1>6, <1>11, <1>12 DEF IInv

-----------------------------------------------------------------------------
(* The inductive invariant and what follows from it. *)

(* The constructor establishes the invariant. *)
LEMMA InitStep ==
  ASSUME Init
  PROVE  IInv
<1>1. TypeOK
  BY InitType
<1>2. MapsDisjoint
  BY RenamerAssumption
  DEF Init, MapsDisjoint, RenamerAssumption, LogReg, PhysReg, FLSlot, FL_size
<1>3. Size = 0 /\ Allocated = 0
  <2>1. ALCount = 0 - 0 /\ FreeRegs = FL_size - (0 - 0)
    BY Zenon DEF Init, ALCount, FreeRegs, Occupancy
  <2>2. Len(DISPATCH) = 0
    BY DEF Init
  <2> QED  BY <2>1, <2>2, Constants DEF Size, Allocated
<1>4. SlotsInOrder
  <2>1. \A s \in FLSlot : ~(TailDist(s) < Allocated)
    BY <1>1, <1>3, TailDistances, Constants
  <2> QED  BY <2>1, <1>3 DEF SlotsInOrder
<1>5. CheckpointsInOrder /\ DispatchPending
  BY <1>3 DEF CheckpointsInOrder, DispatchPending, Init
<1> QED  BY <1>1, <1>2, <1>4, <1>5 DEF IInv

(* The invariant is inductive: every action of the renamer keeps it.       *)
LEMMA NextStep ==
  ASSUME IInv, [Next]_vars
  PROVE  IInv'
<1>1. ASSUME NEW dest \in BOOLEAN, NEW branch \in BOOLEAN, NEW r \in LogReg,
             RenameInst(dest, r, branch)
      PROVE  IInv'
  BY <1>1, RenameStep
<1>2. ASSUME NEW predicted \in BOOLEAN, NEW skipIQ \in BOOLEAN,
             NEW flags \in SUBSET (Flag \cap {"exception"}),
             DispatchInst(predicted, skipIQ, flags)
      PROVE  IInv'
  BY <1>2, DispatchStep
<1>3. ASSUME NEW i \in ALIndex, SetReady(i)
      PROVE  IInv'
  BY <1>3, SetReadyStep
<1>4. ASSUME NEW i \in ALIndex, NEW f \in Flag, SetFlag(i, f)
      PROVE  IInv'
  BY <1>4, SetFlagStep
<1>5. ASSUME NEW i \in ALIndex, NEW late \in BOOLEAN, SetComplete(i, late)
      PROVE  IInv'
  BY <1>5, SetCompleteStep
<1>6. ASSUME NEW i \in ALIndex, ResolveCorrect(i)
      PROVE  IInv'
  BY <1>6, ResolveCorrectStep
<1>7. ASSUME NEW i \in ALIndex, ResolveMispredict(i)
      PROVE  IInv'
  BY <1>7, MispredictStep
<1>8. CASE RetireCommit
  BY <1>8, CommitStep
<1>9. CASE RetireSquash
  BY <1>9, RetireSquashStep
<1>10. CASE RetireCommitSquash
  BY <1>10, RetireCommitSquashStep
<1>11. CASE UNCHANGED vars
  <2>1. /\ UNCHANGED <<RMT, AMT, FreeList, FL_head, FL_tail, FL_head_phase, FL_tail_phase>>
        /\ UNCHANGED <<ActiveList, AL_head, AL_tail, AL_head_phase, AL_tail_phase>>
        /\ UNCHANGED <<PRF_ready, GBM, Checkpoints, DISPATCH>>
    BY <1>11 DEF vars, mapVars, flVars, alVars
  <2>2. TypeOK' /\ DispatchPending'
    BY <2>1 DEF IInv, TypeOK, DispatchPending
  <2>3. /\ Size' = Size /\ Allocated' = Allocated
        /\ \A k \in 1..Size : Window'[k] = Window[k]
    BY <2>1, <2>2, SameRings DEF IInv, flVars
  <2>4. SameSlots
    BY <2>1, <2>3 DEF SameSlots
  <2> QED  BY <2>1, <2>2, <2>3, <2>4, StillStep
<1> QED
  BY <1>1, <1>2, <1>3, <1>4, <1>5, <1>6, <1>7, <1>8, <1>9, <1>10, <1>11 DEF Next
(* The free slots are those behind the allocated ones. *)
LEMMA FreeSlotDist ==
  ASSUME TypeOK, NEW s \in FLSlot
  PROVE  s \in FreeSlots <=> ~(TailDist(s) < Allocated)
<1>1. /\ FL_head \in 0..(FL_size - 1) /\ FL_tail \in 0..(FL_size - 1)
      /\ FL_head_phase \in BOOLEAN /\ FL_tail_phase \in BOOLEAN
      /\ RingOK(FL_head, FL_head_phase, FL_tail, FL_tail_phase)
      /\ s \in 0..(FL_size - 1)
  BY DEF TypeOK, FLSlot
<1>2. s \in FreeSlots <=> TailDist(s) >= Allocated
  BY <1>1, Constants, UsedFromTail DEF FreeSlots, FLDist, FreeRegs, Allocated, TailDist
<1> QED  BY <1>2, TailDistances, Occupancies, Constants

(* Slots in order and disjoint maps make a partition of the registers. *)
LEMMA PartitionFromIInv ==
  ASSUME IInv
  PROVE  RegisterPartition
<1>1. TypeOK /\ MapsDisjoint /\ SlotsInOrder
  BY DEF IInv
<1>2. DOMAIN Window = 1..Size
  BY DEF Window, Size
<1>3. \A p : p \in FreeSet <=> \E s \in FLSlot : ~(TailDist(s) < Allocated) /\ FreeList[s] = p
  BY <1>1, FreeSlotDist DEF FreeSet, FreeSlots
<1>4. \A p : p \in Inflight <=> \E k \in 1..Size : Window[k].dest_valid /\ Window[k].phys_reg = p
  BY <1>2 DEF Inflight, WritersIn
<1>5. \A p \in Inflight : \E s \in FLSlot : TailDist(s) < Allocated /\ FreeList[s] = p
  <2>1. ASSUME NEW p \in Inflight
        PROVE  \E s \in FLSlot : TailDist(s) < Allocated /\ FreeList[s] = p
    <3>1. PICK k \in 1..Size : Window[k].dest_valid /\ Window[k].phys_reg = p
      BY <1>4
    <3> QED  BY <3>1, <1>1 DEF SlotsInOrder, Writes
  <2> QED  BY <2>1
<1>6. \A s \in FLSlot : TailDist(s) < Allocated => FreeList[s] \in Inflight
  <2>1. ASSUME NEW s \in FLSlot, TailDist(s) < Allocated
        PROVE  FreeList[s] \in Inflight
    <3>1. PICK k \in 1..Size : Writes(Window[k], s)
      BY <2>1, <1>1 DEF SlotsInOrder
    <3> QED  BY <3>1, <1>4 DEF Writes
  <2> QED  BY <2>1
<1>7. FreeSet \cup Inflight \cup Committed = PhysReg
  <2>1. \A p \in PhysReg : p \in FreeSet \/ p \in Inflight \/ p \in Committed
    BY <1>1, <1>3, <1>6 DEF MapsDisjoint, Committed
  <2>2. /\ \A p \in FreeSet : p \in PhysReg
        /\ \A p \in Inflight : p \in PhysReg
        /\ \A p \in Committed : p \in PhysReg
    BY <1>1, <1>3, <1>5 DEF TypeOK, Committed
  <2> QED  BY <2>1, <2>2
<1>8. FreeSet \cap Inflight = {}
  BY <1>1, <1>3, <1>5 DEF MapsDisjoint
<1>9. FreeSet \cap Committed = {} /\ Inflight \cap Committed = {}
  BY <1>1, <1>3, <1>5 DEF MapsDisjoint, Committed
<1>10. \A s, t \in FreeSlots : FreeList[s] = FreeList[t] => s = t
  BY <1>1 DEF FreeSlots, MapsDisjoint
<1>11. LET w == Window IN
         \A k, l \in WritersIn(w) : w[k].phys_reg = w[l].phys_reg => k = l
  <2>1. ASSUME NEW k \in 1..Size, NEW l \in 1..Size,
               Window[k].dest_valid, Window[l].dest_valid,
               Window[k].phys_reg = Window[l].phys_reg
        PROVE  k = l
    <3>1. PICK s \in FLSlot : Writes(Window[k], s)
      BY <2>1, <1>1 DEF SlotsInOrder
    <3>2. Writes(Window[l], s)
      BY <2>1, <3>1 DEF Writes
    <3>3. ~(TailDist(s) < TailDist(s))
      BY <1>1, TailDistances, Constants
    <3>4. ~(k < l) /\ ~(l < k)
      BY <3>1, <3>2, <3>3, <1>1 DEF SlotsInOrder
    <3> QED  BY <3>4
  <2> QED  BY <2>1, <1>2 DEF WritersIn
<1>12. \A r, q \in LogReg : AMT[r] = AMT[q] => r = q
  BY <1>1 DEF MapsDisjoint
<1> QED  BY <1>7, <1>8, <1>9, <1>10, <1>11, <1>12 DEF RegisterPartition

(* IInv holds in every state the renamer reaches, whatever the pipeline's  *)
(* order of renames, dispatches, writebacks, recoveries and retirements.   *)
THEOREM InvariantHolds == Spec => []IInv
<1>1. Init => IInv
  BY InitStep
<1>2. IInv /\ [Next]_vars => IInv'
  BY NextStep
<1> QED  BY <1>1, <1>2, PTL DEF Spec

(* Type correctness (TypeOK): every pointer stays inside its list, and the *)
(* phase bits always tell full from empty, recoveries included.            *)
THEOREM TypeCorrect == Spec => []TypeOK
<1>1. IInv => TypeOK
  BY DEF IInv
<1> QED  BY <1>1, InvariantHolds, PTL

(* RegisterPartition: no sequence of renames, commits, recoveries and      *)
(* squashes loses a physical register or hands one out twice.              *)
THEOREM PartitionCorrect == Spec => []RegisterPartition
<1>1. IInv => RegisterPartition
  BY PartitionFromIInv
<1> QED  BY <1>1, InvariantHolds, PTL

-----------------------------------------------------------------------------
-----------------------------------------------------------------------------
(* Open branches and maps of a window that grows, shrinks and changes.     *)

(* The open branches depend on the branch IDs and on what is unresolved.   *)
LEMMA OpenKeeps ==
  ASSUME NEW v, NEW w, NEW n \in Nat,
         \A k \in 1..n : /\ v[k].branch_ID = w[k].branch_ID
                         /\ Unresolved(v[k]) <=> Unresolved(w[k])
  PROVE  \A b, k \in Nat : k <= n + 1 => (OpenIn(v, b, k) <=> OpenIn(w, b, k))
BY DEF OpenIn

(* The branches open after one more instruction.                           *)
LEMMA OpenAppend ==
  ASSUME NEW v, NEW w, NEW n \in Nat, \A k \in 1..n : v[k] = w[k]
  PROVE  \A b : OpenIn(v, b, (n + 1) + 1) <=>
           \/ OpenIn(w, b, n + 1)
           \/ Unresolved(v[n + 1]) /\ v[n + 1].branch_ID = b
BY DEF OpenIn

(* A resolved head takes no open branch with it.                           *)
LEMMA OpenTail ==
  ASSUME NEW v, NEW w, NEW n \in Nat, \A k \in 1..n : v[k] = w[k + 1],
         ~Unresolved(w[1])
  PROVE  \A b, k \in Nat : 1 <= k /\ k <= n + 1 =>
           (OpenIn(v, b, k) <=> OpenIn(w, b, k + 1))
<1> SUFFICES ASSUME NEW b \in Nat, NEW k \in Nat, 1 <= k, k <= n + 1
             PROVE  OpenIn(v, b, k) <=> OpenIn(w, b, k + 1)
  OBVIOUS
<1>1. ASSUME NEW j \in 1..(k - 1), Unresolved(v[j]), v[j].branch_ID = b
      PROVE  OpenIn(w, b, k + 1)
  <2>1. j + 1 \in 1..((k + 1) - 1) /\ v[j] = w[j + 1]
    OBVIOUS
  <2> QED  BY <2>1, <1>1 DEF OpenIn
<1>2. ASSUME NEW j \in 1..((k + 1) - 1), Unresolved(w[j]), w[j].branch_ID = b
      PROVE  OpenIn(v, b, k)
  <2>1. j # 1
    BY <1>2
  <2>2. j - 1 \in 1..(k - 1) /\ (j - 1) + 1 = j /\ j - 1 \in 1..n
    BY <2>1
  <2>3. v[j - 1] = w[j]
    BY <2>2
  <2> QED  BY <2>2, <2>3, <1>2 DEF OpenIn
<1> QED  BY <1>1, <1>2 DEF OpenIn

(* Closing the branch with ID id closes it and no other.                  *)
LEMMA OpenClose ==
  ASSUME NEW v, NEW w, NEW n \in Nat, NEW id,
         \A k \in 1..n :
           /\ v[k].branch_ID = w[k].branch_ID
           /\ Unresolved(v[k]) <=> Unresolved(w[k]) /\ w[k].branch_ID # id
  PROVE  \A b, k \in Nat : k <= n + 1 =>
           (OpenIn(v, b, k) <=> OpenIn(w, b, k) /\ b # id)
BY DEF OpenIn

(* A map depends on what the instructions write.                           *)
LEMMA MapKeeps ==
  ASSUME NEW m, NEW c, NEW v, NEW w, NEW n \in Nat, MapIs(m, c, w, n),
         \A k \in 1..n : /\ v[k].dest_valid = w[k].dest_valid
                         /\ v[k].log_reg = w[k].log_reg
                         /\ v[k].phys_reg = w[k].phys_reg
  PROVE  MapIs(m, c, v, n)
<1>1. ASSUME NEW k \in 1..n, NEW r
      PROVE  WritesReg(v[k], r) <=> WritesReg(w[k], r)
  BY DEF WritesReg
<1> QED  BY <1>1 DEF MapIs

(* The map after no instruction is the committed one.                      *)
LEMMA MapEmpty ==
  ASSUME NEW c, NEW w
  PROVE  MapIs(c, c, w, 0)
BY DEF MapIs

(* The map after one more instruction.                                     *)
LEMMA MapAppend ==
  ASSUME NEW m, NEW mm, NEW c, NEW v, NEW w, NEW n \in Nat, MapIs(m, c, w, n),
         \A k \in 1..n : v[k] = w[k],
         \A r \in LogReg : mm[r] = IF WritesReg(v[n + 1], r)
                                     THEN v[n + 1].phys_reg ELSE m[r]
  PROVE  MapIs(mm, c, v, n + 1)
<1> SUFFICES ASSUME NEW r \in LogReg
             PROVE  \/ /\ mm[r] = c[r]
                       /\ \A k \in 1..(n + 1) : ~WritesReg(v[k], r)
                    \/ \E k \in 1..(n + 1) :
                         /\ WritesReg(v[k], r) /\ mm[r] = v[k].phys_reg
                         /\ \A l \in 1..(n + 1) : WritesReg(v[l], r) => l <= k
  BY DEF MapIs
<1>1. CASE WritesReg(v[n + 1], r)
  BY <1>1
<1>2. CASE ~WritesReg(v[n + 1], r)
  <2>1. mm[r] = m[r]
    BY <1>2
  <2>2. CASE m[r] = c[r] /\ \A k \in 1..n : ~WritesReg(w[k], r)
    BY <1>2, <2>1, <2>2
  <2>3. CASE \E k \in 1..n :
               /\ WritesReg(w[k], r) /\ m[r] = w[k].phys_reg
               /\ \A l \in 1..n : WritesReg(w[l], r) => l <= k
    BY <1>2, <2>1, <2>3
  <2> QED  BY <2>2, <2>3 DEF MapIs
<1> QED  BY <1>1, <1>2

(* Committing the head moves its write from the window to the map below.   *)
LEMMA MapTail ==
  ASSUME NEW m, NEW c, NEW cc, NEW v, NEW w, NEW n \in Nat,
         MapIs(m, c, w, n + 1), \A k \in 1..n : v[k] = w[k + 1],
         \A r \in LogReg : cc[r] = IF WritesReg(w[1], r)
                                     THEN w[1].phys_reg ELSE c[r]
  PROVE  MapIs(m, cc, v, n)
<1> SUFFICES ASSUME NEW r \in LogReg
             PROVE  \/ /\ m[r] = cc[r]
                       /\ \A k \in 1..n : ~WritesReg(v[k], r)
                    \/ \E k \in 1..n :
                         /\ WritesReg(v[k], r) /\ m[r] = v[k].phys_reg
                         /\ \A l \in 1..n : WritesReg(v[l], r) => l <= k
  BY DEF MapIs
<1>1. \A k \in 1..n : k + 1 \in 1..(n + 1) /\ v[k] = w[k + 1]
  OBVIOUS
<1>2. CASE m[r] = c[r] /\ \A k \in 1..(n + 1) : ~WritesReg(w[k], r)
  BY <1>1, <1>2
<1>3. ASSUME NEW k \in 1..(n + 1),
             WritesReg(w[k], r), m[r] = w[k].phys_reg,
             \A l \in 1..(n + 1) : WritesReg(w[l], r) => l <= k
      PROVE  \/ m[r] = cc[r] /\ \A l \in 1..n : ~WritesReg(v[l], r)
             \/ \E l \in 1..n :
                  /\ WritesReg(v[l], r) /\ m[r] = v[l].phys_reg
                  /\ \A j \in 1..n : WritesReg(v[j], r) => j <= l
  <2>1. CASE k = 1
    <3>1. m[r] = cc[r]
      BY <1>3, <2>1
    <3>2. \A l \in 1..n : ~WritesReg(v[l], r)
      BY <1>1, <1>3, <2>1
    <3> QED  BY <3>1, <3>2
  <2>2. CASE k # 1
    <3>1. k - 1 \in 1..n /\ (k - 1) + 1 = k /\ v[k - 1] = w[k]
      BY <2>2
    <3>2. \A j \in 1..n : WritesReg(v[j], r) => j <= k - 1
      BY <1>1, <1>3
    <3> QED  BY <3>1, <3>2, <1>3
  <2> QED  BY <2>1, <2>2
<1> QED  BY <1>2, <1>3 DEF MapIs

-----------------------------------------------------------------------------
(* Steps that change no register, no branch and no checkpoint: wakeups,    *)
(* flags, completions and dispatch.                                        *)

(* What branches and maps depend on. *)
StillInsts ==
  /\ Size' = Size /\ UNCHANGED <<RMT, AMT, GBM, Checkpoints>>
  /\ \A k \in 1..Size :
       /\ Window'[k].dest_valid = Window[k].dest_valid
       /\ Window'[k].log_reg = Window[k].log_reg
       /\ Window'[k].phys_reg = Window[k].phys_reg
       /\ Window'[k].branch_ID = Window[k].branch_ID
       /\ Window'[k].branch_mask = Window[k].branch_mask
       /\ Window[k].completed => Window'[k].completed
       /\ Unresolved(Window'[k]) <=> Unresolved(Window[k])

(* Such a step keeps the open branches and the maps.                       *)
LEMMA StillRecovery ==
  ASSUME TypeOK, BranchesInOrder, MapsInOrder, StillInsts
  PROVE  BranchesInOrder' /\ MapsInOrder'
<1>1. Size' = Size /\ UNCHANGED <<RMT, AMT, GBM, Checkpoints>> /\ Size \in Nat
  BY Occupancies DEF StillInsts
<1>2. \A b \in Branch, k \in Nat : k <= Size + 1 =>
        (OpenIn(Window', b, k) <=> OpenIn(Window, b, k))
  <2>1. \A k \in 1..Size : /\ Window'[k].branch_ID = Window[k].branch_ID
                           /\ Unresolved(Window'[k]) <=> Unresolved(Window[k])
    BY DEF StillInsts
  <2> QED  BY <2>1, <1>1, OpenKeeps, Constants
<1>3. ASSUME NEW k \in 1..Size
      PROVE  /\ CheckpointOf(k)' = CheckpointOf(k) /\ k \in Nat /\ k <= Size + 1
             /\ Unresolved(Window'[k]) <=> Unresolved(Window[k])
             /\ Window'[k].branch_mask = Window[k].branch_mask
             /\ Window[k].completed => Window'[k].completed
  BY <1>1 DEF StillInsts, CheckpointOf
<1>4. BranchesInOrder'
  <2>1. Size + 1 \in Nat /\ Size + 1 <= Size + 1
    BY <1>1
  <2> QED  BY <2>1, <1>1, <1>2, <1>3 DEF BranchesInOrder
<1>5. ASSUME NEW m, NEW k \in Nat, k <= Size, MapIs(m, AMT, Window, k)
      PROVE  MapIs(m, AMT', Window', k)
  <2>1. \A l \in 1..k : /\ Window'[l].dest_valid = Window[l].dest_valid
                        /\ Window'[l].log_reg = Window[l].log_reg
                        /\ Window'[l].phys_reg = Window[l].phys_reg
    BY <1>1, <1>5 DEF StillInsts
  <2> QED  BY <2>1, <1>1, <1>5, MapKeeps
<1>6. MapsInOrder'
  BY <1>1, <1>3, <1>5 DEF MapsInOrder
<1> QED  BY <1>4, <1>6

(* A wakeup changes no instruction. *)
LEMMA SetReadyStill ==
  ASSUME IInv, NEW i \in ALIndex, SetReady(i)
  PROVE  StillInsts
<1>1. TypeOK /\ TypeOK'
  BY SetReadyType DEF IInv
<1>2. /\ ActiveList' = ActiveList /\ DISPATCH' = DISPATCH
      /\ UNCHANGED <<RMT, GBM, Checkpoints>>
      /\ UNCHANGED <<AMT, flVars, AL_head, AL_tail, AL_head_phase, AL_tail_phase>>
  BY DEF SetReady, mapVars, alVars
<1>3. Size' = Size /\ \A k \in 1..Size : Window'[k] = Window[k]
  BY <1>1, <1>2, SameRings
<1> QED  BY <1>2, <1>3 DEF StillInsts

(* A flag changes nothing that rename or recovery reads. *)
LEMMA SetFlagStill ==
  ASSUME IInv, NEW i \in ALIndex, NEW f \in Flag, SetFlag(i, f)
  PROVE  StillInsts
<1>1. TypeOK /\ TypeOK'
  BY SetFlagType DEF IInv
<1>2. /\ DISPATCH' = DISPATCH /\ UNCHANGED <<RMT, GBM, Checkpoints>>
      /\ UNCHANGED <<AMT, flVars, AL_head, AL_tail, AL_head_phase, AL_tail_phase>>
  BY DEF SetFlag, mapVars
<1>3. \A j \in ALIndex :
        /\ ActiveList'[j].dest_valid = ActiveList[j].dest_valid
        /\ ActiveList'[j].log_reg = ActiveList[j].log_reg
        /\ ActiveList'[j].phys_reg = ActiveList[j].phys_reg
        /\ ActiveList'[j].branch_ID = ActiveList[j].branch_ID
        /\ ActiveList'[j].branch_mask = ActiveList[j].branch_mask
        /\ ActiveList'[j].completed = ActiveList[j].completed
  BY <1>1 DEF SetFlag, TypeOK, Inst
<1>4. /\ Size' = Size
      /\ \A k \in 1..Size :
           /\ Window'[k].dest_valid = Window[k].dest_valid
           /\ Window'[k].log_reg = Window[k].log_reg
           /\ Window'[k].phys_reg = Window[k].phys_reg
           /\ Window'[k].branch_ID = Window[k].branch_ID
           /\ Window'[k].branch_mask = Window[k].branch_mask
           /\ Window'[k].completed = Window[k].completed
  BY <1>1, <1>2, <1>3, SameRings
<1> QED  BY <1>2, <1>4 DEF StillInsts, Unresolved

(* set_complete of an instruction without a checkpoint closes no branch.   *)
LEMMA SetCompleteStill ==
  ASSUME IInv, NEW i \in ALIndex, NEW late \in BOOLEAN, SetComplete(i, late)
  PROVE  StillInsts
<1>1. TypeOK /\ TypeOK'
  BY SetCompleteType DEF IInv
<1>2. /\ DISPATCH' = DISPATCH /\ UNCHANGED <<RMT, GBM, Checkpoints>>
      /\ UNCHANGED <<AMT, flVars, AL_head, AL_tail, AL_head_phase, AL_tail_phase>>
  BY DEF SetComplete, mapVars
<1>3. \A j \in ALIndex :
        /\ ActiveList'[j].dest_valid = ActiveList[j].dest_valid
        /\ ActiveList'[j].log_reg = ActiveList[j].log_reg
        /\ ActiveList'[j].phys_reg = ActiveList[j].phys_reg
        /\ ActiveList'[j].branch_ID = ActiveList[j].branch_ID
        /\ ActiveList'[j].branch_mask = ActiveList[j].branch_mask
        /\ ActiveList[j].completed => ActiveList'[j].completed
        /\ Unresolved(ActiveList'[j]) <=> Unresolved(ActiveList[j])
  BY <1>1 DEF SetComplete, TypeOK, Inst, Unresolved
<1>4. /\ Size' = Size
      /\ \A k \in 1..Size :
           /\ Window'[k].dest_valid = Window[k].dest_valid
           /\ Window'[k].log_reg = Window[k].log_reg
           /\ Window'[k].phys_reg = Window[k].phys_reg
           /\ Window'[k].branch_ID = Window[k].branch_ID
           /\ Window'[k].branch_mask = Window[k].branch_mask
           /\ Window[k].completed => Window'[k].completed
           /\ Unresolved(Window'[k]) <=> Unresolved(Window[k])
  BY <1>1, <1>2, <1>3, SameRings
<1> QED  BY <1>2, <1>4 DEF StillInsts

(* Dispatch moves an instruction inside the window; one that is complete   *)
(* at once has no checkpoint.                                              *)
LEMMA DispatchStill ==
  ASSUME IInv, NEW predicted \in BOOLEAN, NEW skipIQ \in BOOLEAN,
         NEW flags \in SUBSET Flag, DispatchInst(predicted, skipIQ, flags)
  PROVE  StillInsts
<1> DEFINE x == Head(DISPATCH)
           y == Dispatched(skipIQ, flags)
<1>1. /\ TypeOK' /\ Size' = Size /\ x \in Inst /\ ~x.completed
      /\ \A k \in 1..Size : \/ Window'[k] = Window[k]
                            \/ Window'[k] = y /\ Window[k] = x
  BY DispatchWindow
<1>2. /\ UNCHANGED <<RMT, AMT, GBM, Checkpoints>>
      /\ skipIQ => x.branch_ID = NoBranch
  BY DEF DispatchInst, mapVars
<1>3. /\ y.dest_valid = x.dest_valid /\ y.log_reg = x.log_reg
      /\ y.phys_reg = x.phys_reg /\ y.branch_ID = x.branch_ID
      /\ y.branch_mask = x.branch_mask /\ y.completed = skipIQ
  BY <1>1 DEF Dispatched, Inst
<1>4. Unresolved(y) <=> Unresolved(x)
  BY <1>1, <1>2, <1>3 DEF Unresolved
<1> HIDE DEF x, y
<1> QED  BY <1>1, <1>2, <1>3, <1>4 DEF StillInsts

-----------------------------------------------------------------------------
(* Rename, recovery, commit and squash.                                    *)

(* Rename opens the branch it takes a checkpoint for, which no instruction *)
(* in the window names, and the checkpoint keeps the map it has just made. *)
LEMMA RenameRecovery ==
  ASSUME RInv, NEW dest \in BOOLEAN, NEW r \in LogReg, NEW branch \in BOOLEAN,
         RenameInst(dest, r, branch)
  PROVE  BranchesInOrder' /\ MapsInOrder'
<1> DEFINE y == Renamed(dest, r, branch)
<1>1. IInv /\ BranchesInOrder /\ MapsInOrder /\ TypeOK /\ CheckpointsInOrder
  BY DEF RInv, IInv
<1>2. PICK n \in Nat : n = Size
  BY <1>1, Occupancies
<1>3. /\ Size' = n + 1 /\ \A k \in 1..n : Window'[k] = Window[k]
      /\ Window'[n + 1] = y
  BY <1>1, <1>2, RenameWindow
<1>4. /\ AMT' = AMT
      /\ branch => FirstFree \in Branch \ GBM
      /\ ~branch => Checkpoints' = Checkpoints /\ GBM' = GBM
      /\ branch => /\ GBM' = GBM \cup {FirstFree}
                   /\ Checkpoints'[FirstFree].shadow_RMT = RMT'
                   /\ Checkpoints'[FirstFree].GBM = GBM
                   /\ \A b \in Branch : b # FirstFree => Checkpoints'[b] = Checkpoints[b]
  <2>1. branch => FirstFree \in Branch \ GBM
    BY <1>1, FirstFreeIsFree DEF RenameInst
  <2> QED  BY <2>1, <1>1 DEF RenameInst, TypeOK
<1>5. /\ y.dest_valid = dest /\ y.branch_mask = GBM
      /\ y.branch_ID = (IF branch THEN FirstFree ELSE NoBranch)
      /\ Unresolved(y) <=> branch
      /\ dest => y.log_reg = r /\ y.phys_reg = FreeList[FL_head]
  BY <1>4, Constants DEF Renamed, Unresolved
<1>6. /\ dest => RMT' = [RMT EXCEPT ![r] = FreeList[FL_head]]
      /\ ~dest => RMT' = RMT
  BY DEF RenameInst
<1> HIDE DEF y
<1>7. \A b \in Branch, k \in Nat : k <= n + 1 =>
        (OpenIn(Window', b, k) <=> OpenIn(Window, b, k))
  <2>1. \A k \in 1..n : /\ Window'[k].branch_ID = Window[k].branch_ID
                        /\ Unresolved(Window'[k]) <=> Unresolved(Window[k])
    BY <1>3
  <2> QED  BY <2>1, OpenKeeps, Constants
<1>8. ASSUME NEW b \in Branch
      PROVE  OpenIn(Window', b, (n + 1) + 1) <=>
               OpenIn(Window, b, n + 1) \/ (branch /\ FirstFree = b)
  <2>1. OpenIn(Window', b, (n + 1) + 1) <=>
          \/ OpenIn(Window, b, n + 1)
          \/ Unresolved(Window'[n + 1]) /\ Window'[n + 1].branch_ID = b
    BY <1>3, OpenAppend
  <2> QED  BY <2>1, <1>3, <1>5
<1>9. ASSUME NEW k \in 1..n, Unresolved(Window'[k])
      PROVE  CheckpointOf(k)' = CheckpointOf(k) /\ Unresolved(Window[k])
  <2>1. Unresolved(Window[k]) /\ k \in 1..Size
    BY <1>2, <1>3, <1>9
  <2>2. Window[k].branch_ID \in GBM /\ Window[k].branch_ID \in Branch
    BY <2>1, <1>1, WindowValues, UnresolvedID DEF CheckpointsInOrder
  <2>3. Checkpoints'[Window[k].branch_ID] = Checkpoints[Window[k].branch_ID]
    BY <2>2, <1>4
  <2> QED  BY <2>1, <2>3, <1>3 DEF CheckpointOf
<1>10. branch => CheckpointOf(n + 1)' = Checkpoints'[FirstFree]
  BY <1>3, <1>5 DEF CheckpointOf
<1>11. BranchesInOrder'
  <2>1. \A b \in Branch : b \in GBM' <=> OpenIn(Window', b, (n + 1) + 1)
    <3>1. \A b \in Branch : b \in GBM <=> OpenIn(Window, b, n + 1)
      BY <1>1, <1>2 DEF BranchesInOrder
    <3> QED  BY <3>1, <1>4, <1>8
  <2>2. ASSUME NEW k \in 1..(n + 1), NEW b \in Branch
        PROVE  /\ ~Window'[k].completed =>
                    (b \in Window'[k].branch_mask <=> OpenIn(Window', b, k))
               /\ Unresolved(Window'[k]) =>
                    (b \in CheckpointOf(k)'.GBM <=> OpenIn(Window', b, k))
    <3>1. CASE k = n + 1
      <4>1. OpenIn(Window', b, n + 1) <=> b \in GBM
        BY <1>1, <1>2, <1>7 DEF BranchesInOrder
      <4> QED  BY <3>1, <4>1, <1>3, <1>4, <1>5, <1>10
    <3>2. CASE k # n + 1
      <4>1. k \in 1..n /\ k \in 1..Size /\ k \in Nat /\ k <= n + 1
        BY <3>2, <1>2
      <4> QED  BY <4>1, <1>1, <1>3, <1>7, <1>9 DEF BranchesInOrder
    <3> QED  BY <3>1, <3>2
  <2> QED  BY <2>1, <2>2, <1>3 DEF BranchesInOrder
<1>12. MapIs(RMT', AMT', Window', n + 1)
  <2>1. MapIs(RMT, AMT, Window, n)
    BY <1>1, <1>2 DEF MapsInOrder
  <2>2. \A q \in LogReg : RMT'[q] = IF WritesReg(Window'[n + 1], q)
                                      THEN Window'[n + 1].phys_reg ELSE RMT[q]
    BY <1>1, <1>3, <1>5, <1>6 DEF WritesReg, TypeOK
  <2> QED  BY <2>1, <2>2, <1>3, <1>4, MapAppend
<1>13. ASSUME NEW k \in 1..(n + 1), Unresolved(Window'[k])
       PROVE  MapIs(CheckpointOf(k)'.shadow_RMT, AMT', Window', k)
  <2>1. CASE k = n + 1
    BY <2>1, <1>3, <1>4, <1>5, <1>10, <1>12, <1>13
  <2>2. CASE k # n + 1
    <3>1. k \in 1..n /\ k \in 1..Size /\ k \in Nat /\ \A l \in 1..k : l \in 1..n
      BY <2>2, <1>2
    <3>2. MapIs(CheckpointOf(k).shadow_RMT, AMT, Window, k)
      BY <3>1, <1>1, <1>9, <1>13 DEF MapsInOrder
    <3>3. MapIs(CheckpointOf(k).shadow_RMT, AMT, Window', k)
      BY <3>1, <3>2, <1>3, MapKeeps
    <3> QED  BY <3>1, <3>3, <1>4, <1>9, <1>13
  <2> QED  BY <2>1, <2>2
<1>14. MapsInOrder'
  BY <1>3, <1>12, <1>13 DEF MapsInOrder
<1> QED  BY <1>11, <1>14

(* No two unresolved branches of the window have the same ID. *)
LEMMA DistinctBranches ==
  ASSUME TypeOK, CheckpointsInOrder, NEW n \in 1..Size, Unresolved(Window[n])
  PROVE  \A k \in 1..Size : k # n /\ Unresolved(Window[k]) =>
           Window[k].branch_ID # Window[n].branch_ID
<1> SUFFICES ASSUME NEW k \in 1..Size, k # n, Unresolved(Window[k])
             PROVE  Window[k].branch_ID # Window[n].branch_ID
  OBVIOUS
<1>1. k < n \/ n < k
  BY Occupancies
<1> QED  BY <1>1 DEF CheckpointsInOrder, CheckpointNests

(* resolve(correct) closes one branch everywhere. *)
LEMMA ResolveCorrectRecovery ==
  ASSUME RInv, NEW i \in ALIndex, ResolveCorrect(i)
  PROVE  BranchesInOrder' /\ MapsInOrder'
<1>1. IInv /\ BranchesInOrder /\ MapsInOrder /\ TypeOK /\ CheckpointsInOrder
  BY DEF RInv, IInv
<1>2. PICK n \in Nat : n = Age(i) + 1
  BY <1>1, Ages, Constants
<1>3. /\ Size' = Size /\ Size \in Nat
      /\ n \in 1..Size /\ Window[n] = ActiveList[i] /\ Window'[n].completed
      /\ \A k \in 1..Size :
           /\ Window'[k].dest_valid = Window[k].dest_valid
           /\ Window'[k].log_reg = Window[k].log_reg
           /\ Window'[k].phys_reg = Window[k].phys_reg
           /\ Window'[k].branch_ID = Window[k].branch_ID
           /\ Window'[k].branch_mask = Window[k].branch_mask \ {Window[n].branch_ID}
           /\ k # n => Window'[k].completed = Window[k].completed
  BY <1>1, <1>2, ResolvedWindow, Occupancies
<1>4. /\ Unresolved(Window[n])
      /\ GBM' = GBM \ {Window[n].branch_ID}
      /\ UNCHANGED <<RMT, AMT>>
      /\ \A c \in Branch :
           /\ Checkpoints'[c].shadow_RMT = Checkpoints[c].shadow_RMT
           /\ Checkpoints'[c].GBM = Checkpoints[c].GBM \ {Window[n].branch_ID}
  <2>1. /\ Unresolved(Window[n]) /\ UNCHANGED <<RMT, AMT>>
        /\ GBM' = GBM \ {Window[n].branch_ID}
        /\ Checkpoints' = [c \in Branch |-> [Checkpoints[c] EXCEPT
             !.GBM = Checkpoints[c].GBM \ {Window[n].branch_ID}]]
    BY <1>3 DEF ResolveCorrect, ClearBit, ClearedCheckpoints, mapVars
  <2> QED  BY <2>1, <1>1 DEF TypeOK, Checkpoint
<1>5. \A b \in Branch, k \in Nat : k <= Size + 1 =>
        (OpenIn(Window', b, k) <=> OpenIn(Window, b, k) /\ b # Window[n].branch_ID)
  <2>1. \A k \in 1..Size : k # n /\ Unresolved(Window[k]) =>
          Window[k].branch_ID # Window[n].branch_ID
    BY <1>1, <1>3, <1>4, DistinctBranches
  <2>2. \A k \in 1..Size :
          /\ Window'[k].branch_ID = Window[k].branch_ID
          /\ Unresolved(Window'[k]) <=>
               Unresolved(Window[k]) /\ Window[k].branch_ID # Window[n].branch_ID
    BY <2>1, <1>3 DEF Unresolved
  <2>3. PICK id : id = Window[n].branch_ID
    OBVIOUS
  <2>4. \A k \in 1..Size :
          /\ Window'[k].branch_ID = Window[k].branch_ID
          /\ Unresolved(Window'[k]) <=> Unresolved(Window[k]) /\ Window[k].branch_ID # id
    BY <2>2, <2>3
  <2>5. \A b, k \in Nat : k <= Size + 1 =>
          (OpenIn(Window', b, k) <=> OpenIn(Window, b, k) /\ b # id)
    <3>1. Size \in Nat
      BY <1>3
    <3> QED  BY <3>1, <2>4, OpenClose
  <2> QED  BY <2>3, <2>5, Constants
<1>6. ASSUME NEW k \in 1..Size
      PROVE  /\ k \in Nat /\ k <= Size + 1
             /\ ~Window'[k].completed => ~Window[k].completed
             /\ Unresolved(Window'[k]) =>
                  /\ Unresolved(Window[k])
                  /\ CheckpointOf(k)'.shadow_RMT = CheckpointOf(k).shadow_RMT
                  /\ CheckpointOf(k)'.GBM = CheckpointOf(k).GBM \ {Window[n].branch_ID}
  <2>1. Unresolved(Window'[k]) => Unresolved(Window[k])
    BY <1>3 DEF Unresolved
  <2>2. Unresolved(Window[k]) => Window[k].branch_ID \in Branch
    BY <1>1, WindowValues, UnresolvedID
  <2> QED  BY <2>1, <2>2, <1>3, <1>4 DEF CheckpointOf
<1>7. BranchesInOrder'
  <2>1. Size + 1 \in Nat /\ Size + 1 <= Size + 1
    BY <1>3
  <2> QED  BY <2>1, <1>1, <1>3, <1>4, <1>5, <1>6 DEF BranchesInOrder
<1>8. ASSUME NEW m, NEW k \in Nat, k <= Size, MapIs(m, AMT, Window, k)
      PROVE  MapIs(m, AMT', Window', k)
  <2>1. \A l \in 1..k : /\ Window'[l].dest_valid = Window[l].dest_valid
                        /\ Window'[l].log_reg = Window[l].log_reg
                        /\ Window'[l].phys_reg = Window[l].phys_reg
    BY <1>3, <1>8
  <2> QED  BY <2>1, <1>4, <1>8, MapKeeps
<1>9. MapsInOrder'
  BY <1>1, <1>3, <1>4, <1>6, <1>8 DEF MapsInOrder
<1> QED  BY <1>7, <1>9

(* A recovery cuts the window behind the branch, and its checkpoint holds  *)
(* the map and the open branches of what is left.                          *)
LEMMA MispredictRecovery ==
  ASSUME RInv, NEW i \in ALIndex, ResolveMispredict(i)
  PROVE  BranchesInOrder' /\ MapsInOrder'
<1>1. IInv /\ BranchesInOrder /\ MapsInOrder /\ TypeOK /\ CheckpointsInOrder
  BY DEF RInv, IInv
<1>2. PICK n \in Nat : n = Age(i) + 1
  BY <1>1, Ages, Constants
<1>3. /\ n \in 1..Size /\ Size' = n /\ Size \in Nat
      /\ Unresolved(Window[n]) /\ Window[n].branch_ID = ActiveList[i].branch_ID
      /\ \A k \in 1..n : /\ Window'[k].dest_valid = Window[k].dest_valid
                         /\ Window'[k].log_reg = Window[k].log_reg
                         /\ Window'[k].phys_reg = Window[k].phys_reg
                         /\ k < n => Window'[k] = Window[k]
      /\ Window'[n].completed
  BY <1>1, <1>2, RecoveredWindow, Occupancies
<1>4. /\ GBM' = CheckpointOf(n).GBM \ {Window[n].branch_ID}
      /\ RMT' = CheckpointOf(n).shadow_RMT
      /\ UNCHANGED <<AMT, Checkpoints>>
  BY <1>3 DEF ResolveMispredict, RestoredGBM, RestoredMap, ClearBit, CheckpointOf
<1>5. \A b \in Branch, k \in Nat : k <= n =>
        (OpenIn(Window', b, k) <=> OpenIn(Window, b, k))
  <2>1. \A k \in 1..(n - 1) : /\ Window'[k].branch_ID = Window[k].branch_ID
                              /\ Unresolved(Window'[k]) <=> Unresolved(Window[k])
    BY <1>3
  <2>2. n - 1 \in Nat /\ (n - 1) + 1 = n
    BY <1>3
  <2>3. \A b, k \in Nat : k <= (n - 1) + 1 =>
          (OpenIn(Window', b, k) <=> OpenIn(Window, b, k))
    BY <2>1, <2>2, OpenKeeps
  <2> QED  BY <2>2, <2>3, Constants
<1>6. ASSUME NEW b \in Branch
      PROVE  /\ OpenIn(Window', b, n + 1) <=> OpenIn(Window, b, n)
             /\ OpenIn(Window, b, n) => b # Window[n].branch_ID
  <2>1. \A k \in 1..((n + 1) - 1) : Unresolved(Window'[k]) =>
          k \in 1..(n - 1) /\ Window'[k] = Window[k]
    BY <1>3 DEF Unresolved
  <2>2. \A k \in 1..(n - 1) : k \in 1..((n + 1) - 1) /\ Window'[k] = Window[k]
    BY <1>3
  <2>3. \A k \in 1..(n - 1) : Unresolved(Window[k]) =>
          Window[k].branch_ID # Window[n].branch_ID
    <3>1. \A k \in 1..(n - 1) : k \in 1..Size /\ k # n
      BY <1>3
    <3> QED  BY <3>1, <1>1, <1>3, DistinctBranches
  <2> QED  BY <2>1, <2>2, <2>3 DEF OpenIn
<1>7. \A b \in Branch : b \in GBM' <=> OpenIn(Window', b, n + 1)
  <2>1. \A b \in Branch : b \in CheckpointOf(n).GBM <=> OpenIn(Window, b, n)
    BY <1>1, <1>3 DEF BranchesInOrder
  <2> QED  BY <2>1, <1>4, <1>6
<1>8. ASSUME NEW k \in 1..n, ~Window'[k].completed
      PROVE  /\ k \in 1..Size /\ k \in Nat /\ k <= n /\ Window'[k] = Window[k]
             /\ CheckpointOf(k)' = CheckpointOf(k)
  <2>1. k < n
    BY <1>3, <1>8
  <2> QED  BY <2>1, <1>3, <1>4 DEF CheckpointOf
<1>9. BranchesInOrder'
  <2>1. ASSUME NEW k \in 1..n, NEW b \in Branch
        PROVE  /\ ~Window'[k].completed =>
                    (b \in Window'[k].branch_mask <=> OpenIn(Window', b, k))
               /\ Unresolved(Window'[k]) =>
                    (b \in CheckpointOf(k)'.GBM <=> OpenIn(Window', b, k))
    BY <1>1, <1>5, <1>8 DEF BranchesInOrder, Unresolved
  <2> QED  BY <2>1, <1>3, <1>7 DEF BranchesInOrder
<1>10. ASSUME NEW m, NEW k \in Nat, k <= n, MapIs(m, AMT, Window, k)
       PROVE  MapIs(m, AMT', Window', k)
  <2>1. \A l \in 1..k : /\ Window'[l].dest_valid = Window[l].dest_valid
                        /\ Window'[l].log_reg = Window[l].log_reg
                        /\ Window'[l].phys_reg = Window[l].phys_reg
    BY <1>3, <1>10
  <2> QED  BY <2>1, <1>4, <1>10, MapKeeps
<1>11. MapIs(RMT', AMT', Window', n)
  <2>1. MapIs(CheckpointOf(n).shadow_RMT, AMT, Window, n)
    BY <1>1, <1>3 DEF MapsInOrder
  <2> QED  BY <2>1, <1>4, <1>10
<1>12. ASSUME NEW k \in 1..n, Unresolved(Window'[k])
       PROVE  MapIs(CheckpointOf(k)'.shadow_RMT, AMT', Window', k)
  <2>1. ~Window'[k].completed
    BY <1>12 DEF Unresolved
  <2>2. MapIs(CheckpointOf(k).shadow_RMT, AMT, Window, k)
    BY <2>1, <1>1, <1>8, <1>12 DEF MapsInOrder
  <2> QED  BY <2>1, <2>2, <1>8, <1>10
<1>13. MapsInOrder'
  BY <1>3, <1>11, <1>12 DEF MapsInOrder
<1> QED  BY <1>9, <1>13

(* A commit moves the oldest write into the committed map and takes no     *)
(* open branch with it: what is left sees the same map and branches.       *)
LEMMA CommitRecovery ==
  ASSUME RInv, RetireCommit
  PROVE  BranchesInOrder' /\ MapsInOrder'
<1>1. IInv /\ BranchesInOrder /\ MapsInOrder /\ TypeOK /\ HeadCompleted
  BY DEF RInv, IInv, RetireCommit
<1>2. /\ 1 \in 1..Size /\ Window[1] = ActiveList[AL_head] /\ Size - 1 \in Nat
      /\ Window[1] \in Inst
  BY <1>1, HeadOfWindow
<1>3. PICK n \in Nat : n = Size - 1
  BY <1>2
<1>4. /\ Size' = n /\ Size = n + 1
      /\ \A k \in 1..n : k + 1 \in 1..Size /\ Window'[k] = Window[k + 1]
  <2>1. PICK d \in {0, 1} : d = HeadWrites
    BY DEF HeadWrites
  <2> QED  BY <2>1, <1>1, <1>3, CommitWindow, Occupancies
<1>5. /\ UNCHANGED <<RMT, GBM, Checkpoints>>
      /\ AMT' = IF Window[1].dest_valid
                  THEN [AMT EXCEPT ![Window[1].log_reg] = Window[1].phys_reg] ELSE AMT
      /\ ~Unresolved(Window[1])
  BY <1>1, <1>2 DEF RetireCommit, commit, CommittedMap, HeadCompleted, Unresolved
<1>6. \A r \in LogReg : AMT'[r] = IF WritesReg(Window[1], r)
                                    THEN Window[1].phys_reg ELSE AMT[r]
  BY <1>1, <1>5 DEF WritesReg, TypeOK
<1>7. \A b \in Branch, k \in Nat : 1 <= k /\ k <= n + 1 =>
        (OpenIn(Window', b, k) <=> OpenIn(Window, b, k + 1))
  BY <1>4, <1>5, OpenTail, Constants
<1>8. ASSUME NEW k \in 1..n
      PROVE  /\ k \in Nat /\ 1 <= k /\ k <= n + 1 /\ k + 1 \in 1..Size
             /\ Window'[k] = Window[k + 1] /\ CheckpointOf(k)' = CheckpointOf(k + 1)
  BY <1>4, <1>5 DEF CheckpointOf
<1>9. BranchesInOrder'
  <2>1. \A b \in Branch : b \in GBM' <=> OpenIn(Window', b, n + 1)
    <3>1. \A b \in Branch : b \in GBM <=> OpenIn(Window, b, (n + 1) + 1)
      BY <1>1, <1>4 DEF BranchesInOrder
    <3>2. n + 1 \in Nat /\ 1 <= n + 1 /\ n + 1 <= n + 1
      OBVIOUS
    <3> QED  BY <3>1, <3>2, <1>5, <1>7
  <2>2. ASSUME NEW k \in 1..n, NEW b \in Branch
        PROVE  /\ ~Window'[k].completed =>
                    (b \in Window'[k].branch_mask <=> OpenIn(Window', b, k))
               /\ Unresolved(Window'[k]) =>
                    (b \in CheckpointOf(k)'.GBM <=> OpenIn(Window', b, k))
    BY <1>1, <1>7, <1>8 DEF BranchesInOrder
  <2> QED  BY <2>1, <2>2, <1>4 DEF BranchesInOrder
<1>10. ASSUME NEW m, NEW k \in Nat, k <= n, MapIs(m, AMT, Window, k + 1)
       PROVE  MapIs(m, AMT', Window', k)
  <2>1. \A l \in 1..k : Window'[l] = Window[l + 1]
    BY <1>4, <1>10
  <2> QED  BY <2>1, <1>6, <1>10, MapTail
<1>11. MapIs(RMT', AMT', Window', n)
  <2>1. MapIs(RMT, AMT, Window, n + 1)
    BY <1>1, <1>4 DEF MapsInOrder
  <2>2. MapIs(RMT, AMT', Window', n)
    BY <2>1, <1>10
  <2> QED  BY <2>2, <1>5
<1>12. ASSUME NEW k \in 1..n, Unresolved(Window'[k])
       PROVE  MapIs(CheckpointOf(k)'.shadow_RMT, AMT', Window', k)
  <2>1. MapIs(CheckpointOf(k + 1).shadow_RMT, AMT, Window, k + 1)
    BY <1>1, <1>8, <1>12 DEF MapsInOrder
  <2> QED  BY <2>1, <1>8, <1>10
<1>13. MapsInOrder'
  BY <1>4, <1>11, <1>12 DEF MapsInOrder
<1> QED  BY <1>9, <1>13

(* An empty window: no branch is open and the maps agree.                  *)
LEMMA EmptyRecovery ==
  ASSUME Size = 0, GBM = {}, RMT = AMT
  PROVE  BranchesInOrder /\ MapsInOrder
<1>1. \A b : ~OpenIn(Window, b, Size + 1)
  BY DEF OpenIn
<1>2. MapIs(RMT, AMT, Window, Size)
  BY MapEmpty
<1> QED  BY <1>1, <1>2 DEF BranchesInOrder, MapsInOrder

(* A squash leaves an empty window, and every register ready.              *)
LEMMA SquashRecovery ==
  ASSUME TypeOK, NEW amt \in [LogReg -> PhysReg], InjectiveMap(amt),
         NEW fl, squash(amt, fl)
  PROVE  (BranchesInOrder /\ MapsInOrder /\ CommittedReady)'
<1>1. /\ AMT' = amt /\ RMT' = amt /\ GBM' = {}
      /\ PRF_ready' = [p \in PhysReg |-> TRUE] /\ DISPATCH' = <<>>
      /\ AL_head' = 0 /\ AL_tail' = 0
      /\ AL_head_phase' = FALSE /\ AL_tail_phase' = FALSE
  BY DEF squash
<1>2. Size' = 0
  <2>1. ALCount' = 0 - 0
    BY <1>1, Zenon DEF ALCount, Occupancy
  <2> QED  BY <2>1, <1>1 DEF Size
<1>3. (BranchesInOrder /\ MapsInOrder)'
  <2>1. \A b : ~OpenIn(Window', b, Size' + 1)
    BY <1>2 DEF OpenIn
  <2>2. MapIs(RMT', AMT', Window', Size')
    BY <1>1, <1>2, MapEmpty
  <2> QED  BY <2>1, <2>2, <1>1, <1>2 DEF BranchesInOrder, MapsInOrder
<1>4. CommittedReady'
  BY <1>1 DEF CommittedReady
<1> QED  BY <1>3, <1>4

-----------------------------------------------------------------------------
(* Committed registers stay ready.                                         *)

(* The register that dispatch makes not ready is in flight, and so no      *)
(* committed one.                                                          *)
LEMMA DispatchReady ==
  ASSUME RInv, NEW predicted \in BOOLEAN, NEW skipIQ \in BOOLEAN,
         NEW flags \in SUBSET Flag, DispatchInst(predicted, skipIQ, flags)
  PROVE  CommittedReady'
<1> DEFINE x == Head(DISPATCH)
<1>1. IInv /\ TypeOK /\ CommittedReady
  BY DEF RInv, IInv
<1>2. /\ AMT' = AMT /\ DISPATCH # <<>>
      /\ PRF_ready' = IF x.dest_valid THEN [PRF_ready EXCEPT ![x.phys_reg] = predicted]
                                      ELSE PRF_ready
  BY DEF DispatchInst, mapVars
<1>3. x.dest_valid => x.phys_reg \in Inflight
  <2>1. /\ Len(DISPATCH) \in Nat /\ ALCount \in Nat /\ Len(DISPATCH) # 0
        /\ x = DISPATCH[1]
    BY <1>1, <1>2, Occupancies, Constants, EmptySeq, LenProperties DEF TypeOK
  <2>2. ALCount + 1 \in 1..Size /\ ~(ALCount + 1 <= ALCount)
        /\ (ALCount + 1) - ALCount = 1
    BY <2>1 DEF Size
  <2>3. Window[ALCount + 1] = x
    BY <2>1, <2>2, <1>1, WindowValues
  <2>4. DOMAIN Window = 1..Size
    BY DEF Window, Size
  <2> HIDE DEF x
  <2> QED  BY <2>2, <2>3, <2>4 DEF Inflight, WritersIn
<1>4. x.dest_valid => \A r \in LogReg : AMT[r] # x.phys_reg
  BY <1>1, <1>3, PartitionFromIInv DEF RegisterPartition, Committed
<1> HIDE DEF x
<1> QED  BY <1>1, <1>2, <1>4 DEF CommittedReady, TypeOK

(* The register a commit writes into AMT is made ready.                    *)
LEMMA CommitReady ==
  ASSUME RInv, RetireCommit
  PROVE  CommittedReady'
<1> DEFINE x == ActiveList[AL_head]
<1>1. TypeOK /\ CommittedReady /\ x \in Inst
  BY InstFields DEF RInv, IInv, TypeOK
<1>2. /\ AMT' = IF x.dest_valid THEN [AMT EXCEPT ![x.log_reg] = x.phys_reg] ELSE AMT
      /\ PRF_ready' = IF x.dest_valid THEN [PRF_ready EXCEPT ![x.phys_reg] = TRUE]
                                      ELSE PRF_ready
  BY DEF RetireCommit, commit, CommittedMap
<1> HIDE DEF x
<1> QED  BY <1>1, <1>2, InstFields DEF CommittedReady, TypeOK

-----------------------------------------------------------------------------
(* RInv holds initially.                                                   *)
LEMMA InitRecovery ==
  ASSUME Init
  PROVE  RInv
<1>1. IInv
  BY InitStep
<1>2. Size = 0
  <2>1. ALCount = 0 - 0
    BY Zenon DEF Init, ALCount, Occupancy
  <2> QED  BY <2>1 DEF Size, Init
<1>3. GBM = {} /\ RMT = AMT
  BY DEF Init
<1>4. CommittedReady
  BY <1>1 DEF CommittedReady, Init, IInv, TypeOK
<1> QED  BY <1>1, <1>2, <1>3, <1>4, EmptyRecovery DEF RInv

(* RInv is inductive.                                                      *)
LEMMA NextRecovery ==
  ASSUME RInv, [Next]_vars
  PROVE  RInv'
<1>1. IInv /\ IInv' /\ TypeOK /\ BranchesInOrder /\ MapsInOrder /\ CommittedReady
  BY NextStep DEF RInv, IInv
<1> DEFINE Goal == BranchesInOrder /\ MapsInOrder /\ CommittedReady
<1> SUFFICES Goal'
  BY <1>1 DEF RInv
<1>2. ASSUME NEW dest \in BOOLEAN, NEW branch \in BOOLEAN, NEW r \in LogReg,
             RenameInst(dest, r, branch)
      PROVE  Goal'
  <2>1. UNCHANGED <<AMT, PRF_ready>>
    BY <1>2 DEF RenameInst
  <2> QED  BY <2>1, <1>1, <1>2, RenameRecovery DEF CommittedReady
<1>3. ASSUME NEW predicted \in BOOLEAN, NEW skipIQ \in BOOLEAN,
             NEW flags \in SUBSET (Flag \cap {"exception"}),
             DispatchInst(predicted, skipIQ, flags)
      PROVE  Goal'
  BY <1>1, <1>3, DispatchStill, StillRecovery, DispatchReady
<1>4. ASSUME NEW i \in ALIndex, SetReady(i)
      PROVE  Goal'
  <2>1. AMT' = AMT /\ PRF_ready' = [PRF_ready EXCEPT ![ActiveList[i].phys_reg] = TRUE]
    BY <1>4 DEF SetReady, mapVars
  <2>2. CommittedReady'
    BY <2>1, <1>1 DEF CommittedReady, TypeOK
  <2> QED  BY <2>2, <1>1, <1>4, SetReadyStill, StillRecovery
<1>5. ASSUME NEW i \in ALIndex, NEW f \in Flag, SetFlag(i, f)
      PROVE  Goal'
  <2>1. UNCHANGED <<AMT, PRF_ready>>
    BY <1>5 DEF SetFlag, mapVars
  <2> QED  BY <2>1, <1>1, <1>5, SetFlagStill, StillRecovery DEF CommittedReady
<1>6. ASSUME NEW i \in ALIndex, NEW late \in BOOLEAN, SetComplete(i, late)
      PROVE  Goal'
  <2>1. UNCHANGED <<AMT, PRF_ready>>
    BY <1>6 DEF SetComplete, mapVars
  <2> QED  BY <2>1, <1>1, <1>6, SetCompleteStill, StillRecovery DEF CommittedReady
<1>7. ASSUME NEW i \in ALIndex, ResolveCorrect(i)
      PROVE  Goal'
  <2>1. UNCHANGED <<AMT, PRF_ready>>
    BY <1>7 DEF ResolveCorrect, mapVars
  <2> QED  BY <2>1, <1>1, <1>7, ResolveCorrectRecovery DEF CommittedReady
<1>8. ASSUME NEW i \in ALIndex, ResolveMispredict(i)
      PROVE  Goal'
  <2>1. UNCHANGED <<AMT, PRF_ready>>
    BY <1>8 DEF ResolveMispredict
  <2> QED  BY <2>1, <1>1, <1>8, MispredictRecovery DEF CommittedReady
<1>9. CASE RetireCommit
  BY <1>9, CommitRecovery, CommitReady
<1>10. CASE RetireSquash
  <2>1. AMT \in [LogReg -> PhysReg] /\ InjectiveMap(AMT)
    BY <1>1 DEF IInv, TypeOK, MapsDisjoint, InjectiveMap
  <2> QED  BY <2>1, <1>1, <1>10, SquashRecovery DEF RetireSquash
<1>11. CASE RetireCommitSquash
  <2>1. HeadCompleted /\ squash(CommittedMap(ActiveList[AL_head]),
                                FreedList(ActiveList[AL_head]))
    BY <1>11 DEF RetireCommitSquash
  <2>2. /\ CommittedMap(ActiveList[AL_head]) \in [LogReg -> PhysReg]
        /\ InjectiveMap(CommittedMap(ActiveList[AL_head]))
    BY <2>1, <1>1, CommittedMapInjective DEF IInv
  <2> QED  BY <2>1, <2>2, <1>1, SquashRecovery
<1>12. CASE UNCHANGED vars
  <2>1. /\ UNCHANGED <<RMT, AMT, PRF_ready, GBM, Checkpoints, DISPATCH, ActiveList>>
        /\ UNCHANGED <<AMT, flVars, AL_head, AL_tail, AL_head_phase, AL_tail_phase>>
    BY <1>12 DEF vars, mapVars, alVars
  <2>2. Size' = Size /\ \A k \in 1..Size : Window'[k] = Window[k]
    BY <2>1, <1>1, SameRings DEF IInv
  <2>3. StillInsts
    BY <2>1, <2>2 DEF StillInsts
  <2> QED  BY <2>1, <2>3, <1>1, StillRecovery DEF CommittedReady
<1> QED
  BY <1>2, <1>3, <1>4, <1>5, <1>6, <1>7, <1>8, <1>9, <1>10, <1>11, <1>12 DEF Next

(* RInv holds in every reachable state.                                    *)
THEOREM RecoveryInvariant == Spec => []RInv
<1>1. Init => RInv
  BY InitRecovery
<1>2. RInv /\ [Next]_vars => RInv'
  BY NextRecovery
<1> QED  BY <1>1, <1>2, PTL DEF Spec

-----------------------------------------------------------------------------
(* What follows from RInv.                                                 *)

(* The window is a sequence of Size instructions. *)
LEMMA WindowSequence ==
  ASSUME TypeOK
  PROVE  /\ DOMAIN Window = 1..Size /\ Window \in Seq(Inst) /\ Len(Window) = Size
         /\ Size \in Nat
<1>1. DOMAIN Window = 1..Size /\ Window = [k \in 1..Size |-> Window[k]]
  BY DEF Window, Size
<1>2. Size \in Nat
  BY Occupancies
<1>3. Window \in [1..Size -> Inst]
  BY <1>1, WindowValues
<1>4. Window \in Seq(Inst)
  BY <1>2, <1>3, IsASeq
<1> QED  BY <1>1, <1>2, <1>4, LenProperties

(* The open branches before the n-th instruction, as a set. *)
LEMMA OpenSet ==
  ASSUME TypeOK, NEW n \in 1..(Size + 1)
  PROVE  /\ \A b \in Branch : b \in UnresolvedBefore(Window, n) <=> OpenIn(Window, b, n)
         /\ UnresolvedBefore(Window, n) \subseteq Branch
<1>1. \A j : j \in DOMAIN Window /\ j < n <=> j \in 1..(n - 1)
  BY WindowSequence
<1>2. \A j \in 1..(n - 1) : Unresolved(Window[j]) => Window[j].branch_ID \in Branch
  <2>1. \A j \in 1..(n - 1) : j \in 1..Size
    BY WindowSequence
  <2> QED  BY <2>1, WindowValues, UnresolvedID
<1>3. \A b : b \in UnresolvedBefore(Window, n) <=> OpenIn(Window, b, n)
  BY <1>1 DEF UnresolvedBefore, OpenIn
<1> QED  BY <1>2, <1>3 DEF OpenIn

(* The map after the n oldest instructions is the one their youngest       *)
(* writers make.                                                           *)
LEMMA YoungestWriter ==
  ASSUME NEW m, NEW c, NEW w, NEW n \in Nat, MapIs(m, c, w, n),
         NEW r \in LogReg, NEW W, W = {k \in 1..n : WritesReg(w[k], r)}
  PROVE  m[r] = IF W = {} THEN c[r]
                ELSE w[CHOOSE k \in W : \A l \in W : l <= k].phys_reg
<1> DEFINE top == CHOOSE k \in W : \A l \in W : l <= k
<1>1. CASE m[r] = c[r] /\ \A k \in 1..n : ~WritesReg(w[k], r)
  BY <1>1
<1>2. ASSUME NEW k \in 1..n, WritesReg(w[k], r), m[r] = w[k].phys_reg,
             \A l \in 1..n : WritesReg(w[l], r) => l <= k
      PROVE  W # {} /\ m[r] = w[top].phys_reg
  <2>1. k \in W /\ \A l \in W : l <= k
    BY <1>2
  <2>2. top \in W /\ \A l \in W : l <= top
    BY <2>1
  <2>3. top = k
    BY <2>1, <2>2
  <2> QED  BY <2>1, <2>3, <1>2
<1> QED  BY <1>1, <1>2 DEF MapIs

(* MapAfter is the only map MapIs describes. *)
LEMMA MapAfterIs ==
  ASSUME TypeOK, NEW n \in 0..Size, NEW m \in [LogReg -> PhysReg],
         MapIs(m, AMT, Window, n)
  PROVE  m = MapAfter(Window, n)
<1>1. ASSUME NEW r \in LogReg
      PROVE  m[r] = MapAfter(Window, n)[r]
  <2>1. WritersOf(Window, r, n) = {k \in 1..n : WritesReg(Window[k], r)}
    BY WindowSequence DEF WritersOf, WritersIn, WritesReg
  <2>2. m[r] = IF WritersOf(Window, r, n) = {} THEN AMT[r]
               ELSE Window[CHOOSE k \in WritersOf(Window, r, n) :
                             \A l \in WritersOf(Window, r, n) : l <= k].phys_reg
    <3>1. PICK W : W = WritersOf(Window, r, n)
      OBVIOUS
    <3>2. n \in Nat /\ W = {k \in 1..n : WritesReg(Window[k], r)}
      BY <2>1, <3>1, Occupancies
    <3>3. m[r] = IF W = {} THEN AMT[r]
                 ELSE Window[CHOOSE k \in W : \A l \in W : l <= k].phys_reg
      BY <3>2, YoungestWriter
    <3> QED  BY <3>1, <3>3
  <2> QED  BY <2>2 DEF MapAfter
<1>2. MapAfter(Window, n) = [r \in LogReg |-> MapAfter(Window, n)[r]]
  BY DEF MapAfter
<1> QED  BY <1>1, <1>2

(* Since the checkpoint of an unresolved branch, as many slots have been   *)
(* allocated as there are writers behind the branch.                       *)
LEMMA AllocatedSince ==
  ASSUME IInv, NEW k \in 1..Size, Unresolved(Window[k])
  PROVE  Cardinality({l \in WritersIn(Window) : l > k})
           = Allocated - AllocatedAt(CheckpointOf(k))
<1> DEFINE L == {l \in WritersIn(Window) : l > k}
           A == AllocatedAt(CheckpointOf(k))
           D == A..(Allocated - 1)
           Slot(l) == CHOOSE s \in FLSlot : Writes(Window[l], s)
           f == [l \in L |-> TailDist(Slot(l))]
<1>1. /\ TypeOK /\ MapsDisjoint /\ SlotsInOrder /\ CheckpointSplits(k)
  BY DEF IInv, CheckpointsInOrder
<1>2. A \in Int /\ Allocated \in Int /\ A <= Allocated /\ 0 <= A
  <2>1. CheckpointOf(k) \in Checkpoint
    BY <1>1, WindowValues, UnresolvedID DEF CheckpointOf, TypeOK
  <2>2. A \in Int /\ A \in 0..FL_size
    BY <2>1, <1>1, CheckpointOccupancy DEF CheckpointSplits
  <2> QED  BY <2>2, <1>1, Occupancies, Constants DEF CheckpointSplits
<1>3. /\ \A s \in FLSlot : TailDist(s) \in Int
      /\ \A s, t \in FLSlot : TailDist(s) = TailDist(t) => s = t
  BY <1>1, TailDistances, Constants
<1>4. L = {l \in 1..Size : l > k /\ Window[l].dest_valid}
  BY <1>1, WindowSequence DEF WritersIn
<1>5. ASSUME NEW l \in L
      PROVE  /\ l \in 1..Size /\ Slot(l) \in FLSlot /\ Writes(Window[l], Slot(l))
             /\ f[l] = TailDist(Slot(l)) /\ f[l] \in D
  <2>1. l \in 1..Size /\ Window[l].dest_valid /\ ~(l <= k)
    BY <1>4
  <2>2. \E s \in FLSlot : Writes(Window[l], s)
    BY <2>1, <1>1 DEF SlotsInOrder
  <2>3. Slot(l) \in FLSlot /\ Writes(Window[l], Slot(l))
    BY <2>2
  <2> HIDE DEF Slot, L
  <2>4. TailDist(Slot(l)) < Allocated /\ ~(TailDist(Slot(l)) < A)
    BY <2>1, <2>3, <1>1, WriterSlot DEF CheckpointSplits
  <2>5. f[l] = TailDist(Slot(l))
    OBVIOUS
  <2> QED  BY <2>1, <2>3, <2>4, <2>5, <1>2, <1>3
<1> HIDE DEF Slot
<1>6. f \in Injection(L, D)
  <2>1. ASSUME NEW l \in L, NEW j \in L, f[l] = f[j]
        PROVE  l = j
    <3>1. Slot(l) = Slot(j)
      BY <2>1, <1>3, <1>5
    <3>2. ~(TailDist(Slot(l)) < TailDist(Slot(l)))
      BY <1>3, <1>5
    <3>3. ~(l < j) /\ ~(j < l)
      BY <3>1, <3>2, <1>1, <1>5 DEF SlotsInOrder
    <3>4. l \in Int /\ j \in Int
      BY <1>5
    <3> QED  BY <3>3, <3>4
  <2>2. f \in [L -> D]
    BY <1>5
  <2> QED  BY <2>1, <2>2 DEF Injection, IsInjective
<1>7. ASSUME NEW d \in D
      PROVE  \E l \in L : f[l] = d
  <2>1. PICK s \in FLSlot : TailDist(s) = d
    <3>1. d \in 0..(FL_size - 1) /\ FL_tail \in 0..(FL_size - 1)
      BY <1>1, <1>2, Occupancies, Constants DEF TypeOK, FLSlot
    <3>2. /\ Ahead(d, FL_tail, FL_size) \in 0..(FL_size - 1)
          /\ Distance(Ahead(d, FL_tail, FL_size), FL_tail, FL_size) = d
      BY <3>1, Constants, DistanceAhead
    <3> QED  BY <3>2 DEF TailDist, FLSlot
  <2>2. TailDist(s) < Allocated /\ ~(TailDist(s) < A)
    BY <2>1, <1>2
  <2>3. PICK l \in 1..Size : Writes(Window[l], s)
    BY <2>2, <1>1 DEF SlotsInOrder
  <2>4. l \in L
    BY <2>2, <2>3, <1>1, <1>4 DEF CheckpointSplits, Writes
  <2>5. Slot(l) = s
    BY <2>3, <2>4, <1>1, <1>5, WriterSlot
  <2> QED  BY <2>1, <2>4, <2>5, <1>5
<1>8. f \in Surjection(L, D)
  BY <1>5, <1>7 DEF Surjection
<1>9. IsFiniteSet(D) /\ Cardinality(D) = Allocated - A
  <2>1. /\ IsFiniteSet(A..(Allocated - 1))
        /\ Cardinality(A..(Allocated - 1)) =
             IF A > Allocated - 1 THEN 0 ELSE (Allocated - 1) - A + 1
    <3>1. A \in Int /\ Allocated - 1 \in Int
      BY <1>2
    <3> HIDE DEF A
    <3> QED  BY <3>1, FS_Interval
  <2> HIDE DEF A
  <2> QED  BY <2>1, <1>2
<1> HIDE DEF f, D, L, A
<1>10. Cardinality(L) = Cardinality(D)
  BY <1>6, <1>8, <1>9, FS_Injection
<1> QED  BY <1>9, <1>10 DEF L, A

(* RInv implies that recovery from a checkpoint restores the machine.      *)
LEMMA RestoreFromRInv ==
  ASSUME RInv
  PROVE  CheckpointsRestore
<1>1. IInv /\ TypeOK /\ CheckpointsInOrder /\ BranchesInOrder /\ MapsInOrder
  BY DEF RInv, IInv
<1>2. ASSUME NEW k \in 1..Size, Unresolved(Window[k])
      PROVE  /\ CheckpointOf(k).shadow_RMT = MapAfter(Window, k)
             /\ Occupancy(CheckpointOf(k).FL_head, CheckpointOf(k).FL_head_phase,
                          FL_tail, FL_tail_phase, FL_size)
                  = FreeRegs + Cardinality({l \in WritersIn(Window) : l > k})
             /\ CheckpointOf(k).GBM = UnresolvedBefore(Window, k)
  <2>1. CheckpointOf(k) \in Checkpoint /\ Size \in Nat
    BY <1>1, <1>2, WindowValues, UnresolvedID, Occupancies DEF CheckpointOf, TypeOK
  <2>2. CheckpointOf(k).shadow_RMT = MapAfter(Window, k)
    <3>1. /\ MapIs(CheckpointOf(k).shadow_RMT, AMT, Window, k)
          /\ CheckpointOf(k).shadow_RMT \in [LogReg -> PhysReg] /\ k \in 0..Size
      BY <2>1, <1>1, <1>2 DEF MapsInOrder, Checkpoint
    <3> QED  BY <3>1, <1>1, MapAfterIs
  <2>3. CheckpointOf(k).GBM = UnresolvedBefore(Window, k)
    <3>1. /\ CheckpointOf(k).GBM \subseteq Branch /\ k \in 1..(Size + 1)
          /\ \A b \in Branch : b \in CheckpointOf(k).GBM <=> OpenIn(Window, b, k)
      BY <2>1, <1>1, <1>2 DEF BranchesInOrder, Checkpoint
    <3>2. /\ \A b \in Branch : b \in UnresolvedBefore(Window, k) <=> OpenIn(Window, b, k)
          /\ UnresolvedBefore(Window, k) \subseteq Branch
      BY <3>1, <1>1, OpenSet
    <3> QED  BY <3>1, <3>2
  <2>4. Occupancy(CheckpointOf(k).FL_head, CheckpointOf(k).FL_head_phase,
                  FL_tail, FL_tail_phase, FL_size) \in Int
    <3>1. /\ CheckpointOf(k).FL_head \in 0..(FL_size - 1)
          /\ CheckpointOf(k).FL_head_phase \in BOOLEAN
          /\ FL_tail \in 0..(FL_size - 1) /\ FL_tail_phase \in BOOLEAN
          /\ RingOK(CheckpointOf(k).FL_head, CheckpointOf(k).FL_head_phase,
                    FL_tail, FL_tail_phase)
      BY <2>1, <1>1, <1>2 DEF Checkpoint, TypeOK, FLSlot, CheckpointsInOrder, CheckpointSplits
    <3> QED  BY <3>1, Constants, OccupancyRange
  <2>5. /\ Cardinality({l \in WritersIn(Window) : l > k})
             = Allocated - AllocatedAt(CheckpointOf(k))
        /\ FreeRegs \in Int /\ FL_size \in Int
    BY <1>1, <1>2, AllocatedSince, Occupancies, Constants
  <2>6. Occupancy(CheckpointOf(k).FL_head, CheckpointOf(k).FL_head_phase,
                  FL_tail, FL_tail_phase, FL_size)
          = FreeRegs + Cardinality({l \in WritersIn(Window) : l > k})
    BY <2>4, <2>5 DEF Allocated, AllocatedAt
  <2> QED  BY <2>2, <2>3, <2>6
<1> QED  BY <1>1, <1>2, WindowSequence DEF CheckpointsRestore, CheckpointOf

(* RInv implies that selective squash is exact.                            *)
LEMMA MasksFromRInv ==
  ASSUME RInv
  PROVE  BranchMaskExact
<1>1. IInv /\ TypeOK /\ CheckpointsInOrder /\ BranchesInOrder
  BY DEF RInv, IInv
<1>2. DOMAIN Window = 1..Size /\ Len(Window) = Size /\ Size \in Nat
  BY <1>1, WindowSequence
<1>3. GBM = UnresolvedBefore(Window, Size + 1)
  <2>1. /\ \A b \in Branch : b \in UnresolvedBefore(Window, Size + 1) <=>
             OpenIn(Window, b, Size + 1)
        /\ UnresolvedBefore(Window, Size + 1) \subseteq Branch
    BY <1>1, <1>2, OpenSet
  <2>2. GBM \subseteq Branch /\ \A b \in Branch : b \in GBM <=> OpenIn(Window, b, Size + 1)
    BY <1>1 DEF TypeOK, BranchesInOrder
  <2> QED  BY <2>1, <2>2
<1>4. ASSUME NEW k \in 1..Size
      PROVE  /\ ~Window[k].completed =>
                  Window[k].branch_mask = UnresolvedBefore(Window, k)
             /\ Unresolved(Window[k]) =>
                  Window[k].branch_ID \notin UnresolvedBefore(Window, k)
  <2>1. /\ \A b \in Branch : b \in UnresolvedBefore(Window, k) <=> OpenIn(Window, b, k)
        /\ UnresolvedBefore(Window, k) \subseteq Branch
    BY <1>1, <1>2, OpenSet
  <2>2. Window[k].branch_mask \subseteq Branch
    BY <1>1, WindowValues, InstFields
  <2>3. ~Window[k].completed =>
          \A b \in Branch : b \in Window[k].branch_mask <=> OpenIn(Window, b, k)
    BY <1>1 DEF BranchesInOrder
  <2>4. Unresolved(Window[k]) => ~OpenIn(Window, Window[k].branch_ID, k)
    <3>1. \A j \in 1..(k - 1) : j \in 1..Size /\ j # k
      BY <1>2
    <3> QED  BY <3>1, <1>1, DistinctBranches DEF OpenIn
  <2> QED  BY <2>1, <2>2, <2>3, <2>4
<1> QED  BY <1>2, <1>3, <1>4 DEF BranchMaskExact

(* RInv implies that whoever waits for a register has a writer to wait for.*)
LEMMA NoOrphanFromRInv ==
  ASSUME RInv
  PROVE  NoOrphanWait
<1>1. TypeOK /\ MapIs(RMT, AMT, Window, Size) /\ CommittedReady
  BY DEF RInv, IInv, MapsInOrder
<1>2. ASSUME NEW r \in LogReg, ~PRF_ready[RMT[r]]
      PROVE  RMT[r] \in Inflight
  <2>1. RMT[r] # AMT[r]
    BY <1>1, <1>2 DEF CommittedReady
  <2>2. PICK k \in 1..Size : WritesReg(Window[k], r) /\ RMT[r] = Window[k].phys_reg
    BY <2>1, <1>1 DEF MapIs
  <2> QED  BY <2>2, <1>1, WindowSequence DEF Inflight, WritersIn, WritesReg
<1> QED  BY <1>2 DEF NoOrphanWait

(* CheckpointsRestore: a checkpoint restores the map, the free list and    *)
(* the open branches as they were behind its branch, whatever was renamed, *)
(* resolved and committed since.                                           *)
THEOREM RecoveryRestores == Spec => []CheckpointsRestore
<1>1. RInv => CheckpointsRestore
  BY RestoreFromRInv
<1> QED  BY <1>1, RecoveryInvariant, PTL

(* BranchMaskExact: the branch masks and GBM name exactly the unresolved   *)
(* older branches, so that a selective squash takes the younger            *)
(* instructions and no other.                                              *)
THEOREM SelectiveSquashExact == Spec => []BranchMaskExact
<1>1. RInv => BranchMaskExact
  BY MasksFromRInv
<1> QED  BY <1>1, RecoveryInvariant, PTL

(* NoOrphanWait: a register that the speculative map names and that is not *)
(* ready has an instruction in flight that will write it.                  *)
THEOREM NobodyWaitsInVain == Spec => []NoOrphanWait
<1>1. RInv => NoOrphanWait
  BY NoOrphanFromRInv
<1> QED  BY <1>1, RecoveryInvariant, PTL

-----------------------------------------------------------------------------
(* The renamer implements precise renaming (RenameSpec): with the          *)
(* committed map, the window, the speculative map and the set of free      *)
(* registers for its variables, every step of Renamer is a step of         *)
(* RenameSpec or changes none of them.  RInv determines the speculative    *)
(* map and the free registers, so that each step has only to be compared   *)
(* on the committed map and the window.                                    *)

(* What the abstract window keeps of an instruction. *)
Abs(x) ==
  [dest_valid |-> x.dest_valid, log_reg |-> x.log_reg,
   phys_reg |-> x.phys_reg, open |-> Unresolved(x)]

AbsInst ==
  [dest_valid : BOOLEAN, log_reg : LogReg, phys_reg : PhysReg, open : BOOLEAN]

(* The abstract window is a sequence of as many instructions.              *)
AbstractSequence ==
  /\ AbstractWindow \in Seq(AbsInst) /\ Len(AbstractWindow) = Size
  /\ DOMAIN AbstractWindow = 1..Size /\ Size \in Nat
  /\ \A k \in 1..Size : /\ AbstractWindow[k] = Abs(Window[k])
                        /\ Abs(Window[k]) \in AbsInst

(* The speculative map and the free registers follow from the committed    *)
(* map and the window.                                                     *)
AbstractState ==
  /\ AbstractSequence
  /\ RMT = Precise!Lookup(AMT, AbstractWindow)
  /\ FreeSet = Precise!Unused(AMT, AbstractWindow)

-----------------------------------------------------------------------------
(* The fields of an abstract instruction. *)
LEMMA AbsFields ==
  ASSUME NEW x \in Inst
  PROVE  /\ Abs(x) \in AbsInst
         /\ Abs(x).dest_valid = x.dest_valid /\ Abs(x).log_reg = x.log_reg
         /\ Abs(x).phys_reg = x.phys_reg /\ (Abs(x).open <=> Unresolved(x))
<1>1. Unresolved(x) \in BOOLEAN
  BY DEF Unresolved
<1> QED  BY <1>1, InstFields DEF Abs, AbsInst

(* Type correctness makes the abstract window a sequence. *)
LEMMA AbstractSequenceHolds ==
  ASSUME TypeOK
  PROVE  AbstractSequence
<1>1. DOMAIN Window = 1..Size /\ Size \in Nat
  BY WindowSequence
<1>2. AbstractWindow = [k \in 1..Size |-> Abs(Window[k])]
  BY <1>1 DEF AbstractWindow, Abs
<1>3. \A k \in 1..Size : Abs(Window[k]) \in AbsInst
  BY WindowValues, AbsFields
<1>4. AbstractWindow \in Seq(AbsInst)
  BY <1>1, <1>2, <1>3, IsASeq
<1>5. Len(AbstractWindow) = Size
  BY <1>1, <1>2, <1>4, LenProperties
<1> QED  BY <1>1, <1>2, <1>3, <1>4, <1>5 DEF AbstractSequence

(* The speculative map is the one the abstract window determines. *)
LEMMA LookupHolds ==
  ASSUME RInv
  PROVE  RMT = Precise!Lookup(AMT, AbstractWindow)
<1>1. TypeOK /\ MapIs(RMT, AMT, Window, Size) /\ AbstractSequence
  BY AbstractSequenceHolds DEF RInv, IInv, MapsInOrder
<1>2. ASSUME NEW r \in LogReg
      PROVE  RMT[r] = Precise!Lookup(AMT, AbstractWindow)[r]
  <2>1. PICK W : W = {k \in 1..Size : WritesReg(Window[k], r)}
    OBVIOUS
  <2>2. RMT[r] = IF W = {} THEN AMT[r]
                 ELSE Window[CHOOSE k \in W : \A l \in W : l <= k].phys_reg
    <3>1. PICK n \in Nat : n = Size
      BY <1>1 DEF AbstractSequence
    <3>2. MapIs(RMT, AMT, Window, n) /\ W = {k \in 1..n : WritesReg(Window[k], r)}
      BY <1>1, <2>1, <3>1
    <3> QED  BY <3>2, YoungestWriter
  <2>3. \A k \in 1..Size : /\ AbstractWindow[k].dest_valid = Window[k].dest_valid
                           /\ AbstractWindow[k].log_reg = Window[k].log_reg
                           /\ AbstractWindow[k].phys_reg = Window[k].phys_reg
    BY <1>1, WindowValues, AbsFields DEF AbstractSequence
  <2>4. W = {k \in DOMAIN AbstractWindow :
               AbstractWindow[k].dest_valid /\ AbstractWindow[k].log_reg = r}
    BY <2>1, <2>3, <1>1 DEF WritesReg, AbstractSequence
  <2>5. W # {} => (CHOOSE k \in W : \A l \in W : l <= k) \in 1..Size
    <3>1. CASE RMT[r] = AMT[r] /\ \A k \in 1..Size : ~WritesReg(Window[k], r)
      BY <2>1, <3>1
    <3>2. CASE \E k \in 1..Size :
                 /\ WritesReg(Window[k], r) /\ RMT[r] = Window[k].phys_reg
                 /\ \A l \in 1..Size : WritesReg(Window[l], r) => l <= k
      <4>1. \E k \in W : \A l \in W : l <= k
        BY <2>1, <3>2
      <4>2. (CHOOSE k \in W : \A l \in W : l <= k) \in W
        BY <4>1
      <4> QED  BY <2>1, <4>2
    <3> QED  BY <1>1, <3>1, <3>2 DEF MapIs
  <2>6. Precise!Lookup(AMT, AbstractWindow)[r]
          = IF W = {} THEN AMT[r]
            ELSE AbstractWindow[CHOOSE k \in W : \A l \in W : l <= k].phys_reg
    BY <2>4 DEF Precise!Lookup, Precise!LogReg, LogReg
  <2> QED  BY <2>2, <2>3, <2>5, <2>6
<1> QED  BY <1>1, <1>2 DEF Precise!Lookup, Precise!LogReg, LogReg, TypeOK

(* The free registers are those that neither the committed map nor the     *)
(* window uses.                                                            *)
LEMMA UnusedHolds ==
  ASSUME RInv
  PROVE  FreeSet = Precise!Unused(AMT, AbstractWindow)
<1>1. TypeOK /\ RegisterPartition /\ AbstractSequence /\ DOMAIN Window = 1..Size
  BY AbstractSequenceHolds, PartitionFromIInv, WindowSequence DEF RInv, IInv
<1>2. \A k \in 1..Size : /\ AbstractWindow[k].dest_valid = Window[k].dest_valid
                         /\ AbstractWindow[k].phys_reg = Window[k].phys_reg
  BY <1>1, WindowValues, AbsFields DEF AbstractSequence
<1>3. \A p : p \in Inflight <=> \E k \in 1..Size : Window[k].dest_valid /\ Window[k].phys_reg = p
  BY <1>1 DEF Inflight, WritersIn
<1>4. \A p : p \in Precise!Unused(AMT, AbstractWindow) <=>
        p \in PhysReg /\ p \notin Committed /\ p \notin Inflight
  BY <1>1, <1>2, <1>3
  DEF Precise!Unused, Precise!LogReg, Precise!PhysReg, LogReg, PhysReg, Committed,
      AbstractSequence
<1> QED  BY <1>1, <1>4 DEF RegisterPartition

(* In every reachable state RMT and the free list are what the abstract    *)
(* state determines.                                                       *)
LEMMA AbstractStateHolds == RInv => AbstractState
BY AbstractSequenceHolds, LookupHolds, UnusedHolds DEF RInv, IInv, AbstractState

(* The same after a step. *)
LEMMA AbstractStateAfter == RInv' => AbstractState'
BY AbstractStateHolds, PTL

(* So a step that makes the abstract committed map c and window w is the   *)
(* abstract update to them.                                                *)
LEMMA UpdateTo ==
  ASSUME RInv', NEW c, NEW w, AMT' = c, AbstractWindow' = w
  PROVE  Precise!Update(c, w)
BY AbstractStateAfter DEF AbstractState, Precise!Update

-----------------------------------------------------------------------------
(* One lemma per abstract action.                                          *)

(* Wakeups, flags, completions and dispatch are invisible. *)
LEMMA StillStutters ==
  ASSUME RInv, RInv', StillInsts
  PROVE  UNCHANGED Precise!vars
<1>1. AbstractState /\ AbstractState'
  BY AbstractStateHolds, AbstractStateAfter
<1>2. TypeOK /\ TypeOK' /\ Size' = Size /\ UNCHANGED <<RMT, AMT>>
  BY DEF RInv, IInv, StillInsts
<1>3. AbstractWindow' = AbstractWindow
  <2>1. ASSUME NEW k \in 1..Size
        PROVE  AbstractWindow'[k] = AbstractWindow[k]
    <3>1. Abs(Window'[k]) = Abs(Window[k])
      <4>1. (Unresolved(Window'[k]) <=> Unresolved(Window[k]))
            /\ Unresolved(Window'[k]) \in BOOLEAN /\ Unresolved(Window[k]) \in BOOLEAN
        BY DEF StillInsts, Unresolved
      <4>2. Unresolved(Window'[k]) = Unresolved(Window[k])
        BY <4>1
      <4> QED  BY <4>2 DEF StillInsts, Abs
    <3> QED  BY <3>1, <1>1, <1>2 DEF AbstractState, AbstractSequence
  <2> QED  BY <2>1, <1>1, <1>2, SeqEqual DEF AbstractState, AbstractSequence
<1>4. FreeSet' = FreeSet
  BY <1>1, <1>2, <1>3 DEF AbstractState
<1> QED  BY <1>2, <1>3, <1>4 DEF Precise!vars

(* Rename appends an instruction with a free register for its destination. *)
LEMMA RenameRefines ==
  ASSUME RInv, RInv', NEW dest \in BOOLEAN, NEW r \in LogReg, NEW branch \in BOOLEAN,
         RenameInst(dest, r, branch)
  PROVE  Precise!Rename
<1> DEFINE y == Renamed(dest, r, branch)
<1>1. IInv /\ TypeOK /\ TypeOK' /\ AbstractState /\ AbstractState'
  BY AbstractStateHolds, AbstractStateAfter DEF RInv, IInv
<1>2. PICK n \in Nat : n = Size
  BY <1>1, Occupancies
<1>3. /\ Size' = n + 1 /\ \A k \in 1..n : Window'[k] = Window[k]
      /\ Window'[n + 1] = y
  BY <1>1, <1>2, RenameWindow
<1>4. /\ y.dest_valid = dest /\ (Unresolved(y) <=> branch)
      /\ y.log_reg = (IF dest THEN r ELSE 0)
      /\ y.phys_reg = (IF dest THEN FreeList[FL_head] ELSE 0)
  <2>1. branch => FirstFree \in Branch \ GBM
    BY <1>1, FirstFreeIsFree DEF RenameInst
  <2> QED  BY <2>1, Constants DEF Renamed, Unresolved
<1>5. y \in Inst
  BY <1>1, RenameType
<1> HIDE DEF y
<1>6. AbstractWindow' = Append(AbstractWindow, Abs(y))
  <2>1. Abs(y) \in AbsInst
    BY <1>5, AbsFields
  <2>2. /\ AbstractWindow \in Seq(AbsInst) /\ Len(AbstractWindow) = n
        /\ AbstractWindow' \in Seq(AbsInst) /\ Len(AbstractWindow') = n + 1
        /\ \A k \in 1..n : AbstractWindow'[k] = AbstractWindow[k]
        /\ AbstractWindow'[n + 1] = Abs(y)
    BY <1>1, <1>2, <1>3 DEF AbstractState, AbstractSequence
  <2>3. /\ Append(AbstractWindow, Abs(y)) \in Seq(AbsInst)
        /\ Len(Append(AbstractWindow, Abs(y))) = n + 1
        /\ \A k \in 1..n : Append(AbstractWindow, Abs(y))[k] = AbstractWindow[k]
        /\ Append(AbstractWindow, Abs(y))[n + 1] = Abs(y)
    BY <2>1, <2>2, AppendProperties
  <2>4. \A k \in 1..(n + 1) : AbstractWindow'[k] = Append(AbstractWindow, Abs(y))[k]
    BY <2>2, <2>3
  <2> QED  BY <2>2, <2>3, <2>4, SeqEqual
<1>7. Precise!Update(AMT, Append(AbstractWindow, Abs(y)))
  <2>1. AMT' = AMT
    BY DEF RenameInst
  <2> QED  BY <2>1, <1>6, UpdateTo
<1>8. CASE dest
  <2>1. FreeList[FL_head] \in FreeSet
    <3>1. FL_head \in FLSlot /\ FLDist(FL_head) = 0
      BY <1>1, Constants DEF TypeOK, FLSlot, FLDist, Distance
    <3>2. FreeRegs > 0
      BY <1>1, <1>8, Occupancies, Constants DEF RenameInst, stall_reg
    <3> QED  BY <3>1, <3>2 DEF FreeSet, FreeSlots
  <2>2. Abs(y) = [dest_valid |-> TRUE, log_reg |-> r,
                  phys_reg |-> FreeList[FL_head], open |-> branch]
    <3>1. Unresolved(y) = branch /\ dest = TRUE
      BY <1>4, <1>8 DEF Unresolved
    <3> QED  BY <3>1, <1>4, <1>8 DEF Abs
  <2> QED  BY <2>1, <2>2, <1>7 DEF Precise!Rename, Precise!LogReg, LogReg
<1>9. CASE ~dest
  <2>1. Abs(y) = [dest_valid |-> FALSE, log_reg |-> 0, phys_reg |-> 0, open |-> branch]
    <3>1. Unresolved(y) = branch /\ dest = FALSE
      BY <1>4, <1>9 DEF Unresolved
    <3> QED  BY <3>1, <1>4, <1>9 DEF Abs
  <2> QED  BY <2>1, <1>7 DEF Precise!Rename
<1> QED  BY <1>8, <1>9

(* Closing an instruction of an abstract window. *)
LEMMA CloseProperties ==
  ASSUME NEW w \in Seq(AbsInst), NEW n \in 1..Len(w)
  PROVE  /\ Precise!Close(w, n) \in Seq(AbsInst)
         /\ Len(Precise!Close(w, n)) = Len(w)
         /\ Precise!Close(w, n)[n] = [w[n] EXCEPT !.open = FALSE]
         /\ \A k \in 1..Len(w) : k # n => Precise!Close(w, n)[k] = w[k]
<1>1. w[n] \in AbsInst
  BY ElementOfSeq
<1>2. [w[n] EXCEPT !.open = FALSE] \in AbsInst
  BY <1>1 DEF AbsInst
<1>3. PICK x \in AbsInst : x = [w[n] EXCEPT !.open = FALSE]
  BY <1>2
<1>4. Precise!Close(w, n) = [w EXCEPT ![n] = x]
  BY <1>3 DEF Precise!Close
<1>5. /\ [w EXCEPT ![n] = x] \in Seq(AbsInst)
      /\ Len([w EXCEPT ![n] = x]) = Len(w)
      /\ \A j \in 1..Len(w) : [w EXCEPT ![n] = x][j] = IF j = n THEN x ELSE w[j]
  BY ExceptSeq
<1> QED  BY <1>3, <1>4, <1>5

(* A resolved branch is closed in place. *)
LEMMA ResolveCorrectRefines ==
  ASSUME RInv, RInv', NEW i \in ALIndex, ResolveCorrect(i)
  PROVE  Precise!ResolveCorrect
<1>1. IInv /\ TypeOK /\ TypeOK' /\ AbstractState /\ AbstractState' /\ CheckpointsInOrder
  BY AbstractStateHolds, AbstractStateAfter DEF RInv, IInv
<1>2. PICK n \in Nat : n = Age(i) + 1
  BY <1>1, Ages, Constants
<1>3. /\ Size' = Size /\ n \in 1..Size /\ Window[n] = ActiveList[i] /\ Window'[n].completed
      /\ \A k \in 1..Size :
           /\ Window'[k].dest_valid = Window[k].dest_valid
           /\ Window'[k].log_reg = Window[k].log_reg
           /\ Window'[k].phys_reg = Window[k].phys_reg
           /\ Window'[k].branch_ID = Window[k].branch_ID
           /\ k # n => Window'[k].completed = Window[k].completed
  BY <1>1, <1>2, ResolvedWindow
<1>4. Unresolved(Window[n]) /\ AMT' = AMT
  BY <1>3 DEF ResolveCorrect, mapVars
<1>5. /\ AbstractWindow \in Seq(AbsInst) /\ Len(AbstractWindow) = Size
      /\ AbstractWindow' \in Seq(AbsInst) /\ Len(AbstractWindow') = Size
      /\ DOMAIN AbstractWindow = 1..Size
      /\ \A k \in 1..Size : /\ AbstractWindow[k] = Abs(Window[k])
                            /\ AbstractWindow'[k] = Abs(Window'[k])
  BY <1>1, <1>3 DEF AbstractState, AbstractSequence
<1>6. \A k \in 1..Size :
        Abs(Window'[k]) = IF k = n THEN [Abs(Window[k]) EXCEPT !.open = FALSE]
                                   ELSE Abs(Window[k])
  <2>1. ASSUME NEW k \in 1..Size, k # n
        PROVE  Unresolved(Window'[k]) = Unresolved(Window[k])
    BY <2>1, <1>3 DEF Unresolved
  <2>2. Unresolved(Window'[n]) = FALSE
    BY <1>3 DEF Unresolved
  <2> QED  BY <2>1, <2>2, <1>3 DEF Abs
<1>7. AbstractWindow' = Precise!Close(AbstractWindow, n)
  <2>1. /\ Precise!Close(AbstractWindow, n) \in Seq(AbsInst)
        /\ Len(Precise!Close(AbstractWindow, n)) = Size
        /\ Precise!Close(AbstractWindow, n)[n] = [AbstractWindow[n] EXCEPT !.open = FALSE]
        /\ \A k \in 1..Size : k # n =>
             Precise!Close(AbstractWindow, n)[k] = AbstractWindow[k]
    BY <1>3, <1>5, CloseProperties
  <2>2. AbstractWindow'[n] = [AbstractWindow[n] EXCEPT !.open = FALSE]
    BY <1>3, <1>5, <1>6
  <2>3. \A k \in 1..Size : k # n => AbstractWindow'[k] = AbstractWindow[k]
    BY <1>5, <1>6
  <2>4. \A k \in 1..Size : AbstractWindow'[k] = Precise!Close(AbstractWindow, n)[k]
    BY <2>1, <2>2, <2>3
  <2> QED  BY <2>1, <2>4, <1>5, SeqEqual
<1>8. Precise!Update(AMT, Precise!Close(AbstractWindow, n))
  BY <1>4, <1>7, UpdateTo
<1>9. n \in DOMAIN AbstractWindow /\ AbstractWindow[n].open
  BY <1>1, <1>3, <1>4, <1>5, WindowValues, AbsFields
<1> QED  BY <1>8, <1>9 DEF Precise!ResolveCorrect

(* A mispredicted branch is closed and everything behind it is cut off. *)
LEMMA MispredictRefines ==
  ASSUME RInv, RInv', NEW i \in ALIndex, ResolveMispredict(i)
  PROVE  Precise!ResolveMispredict
<1>1. IInv /\ TypeOK /\ TypeOK' /\ AbstractState /\ AbstractState'
  BY AbstractStateHolds, AbstractStateAfter DEF RInv, IInv
<1>2. PICK n \in Nat : n = Age(i) + 1
  BY <1>1, Ages, Constants
<1>3. /\ n \in 1..Size /\ Size' = n /\ Size \in Nat /\ Unresolved(Window[n])
      /\ \A k \in 1..n : /\ Window'[k].dest_valid = Window[k].dest_valid
                         /\ Window'[k].log_reg = Window[k].log_reg
                         /\ Window'[k].phys_reg = Window[k].phys_reg
                         /\ k < n => Window'[k] = Window[k]
      /\ Window'[n].completed
  BY <1>1, <1>2, RecoveredWindow, Occupancies
<1>4. AMT' = AMT
  BY DEF ResolveMispredict
<1>5. /\ AbstractWindow \in Seq(AbsInst) /\ Len(AbstractWindow) = Size
      /\ AbstractWindow' \in Seq(AbsInst) /\ Len(AbstractWindow') = n
      /\ DOMAIN AbstractWindow = 1..Size
      /\ \A k \in 1..Size : AbstractWindow[k] = Abs(Window[k])
      /\ \A k \in 1..n : AbstractWindow'[k] = Abs(Window'[k]) /\ k \in 1..Size
  BY <1>1, <1>3 DEF AbstractState, AbstractSequence
<1>6. \A k \in 1..n :
        Abs(Window'[k]) = IF k = n THEN [Abs(Window[k]) EXCEPT !.open = FALSE]
                                   ELSE Abs(Window[k])
  <2>1. Unresolved(Window'[n]) = FALSE
    BY <1>3 DEF Unresolved
  <2>2. \A k \in 1..n : k # n => Abs(Window'[k]) = Abs(Window[k])
    BY <1>3
  <2> QED  BY <2>1, <2>2, <1>3 DEF Abs
<1> DEFINE W == Precise!Close(AbstractWindow, n)
<1>7. /\ W \in Seq(AbsInst) /\ Len(W) = Size
      /\ W[n] = [AbstractWindow[n] EXCEPT !.open = FALSE]
      /\ \A k \in 1..Size : k # n => W[k] = AbstractWindow[k]
  BY <1>3, <1>5, CloseProperties
<1> HIDE DEF W
<1>8. AbstractWindow' = SubSeq(W, 1, n)
  <2>1. \A k \in 1..n : W[k] \in AbsInst
    BY <1>5, <1>7, ElementOfSeq
  <2>2. /\ SubSeq(W, 1, n) \in Seq(AbsInst) /\ Len(SubSeq(W, 1, n)) = n
        /\ \A k \in 1..n : SubSeq(W, 1, n)[k] = W[k]
    BY <2>1, <1>3, SubSeqProperties
  <2>3. AbstractWindow'[n] = W[n]
    <3>1. n \in 1..n
      BY <1>3
    <3> QED  BY <3>1, <1>5, <1>6, <1>7
  <2>4. \A k \in 1..n : k # n => AbstractWindow'[k] = W[k]
    <3>1. \A k \in 1..n : k # n => Abs(Window'[k]) = Abs(Window[k])
      BY <1>6
    <3> QED  BY <3>1, <1>5, <1>7
  <2>5. \A k \in 1..n : AbstractWindow'[k] = SubSeq(W, 1, n)[k]
    BY <2>2, <2>3, <2>4
  <2> QED  BY <2>2, <2>5, <1>5, SeqEqual
<1>9. Precise!Update(AMT, SubSeq(W, 1, n))
  BY <1>4, <1>8, UpdateTo
<1>10. n \in DOMAIN AbstractWindow /\ AbstractWindow[n].open
  BY <1>1, <1>3, <1>5, WindowValues, AbsFields
<1> QED  BY <1>9, <1>10 DEF Precise!ResolveMispredict, W

(* A commit takes the oldest instruction into the committed map. *)
LEMMA CommitRefines ==
  ASSUME RInv, RInv', RetireCommit
  PROVE  Precise!Commit
<1>1. /\ IInv /\ TypeOK /\ HeadCompleted /\ AbstractState /\ AbstractState'
  BY AbstractStateHolds, AbstractStateAfter DEF RInv, IInv, RetireCommit
<1>2. /\ 1 \in 1..Size /\ Window[1] = ActiveList[AL_head] /\ Size - 1 \in Nat
      /\ Window[1] \in Inst
  BY <1>1, HeadOfWindow
<1>3. PICK n \in Nat : n = Size - 1
  BY <1>2
<1>4. /\ Size' = n /\ Size = n + 1
      /\ \A k \in 1..n : k + 1 \in 1..Size /\ Window'[k] = Window[k + 1]
  <2>1. PICK d \in {0, 1} : d = HeadWrites
    BY DEF HeadWrites
  <2> QED  BY <2>1, <1>1, <1>3, CommitWindow, Occupancies
<1>5. /\ AbstractWindow \in Seq(AbsInst) /\ Len(AbstractWindow) = n + 1
      /\ AbstractWindow' \in Seq(AbsInst) /\ Len(AbstractWindow') = n
      /\ AbstractWindow # <<>> /\ AbstractWindow[1] = Abs(Window[1])
      /\ \A k \in 1..n : AbstractWindow'[k] = AbstractWindow[k + 1]
  <2>1. /\ AbstractWindow \in Seq(AbsInst) /\ Len(AbstractWindow) = n + 1
        /\ AbstractWindow' \in Seq(AbsInst) /\ Len(AbstractWindow') = n
        /\ AbstractWindow[1] = Abs(Window[1])
        /\ \A k \in 1..n : AbstractWindow'[k] = AbstractWindow[k + 1]
    BY <1>1, <1>2, <1>4 DEF AbstractState, AbstractSequence
  <2>2. AbstractWindow # <<>>
    BY <2>1, <1>3, EmptySeq
  <2> QED  BY <2>1, <2>2
<1>6. AbstractWindow' = Tail(AbstractWindow)
  <2>1. /\ Tail(AbstractWindow) \in Seq(AbsInst) /\ Len(Tail(AbstractWindow)) = n
        /\ \A k \in 1..n : Tail(AbstractWindow)[k] = AbstractWindow[k + 1]
    BY <1>3, <1>5, HeadTailProperties
  <2> QED  BY <2>1, <1>5, SeqEqual
<1>7. /\ Head(AbstractWindow) = Abs(Window[1]) /\ ~Head(AbstractWindow).open
      /\ AMT' = Precise!AfterHead
  <2>1. Head(AbstractWindow) = Abs(Window[1])
    BY <1>5
  <2>2. ~Unresolved(Window[1])
    BY <1>1, <1>2 DEF HeadCompleted, Unresolved
  <2>3. AMT' = IF Window[1].dest_valid
                 THEN [AMT EXCEPT ![Window[1].log_reg] = Window[1].phys_reg] ELSE AMT
    BY <1>2 DEF RetireCommit, commit, CommittedMap
  <2> QED  BY <2>1, <2>2, <2>3, <1>2, AbsFields DEF Precise!AfterHead
<1>8. Precise!Update(Precise!AfterHead, Tail(AbstractWindow))
  BY <1>6, <1>7, UpdateTo
<1> QED  BY <1>5, <1>7, <1>8 DEF Precise!Commit

(* A squash empties the abstract window. *)
LEMMA SquashEmpties ==
  ASSUME RInv, RInv', HeadCompleted, NEW amt, NEW fl, squash(amt, fl)
  PROVE  /\ AMT' = amt /\ AbstractWindow' = <<>> /\ AbstractWindow # <<>>
         /\ Head(AbstractWindow) = Abs(Window[1]) /\ Window[1] = ActiveList[AL_head]
         /\ Window[1] \in Inst
<1>1. TypeOK /\ AbstractState /\ AbstractState'
  BY AbstractStateHolds, AbstractStateAfter DEF RInv, IInv
<1>2. /\ AMT' = amt /\ DISPATCH' = <<>> /\ AL_head' = 0 /\ AL_tail' = 0
      /\ AL_head_phase' = FALSE /\ AL_tail_phase' = FALSE
  BY DEF squash
<1>3. Size' = 0
  <2>1. ALCount' = 0 - 0
    BY <1>2, Zenon DEF ALCount, Occupancy
  <2> QED  BY <2>1, <1>2 DEF Size
<1>4. AbstractWindow' = <<>>
  BY <1>1, <1>3, EmptySeq DEF AbstractState, AbstractSequence
<1>5. /\ 1 \in 1..Size /\ Window[1] = ActiveList[AL_head] /\ Window[1] \in Inst
  BY <1>1, HeadOfWindow
<1>6. AbstractWindow # <<>> /\ Head(AbstractWindow) = Abs(Window[1])
  BY <1>1, <1>5, EmptySeq DEF AbstractState, AbstractSequence
<1> QED  BY <1>2, <1>4, <1>5, <1>6

(* An exception or a load violation squashes everything. *)
LEMMA SquashRefines ==
  ASSUME RInv, RInv', RetireSquash
  PROVE  Precise!Squash
<1>1. AMT' = AMT /\ AbstractWindow' = <<>> /\ AbstractWindow # <<>>
  BY SquashEmpties DEF RetireSquash
<1> QED  BY <1>1, UpdateTo DEF Precise!Squash

(* A value or branch misprediction commits the head and squashes the rest. *)
LEMMA CommitSquashRefines ==
  ASSUME RInv, RInv', RetireCommitSquash
  PROVE  Precise!CommitSquash
<1>1. HeadCompleted /\ squash(CommittedMap(ActiveList[AL_head]),
                              FreedList(ActiveList[AL_head]))
  BY DEF RetireCommitSquash
<1>2. /\ AMT' = CommittedMap(ActiveList[AL_head])
      /\ AbstractWindow' = <<>> /\ AbstractWindow # <<>>
      /\ Head(AbstractWindow) = Abs(Window[1]) /\ Window[1] = ActiveList[AL_head]
      /\ Window[1] \in Inst
  BY <1>1, SquashEmpties
<1>3. ~Unresolved(Window[1])
  BY <1>1, <1>2 DEF HeadCompleted, Unresolved
<1>4. ~Head(AbstractWindow).open /\ AMT' = Precise!AfterHead
  <2>1. AMT' = IF Window[1].dest_valid
                 THEN [AMT EXCEPT ![Window[1].log_reg] = Window[1].phys_reg] ELSE AMT
    BY <1>2 DEF CommittedMap
  <2> QED  BY <2>1, <1>2, <1>3, AbsFields DEF Precise!AfterHead
<1> QED  BY <1>2, <1>4, UpdateTo DEF Precise!CommitSquash

-----------------------------------------------------------------------------
(* The initial states are abstract initial states. *)
LEMMA InitRefines ==
  ASSUME Init
  PROVE  Precise!Init
<1>1. RInv /\ TypeOK /\ AbstractState
  BY InitRecovery, AbstractStateHolds DEF RInv, IInv
<1>2. Size = 0
  <2>1. ALCount = 0 - 0
    BY Zenon DEF Init, ALCount, Occupancy
  <2> QED  BY <2>1 DEF Size, Init
<1>3. AbstractWindow = <<>>
  BY <1>1, <1>2, EmptySeq DEF AbstractState, AbstractSequence
<1>4. /\ AMT \in [LogReg -> PhysReg] /\ RMT = AMT
      /\ \A r, q \in LogReg : AMT[r] = AMT[q] => r = q
  BY <1>1 DEF TypeOK, Init
<1> QED
  BY <1>1, <1>3, <1>4
  DEF AbstractState, Precise!Init, Precise!LogReg, Precise!PhysReg, LogReg, PhysReg

(* Every step is an abstract step or a stutter. *)
LEMMA NextRefines ==
  ASSUME RInv, RInv', [Next]_vars
  PROVE  [Precise!Next]_(Precise!vars)
<1>0. IInv
  BY DEF RInv
<1>1. ASSUME NEW dest \in BOOLEAN, NEW branch \in BOOLEAN, NEW r \in LogReg,
             RenameInst(dest, r, branch)
      PROVE  Precise!Next
  BY <1>1, RenameRefines DEF Precise!Next
<1>2. ASSUME NEW predicted \in BOOLEAN, NEW skipIQ \in BOOLEAN,
             NEW flags \in SUBSET (Flag \cap {"exception"}),
             DispatchInst(predicted, skipIQ, flags)
      PROVE  UNCHANGED Precise!vars
  BY <1>0, <1>2, DispatchStill, StillStutters
<1>3. ASSUME NEW i \in ALIndex, SetReady(i)
      PROVE  UNCHANGED Precise!vars
  BY <1>0, <1>3, SetReadyStill, StillStutters
<1>4. ASSUME NEW i \in ALIndex, NEW f \in Flag, SetFlag(i, f)
      PROVE  UNCHANGED Precise!vars
  BY <1>0, <1>4, SetFlagStill, StillStutters
<1>5. ASSUME NEW i \in ALIndex, NEW late \in BOOLEAN, SetComplete(i, late)
      PROVE  UNCHANGED Precise!vars
  BY <1>0, <1>5, SetCompleteStill, StillStutters
<1>6. ASSUME NEW i \in ALIndex, ResolveCorrect(i)
      PROVE  Precise!Next
  BY <1>6, ResolveCorrectRefines DEF Precise!Next
<1>7. ASSUME NEW i \in ALIndex, ResolveMispredict(i)
      PROVE  Precise!Next
  BY <1>7, MispredictRefines DEF Precise!Next
<1>8. RetireCommit => Precise!Next
  BY CommitRefines DEF Precise!Next
<1>9. RetireSquash => Precise!Next
  BY SquashRefines DEF Precise!Next
<1>10. RetireCommitSquash => Precise!Next
  BY CommitSquashRefines DEF Precise!Next
<1>11. UNCHANGED vars => UNCHANGED Precise!vars
  <2> SUFFICES ASSUME UNCHANGED vars PROVE UNCHANGED Precise!vars
    OBVIOUS
  <2>1. /\ UNCHANGED <<RMT, AMT, PRF_ready, GBM, Checkpoints, DISPATCH, ActiveList>>
        /\ UNCHANGED <<AMT, flVars, AL_head, AL_tail, AL_head_phase, AL_tail_phase>>
    BY DEF vars, mapVars, alVars
  <2>2. TypeOK /\ TypeOK'
    BY DEF RInv, IInv
  <2>3. Size' = Size /\ \A k \in 1..Size : Window'[k] = Window[k]
    BY <2>1, <2>2, SameRings
  <2>4. StillInsts
    BY <2>1, <2>3 DEF StillInsts
  <2> QED  BY <2>4, StillStutters
<1> QED
  BY <1>1, <1>2, <1>3, <1>4, <1>5, <1>6, <1>7, <1>8, <1>9, <1>10, <1>11 DEF Next

(* ImplementsPrecise: circular buffers, phase bits, shadow maps, branch    *)
(* masks and the rebuilding of the free list together are precise renaming:*)
(* after every recovery and every retirement the maps and the free         *)
(* registers are those of the committed map and the window.                *)
THEOREM RenamerImplementsPrecise == Spec => ImplementsPrecise
<1>1. Init => Precise!Init
  BY InitRefines
<1>2. RInv /\ RInv' /\ [Next]_vars => [Precise!Next]_(Precise!vars)
  BY NextRefines
<1> QED
  BY <1>1, <1>2, RecoveryInvariant, PTL DEF Spec, ImplementsPrecise, Precise!Spec

=============================================================================
