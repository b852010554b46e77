------------------------------ MODULE Backend ------------------------------
(***************************************************************************)
(* The out-of-order engine around the issue queue: one cycle of            *)
(* pipeline_t::step_micro after another, each a pass through the stages    *)
(* Retire, Writeback, load replay, Execute, Register Read, Schedule and    *)
(* Dispatch, lane by lane (retire.cc, writeback.cc, execute.cc,            *)
(* register_read.cc, schedule.cc, dispatch.cc, squash.cc, lane.cc).        *)
(*                                                                         *)
(* The renamer is the one RenameSpec promises (Renamer implements it):     *)
(* Rename and Dispatch are one step that reads the map after the window    *)
(* and takes any unused register.  Register values are reduced to whether  *)
(* the register has been written since it was allocated.  The LSU is       *)
(* reduced to whether a load hits or stalls until a replay.  Instructions  *)
(* executed at the head (amo, csr) stop fetch and are left out.            *)
(***************************************************************************)
EXTENDS IssueQueue, FiniteSets

CONSTANTS
  n_log_regs, n_phys_regs, n_branches, n_active,
  issue_width,  \* lanes
  RETIRE_WIDTH, \* instructions that may retire in a cycle
  ex_depth,     \* execute stages of each lane
  fu_lane,      \* the candidate lanes of each kind of instruction
  PRESTEER,     \* the lane is chosen at dispatch
  VP            \* destinations may have a predicted value

Kind   == DOMAIN fu_lane
Lane   == 0..(issue_width - 1)
LogReg == 0..(n_log_regs - 1)
PhysReg == 0..(n_phys_regs - 1)
Branch == 0..(n_branches - 1)
ALIndex == 0..(n_active - 1)

ASSUME BackendAssumption ==
  /\ n_active \in Nat \ {0} /\ issue_width \in Nat \ {0}
  /\ RETIRE_WIDTH \in Nat \ {0}
  /\ n_log_regs \in Nat \ {0} /\ n_phys_regs \in Nat /\ n_branches \in Nat
  /\ n_phys_regs > n_log_regs
  /\ ex_depth \in [Lane -> Nat \ {0}]
  /\ Kind \subseteq {"alu", "load", "store", "branch", "nop"}
  /\ fu_lane \in [Kind -> SUBSET Lane]
  /\ NoInum \notin ALIndex

VARIABLES
  stage, lane,      \* what the cycle runs next
  committed,        \* the committed map
  window,           \* dispatched and not retired, oldest first
  AL_head,          \* the active list index of the oldest
  PRF_ready,        \* registers whose ready bit is set
  PRF_written,      \* registers that hold the value their reader expects
  IQ,
  Execution_Lanes,
  stalled           \* loads that wait in the LSU for a replay

cycleVars == <<stage, lane>>
prfVars   == <<PRF_ready, PRF_written>>
vars == <<stage, lane, committed, window, AL_head, PRF_ready, PRF_written,
          IQ, Execution_Lanes, stalled>>

NoBranch == n_branches
LaneReg  == [valid : BOOLEAN, index : ALIndex, branch_mask : SUBSET Branch]
NoPlace  == [valid |-> FALSE, index |-> 0, branch_mask |-> {}]
EmptyLane(l) == [rr |-> NoPlace, ex |-> [d \in 0..(ex_depth[l] - 1) |-> NoPlace],
                 wb |-> NoPlace]

(* The renamer over this window. *)
Names == INSTANCE RenameSpec WITH map <- committed, free <- {}
Map   == Names!Lookup(committed, window)
Free  == Names!Unused(committed, window)

Pos(i)   == Distance(i, AL_head, n_active) + 1
At(k)    == Ahead(k - 1, AL_head, n_active)
InstOf(place) == window[Pos(place.index)]
Open(x)  == x.branch_ID # NoBranch /\ ~x.completed
OpenBefore(k) ==
  {window[j].branch_ID : j \in {i \in DOMAIN window : i < k /\ Open(window[i])}}
GBM      == OpenBefore(Len(window) + 1)

(* What the producer broadcasts when its latency ends: its destination,   *)
(* unless a predicted value has made it ready at dispatch.                 *)
Broadcast(x) == IF x.dest_valid /\ ~x.predicted THEN {x.phys_reg} ELSE {}
Dest(x)      == IF x.dest_valid THEN {x.phys_reg} ELSE {}

-----------------------------------------------------------------------------
Init ==
  /\ stage = "dispatch" /\ lane = 0
  /\ committed = [r \in LogReg |-> r]
  /\ window = <<>> /\ AL_head = 0
  /\ PRF_ready = PhysReg /\ PRF_written = PhysReg
  /\ IQ = EmptyQueue
  /\ Execution_Lanes = [l \in Lane |-> EmptyLane(l)]
  /\ stalled = {}

(* The order of the stages in step_micro. *)
After(s) ==
  CASE s = "retire"        -> "writeback"
    [] s = "writeback"     -> "load_replay"
    [] s = "load_replay"   -> "execute"
    [] s = "execute"       -> "register_read"
    [] s = "register_read" -> "schedule"
    [] s = "schedule"      -> "dispatch"
    [] s = "dispatch"      -> "retire"

NextStage == stage' = After(stage) /\ lane' = 0
NextLane  == IF lane = issue_width - 1 THEN NextStage
             ELSE lane' = lane + 1 /\ UNCHANGED stage

-----------------------------------------------------------------------------
(* Retire. *)

squash_complete(map) ==
  /\ committed' = map
  /\ window' = <<>> /\ AL_head' = 0
  /\ PRF_ready' = PhysReg
  /\ PRF_written' = PhysReg
  /\ IQ' = Flushed(IQ)
  /\ Execution_Lanes' = [l \in Lane |-> EmptyLane(l)]
  /\ stalled' = {}

(* The head commits, is squashed with everything younger (exception, load  *)
(* violation), or commits and squashes what is younger (a mispredicted     *)
(* value).  An HTIF tick that is due ends the loop early.                  *)
NextRetire ==
  \/ NextStage
  \/ lane < RETIRE_WIDTH - 1 /\ lane' = lane + 1 /\ UNCHANGED stage

Retire ==
  /\ stage = "retire"
  /\ NextRetire
  /\ IF window # <<>> /\ Head(window).completed
       THEN LET x   == Head(window)
                map == IF x.dest_valid
                         THEN [committed EXCEPT ![x.log_reg] = x.phys_reg]
                         ELSE committed
            IN \/ /\ committed' = map
                  /\ window' = Tail(window)
                  /\ AL_head' = Next1(AL_head, n_active)
                  /\ UNCHANGED <<prfVars, IQ, Execution_Lanes, stalled>>
               \/ squash_complete(committed)
               \/ x.predicted /\ squash_complete(map)
       ELSE UNCHANGED <<committed, window, AL_head, prfVars, IQ,
                        Execution_Lanes, stalled>>

-----------------------------------------------------------------------------
(* Writeback, and the resolution of branches. *)

ClearedPlace(b, place) == [place EXCEPT !.branch_mask = @ \ {b}]
KilledPlace(b, place)  ==
  IF place.valid /\ b \in place.branch_mask THEN NoPlace ELSE place

EachPlace(L, Op(_)) ==
  [l \in Lane |-> [rr |-> Op(L[l].rr),
                   ex |-> [d \in DOMAIN L[l].ex |-> Op(L[l].ex[d])],
                   wb |-> Op(L[l].wb)]]

Written(L, l) == [L EXCEPT ![l].wb = NoPlace]

(* The second broadcast of a store's inum; the mutant has none. *)
LateWakeupNone(iq, x, i) == iq
LateWakeup(iq, x, i) == IF x.kind = "store" THEN InumWoken(iq, i) ELSE iq

Completed(k) == [window EXCEPT ![k].completed = TRUE]

WritebackDone ==
  LET place == Execution_Lanes[lane].wb
      x     == InstOf(place)
  IN
  /\ place.valid /\ ~Open(x)
  /\ window' = Completed(Pos(place.index))
  /\ IQ' = LateWakeup(IQ, x, place.index)
  /\ Execution_Lanes' = Written(Execution_Lanes, lane)
  /\ UNCHANGED stalled

WritebackCorrect ==
  LET place == Execution_Lanes[lane].wb
      b     == InstOf(place).branch_ID
      Clear(p) == ClearedPlace(b, p)
  IN
  /\ place.valid /\ Open(InstOf(place))
  /\ window' = Completed(Pos(place.index))
  /\ IQ' = clear_branch_bit(IQ, b)
  /\ Execution_Lanes' = Written(EachPlace(Execution_Lanes, Clear), lane)
  /\ UNCHANGED stalled

(* A mutant: entries of the issue queue survive the branch. *)
SurvivorsStay(iq, b) == iq
Survivors(iq, b) == Squashed(iq, b)

WritebackMispredict ==
  LET place == Execution_Lanes[lane].wb
      k     == Pos(place.index)
      b     == InstOf(place).branch_ID
      Kill(p) == KilledPlace(b, p)
  IN
  /\ place.valid /\ Open(InstOf(place))
  /\ window' = SubSeq(Completed(k), 1, k)
  /\ IQ' = Survivors(IQ, b)
  /\ Execution_Lanes' = Written(EachPlace(Execution_Lanes, Kill), lane)
  /\ stalled' = {i \in stalled : Pos(i) < k}

Writeback ==
  /\ stage = "writeback"
  /\ NextLane
  /\ \/ /\ ~Execution_Lanes[lane].wb.valid
        /\ UNCHANGED <<window, IQ, Execution_Lanes, stalled>>
     \/ WritebackDone
     \/ WritebackCorrect
     \/ WritebackMispredict
  /\ UNCHANGED <<committed, AL_head, prfVars>>

-----------------------------------------------------------------------------
(* load_replay(): at most one stalled load is served. *)
ServeLoad(i) ==
  LET x == window[Pos(i)] IN
  /\ window' = Completed(Pos(i))
  /\ stalled' = stalled \ {i}
  /\ IQ' = Woken(IQ, Broadcast(x))
  /\ PRF_ready' = PRF_ready \cup Broadcast(x)
  /\ PRF_written' = PRF_written \cup Dest(x)

load_replay ==
  /\ stage = "load_replay"
  /\ NextStage
  /\ \/ \E i \in stalled : ServeLoad(i)
     \/ UNCHANGED <<window, stalled, IQ, prfVars>>
  /\ UNCHANGED <<committed, AL_head, Execution_Lanes>>

(***************************************************************************)
(* Execute: the instruction in the last sub-stage writes its register and  *)
(* moves on, unless it is a load that stalls; the one in the second-to-    *)
(* last sub-stage broadcasts.                                              *)
(***************************************************************************)
Executed(x, hit) == IF x.kind = "load" /\ ~hit THEN {} ELSE Dest(x)

Execute(hit) ==
  LET L    == Execution_Lanes[lane]
      d    == ex_depth[lane] - 1
      last == L.ex[d]
      x    == InstOf(last)
      goes == last.valid /\ (x.kind = "load" => hit)
      early == d > 0 /\ L.ex[d - 1].valid /\ InstOf(L.ex[d - 1]).kind # "load"
      woken == (IF last.valid /\ x.kind = "load" /\ hit THEN Broadcast(x) ELSE {})
               \cup (IF early THEN Broadcast(InstOf(L.ex[d - 1])) ELSE {})
  IN
  /\ stage = "execute"
  /\ ~hit => last.valid /\ x.kind = "load"
  /\ NextLane
  /\ stalled' = IF last.valid /\ ~hit THEN stalled \cup {last.index} ELSE stalled
  /\ IQ' = Woken(IQ, woken)
  /\ PRF_ready' = PRF_ready \cup woken
  /\ PRF_written' = IF last.valid THEN PRF_written \cup Executed(x, hit)
                                  ELSE PRF_written
  /\ Execution_Lanes' = [Execution_Lanes EXCEPT
       ![lane] = [L EXCEPT
         !.wb = IF goes THEN last ELSE L.wb,
         !.ex = [s \in 0..d |-> IF s = 0 THEN NoPlace ELSE L.ex[s - 1]]]]
  /\ UNCHANGED <<committed, window, AL_head>>

(* Register Read: a single-cycle producer broadcasts, a store broadcasts   *)
(* its inum, and the operands are read.                                    *)
SetsReadyNot(x) == {}   \* a mutant: the broadcast leaves the ready bit
SetsReady(x) == Broadcast(x)
EarlyAnyLane(l) == TRUE   \* a mutant: multi-cycle producers broadcast here
Early(l) == ex_depth[l] = 1

register_read ==
  LET place == Execution_Lanes[lane].rr
      x     == InstOf(place)
      early == place.valid /\ Early(lane) /\ x.kind # "load"
      woken == IF early THEN Broadcast(x) ELSE {}
      iq    == Woken(IQ, woken)
  IN
  /\ stage = "register_read"
  /\ NextLane
  /\ IQ' = IF place.valid /\ x.kind = "store" THEN InumWoken(iq, place.index)
                                              ELSE iq
  /\ PRF_ready' = IF early THEN PRF_ready \cup SetsReady(x) ELSE PRF_ready
  /\ Execution_Lanes' = IF place.valid
       THEN [Execution_Lanes EXCEPT ![lane].ex[0] = place, ![lane].rr = NoPlace]
       ELSE Execution_Lanes
  /\ UNCHANGED <<committed, window, AL_head, PRF_written, stalled>>

-----------------------------------------------------------------------------
(* Schedule: select_and_issue issues entries until none can issue. *)
FreeLanes == {l \in Lane : ~Execution_Lanes[l].rr.valid}

Issue ==
  /\ stage = "schedule"
  /\ CanIssue(IQ, FreeLanes)
  /\ LET i == Selected(IQ, FreeLanes)
         e == IQ.q[i]
         C == e.lane_id \cap FreeLanes
         l == CHOOSE c \in C : \A m \in C : c <= m
     IN  /\ IQ' = Removed(IQ, i)
         /\ Execution_Lanes' = [Execution_Lanes EXCEPT ![l].rr =
              [valid |-> TRUE, index |-> e.index, branch_mask |-> e.branch_mask]]
  /\ UNCHANGED <<cycleVars, committed, window, AL_head, prfVars, stalled>>

EndSchedule ==
  /\ stage = "schedule"
  /\ ~CanIssue(IQ, FreeLanes)
  /\ NextStage
  /\ IQ' = NextPartition(IQ)
  /\ UNCHANGED <<committed, window, AL_head, prfVars, Execution_Lanes, stalled>>

-----------------------------------------------------------------------------
(* Dispatch of one instruction.  Its operands' ready bits are read before  *)
(* its own destination is cleared, or written when it has a predicted      *)
(* value.  The store that a load or store waits for is any the memory      *)
(* dependence predictor may name: one that has not written back.           *)
Stores == {At(k) : k \in {j \in DOMAIN window :
                            window[j].kind = "store" /\ ~window[j].completed}}
FirstFree == CHOOSE b \in Branch \ GBM : \A c \in Branch \ GBM : b <= c

Room == Len(window) < n_active

Dispatch(kind, srcs, dest, r, p, predicted, inum, lanes) ==
  LET branch == kind = "branch"
      tags == {Map[s] : s \in srcs}
      x == [kind |-> kind, tags |-> tags, dest_valid |-> dest,
            log_reg |-> IF dest THEN r ELSE 0, phys_reg |-> IF dest THEN p ELSE 0,
            predicted |-> predicted, branch_ID |-> IF branch THEN FirstFree
                                                             ELSE NoBranch,
            completed |-> kind = "nop"]
      e == [Blank EXCEPT !.index = At(Len(window) + 1), !.branch_mask = GBM,
              !.lane_id = lanes, !.tags = tags, !.ready = tags \cap PRF_ready,
              !.inum = inum, !.inum_ready = (inum = NoInum)]
  IN
  /\ stage = "dispatch"
  /\ Room /\ (kind = "nop" \/ ~stall(IQ, 1))
  /\ branch => GBM # Branch
  /\ dest => kind \in {"alu", "load", "branch"} /\ p \in Free
  /\ ~dest => r = 0 /\ p = 0
  /\ kind = "nop" => srcs = {}
  /\ predicted => VP /\ dest /\ kind # "branch"
  /\ inum # NoInum => kind \in {"load", "store"} /\ inum \in Stores
  /\ lanes \in IF PRESTEER THEN {{l} : l \in fu_lane[kind]} ELSE {fu_lane[kind]}
  /\ window' = Append(window, x)
  /\ PRF_ready' = IF ~dest THEN PRF_ready
                  ELSE IF predicted THEN PRF_ready \cup {p} ELSE PRF_ready \ {p}
  /\ PRF_written' = IF ~dest THEN PRF_written
                    ELSE IF predicted THEN PRF_written \cup {p}
                                      ELSE PRF_written \ {p}
  /\ IQ' = IF kind = "nop" THEN IQ ELSE Dispatched(IQ, e)
  /\ UNCHANGED <<cycleVars, committed, AL_head, Execution_Lanes, stalled>>

EndDispatch ==
  /\ stage = "dispatch"
  /\ NextStage
  /\ UNCHANGED <<committed, window, AL_head, prfVars, IQ, Execution_Lanes,
                 stalled>>

(* One cycle of step_micro; dispatch depends on what fetch delivers. *)
Cycle ==
  \/ Retire
  \/ Writeback
  \/ load_replay
  \/ \E hit \in BOOLEAN : Execute(hit)
  \/ register_read
  \/ Issue
  \/ EndSchedule
  \/ EndDispatch

Next ==
  \/ Cycle
  \/ \E kind \in Kind, srcs \in SUBSET LogReg, dest, predicted \in BOOLEAN,
        r \in LogReg, p \in PhysReg, inum \in ALIndex \cup {NoInum},
        lanes \in SUBSET Lane :
       Dispatch(kind, srcs, dest, r, p, predicted, inum, lanes)

Spec == Init /\ [][Next]_vars

-----------------------------------------------------------------------------
(* Properties.                                                             *)

Waiting == {i \in Slot : IQ.q[i].valid}

(***************************************************************************)
(* No wakeup is lost and none is premature: between two stages the ready   *)
(* operands of every waiting instruction are exactly those whose ready bit *)
(* is set, whether it was dispatched before or after the broadcast         *)
(* (dispatch.cc:172, register_read.cc:51, execute.cc:98, 235, 297).        *)
(***************************************************************************)
NoLostWakeup ==
  \A i \in Waiting : IQ.q[i].ready = IQ.q[i].tags \cap PRF_ready

(***************************************************************************)
(* An instruction that reads its operands finds every one of them written: *)
(* the broadcast precedes the write by the time it takes to select and to  *)
(* move to Register Read, and Execute runs before Register Read in a cycle *)
(* (the bypass argument of execute.cc, FIX_ME 14).                         *)
(***************************************************************************)
OperandsWritten ==
  stage = "register_read" /\ Execution_Lanes[lane].rr.valid =>
    InstOf(Execution_Lanes[lane].rr).tags \subseteq PRF_written

(***************************************************************************)
(* The free list and the valid entries partition the queue, which is       *)
(* assert((length + fl_length) == size), issue_queue.cc:36, and the linked *)
(* list visits the valid entries in program order in both directions, in   *)
(* whatever order they were issued and squashed.                           *)
(***************************************************************************)
FreeSlots == {IQ.fl[Ahead(d, IQ.fl_head, size)] : d \in 0..(IQ.fl_length - 1)}
Older(i, j) == Pos(IQ.q[i].index) < Pos(IQ.q[j].index)

(* j is the next entry behind i, or the next one before it, in program     *)
(* order.                                                                  *)
Follows(i, j) ==
  IF j = NoSlot THEN \A m \in Waiting : ~Older(i, m)
  ELSE /\ j \in Waiting /\ Older(i, j)
       /\ \A m \in Waiting : ~(Older(i, m) /\ Older(m, j))
Precedes(i, j) ==
  IF j = NoSlot THEN \A m \in Waiting : ~Older(m, i)
  ELSE /\ j \in Waiting /\ Older(j, i)
       /\ \A m \in Waiting : ~(Older(j, m) /\ Older(m, i))

QueueConsistent ==
  /\ IQ.length = Cardinality(Waiting)
  /\ IQ.length + IQ.fl_length = size
  /\ FreeSlots = Slot \ Waiting
  /\ IF Waiting = {} THEN IQ.oldest = NoSlot /\ IQ.youngest = NoSlot
     ELSE /\ IQ.oldest \in Waiting /\ \A m \in Waiting : ~Older(m, IQ.oldest)
          /\ IQ.youngest \in Waiting /\ \A m \in Waiting : ~Older(IQ.youngest, m)
  /\ \A i \in Waiting : Follows(i, IQ.q[i].next) /\ Precedes(i, IQ.q[i].prev)

(***************************************************************************)
(* Every instruction that has not completed is in exactly one place - the  *)
(* queue, one register of one lane, or the LSU's stalled loads - and no    *)
(* place holds one that retired or was squashed; each copy of a branch     *)
(* mask names exactly the unresolved branches before its instruction       *)
(* (squash.cc resolve, issue_queue.cc squash).                             *)
(***************************************************************************)
Places ==
  {<<"rr", l, 0>> : l \in Lane} \cup {<<"wb", l, 0>> : l \in Lane} \cup
  UNION {{<<"ex", l, d>> : d \in 0..(ex_depth[l] - 1)} : l \in Lane}
PlaceAt(p) ==
  CASE p[1] = "rr" -> Execution_Lanes[p[2]].rr
    [] p[1] = "wb" -> Execution_Lanes[p[2]].wb
    [] p[1] = "ex" -> Execution_Lanes[p[2]].ex[p[3]]
Busy == {p \in Places : PlaceAt(p).valid}

HeldBy(i) ==
  Cardinality({s \in Waiting : IQ.q[s].index = i})
    + Cardinality({p \in Busy : PlaceAt(p).index = i})
    + (IF i \in stalled THEN 1 ELSE 0)

ExactlyOnePlace ==
  /\ \A i \in ALIndex :
       HeldBy(i) = IF Pos(i) <= Len(window) /\ ~window[Pos(i)].completed
                     THEN 1 ELSE 0
  /\ \A s \in Waiting :
       IQ.q[s].branch_mask = OpenBefore(Pos(IQ.q[s].index))
  /\ \A p \in Busy :
       PlaceAt(p).branch_mask = OpenBefore(Pos(PlaceAt(p).index))

(***************************************************************************)
(* The stages run for ever, and a stalled load is served at last: its      *)
(* memory answers, and the older stores it waits for execute.              *)
(***************************************************************************)
Fairness ==
  /\ WF_vars(Cycle)
  /\ SF_vars(load_replay /\ stalled' # stalled)

FairSpec == Spec /\ Fairness

(* The oldest instruction always leaves, committed or squashed: whatever   *)
(* it waits for is older and has left (the DEADLOCK check of               *)
(* pipeline.cc:735).                                                       *)
HeadLeaves ==
  \A i \in ALIndex :
    window # <<>> /\ AL_head = i ~> window = <<>> \/ AL_head # i

=============================================================================
