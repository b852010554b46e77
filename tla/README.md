# Verification of the 721 simulator

`src/721sim/uarchsim` is a cycle-level simulator of an out-of-order RISC-V
processor: a fetch unit with branch prediction and recovery, decode, register
renaming with checkpoints, a unified issue queue, execution lanes, a load/store
unit with speculative disambiguation, in-order retirement checked against a
functional simulation, a stride value predictor, and caches. Each class is
sequential code, but the pipeline calls them in an order that instructions,
latencies and mispredictions decide, so that the system behaves like a set of
concurrent agents over shared structures. This directory models them in TLA+,
checks the models with TLC, and proves with TLAPS, for every machine size, what
the renamer, the value predictor, the issue queue with the execution lanes, the
load-store unit, the fetch unit and the branch target buffer promise.

All source paths below are under `src/721sim/uarchsim/`.

## 1. The system

### Components and their state

| component | files | state | operations | modules |
|---|---|---|---|---|
| fetch unit | `fetchunit.cc` | pc, idle flag, `fetch2_status`, `FETCH2`, pending instruction cache miss | fetch1, fetch2, mispredict, commit, flush | `FetchUnit`, `BTB`, `InOrder`, `Caches` |
| branch queue, return address stack | `bq.cc`, `ras.cc` | rings of the branches in flight with their repair state | push, pop, roll back, flush | `BranchQueue`, `ReturnStack` |
| branch predictors | `gshare.cc`, `btb.cc`, `tc.cc`, `tage-sc-l*.cc` | histories, logs, tables | predict, update speculatively, log, repair, train | `History`, `BTB` |
| payload buffer | `payload.cc` | ring of instruction records, two entries for each | push, pop, restore, roll back, clear, map_to_actual | `PayloadBuffer` |
| fetch queue, decode | `fetch_queue.cc`, `decode.cc` | ring of indices | push, pop; the decode table, the split of stores | `InOrder`, `Decode` |
| renamer | `renamer.cc` | RMT, AMT, free list and active list (rings with phase bits), ready bits, GBM, checkpoints | rename, checkpoint, dispatch, resolve, commit, squash | `Renamer`, `RenameSpec` |
| stride value predictor (SVP) | `SVP.cc` | table (tag, value, stride, confidence, instances in flight), value prediction queue (VPQ) | install, predict, record, train at retirement, roll back | `SVP`, `StrideSpec` |
| issue queue | `issue_queue.cc` | entries with operand ready bits and a branch mask, free list, age-ordered linked list, round-robin pointer | dispatch, wakeup, select, remove, squash | `IssueQueue` |
| execution lanes | `register_read.cc`, `execute.cc`, `writeback.cc`, `lane.cc` | one pipeline register per lane and stage | broadcast, read, execute, replay, complete, resolve | `Backend` |
| load-store unit (LSU) | `lsu.cc` | load queue, store queue (rings with phase bits), load reservation, memory | dispatch, execute, disambiguate, forward, violate, commit, restore, flush | `LSU` |
| caches | `CacheClass.cc`, `cache.h`, `ic.cc` | tags, miss handling status registers (MHSRs), ports | access, at two levels | `Cache`, `Caches` |
| retirement | `retire.cc`, `squash.cc` | none of its own | commit or squash the head | `InOrder` and each module with state at stake |
| checker | `checker.cc`, `debug.cc` | ring of the functional simulation's results | run ahead, link, compare and pop at retirement | `PayloadBuffer`, `InOrder` |
| memory dependence predictor | `mdp/` (a prebuilt library) | store sets | names a store a load should wait for | free choice in `Backend` |
| top level | `pipeline.cc`, `sim.cc`, `main.cc` | the cycle loop, configuration | `step_micro` | `Backend` |

### How they interact

`pipeline_t::step_micro` (`pipeline.cc:636`) runs the stages backwards once a
cycle: Retire, Writeback and Execute for every lane (with the load replay
between them), Register Read, Schedule, Dispatch, Rename, Decode, Fetch. All
calls are synchronous, and these kinds of coupling make them hard:

* **Tags.** A producer's destination register is broadcast to the issue queue
  and recorded in the renamer's ready bits by different stages, at a time that
  depends on its latency (`register_read.cc:51`, `execute.cc:98`, `:235`,
  `:297`), while Dispatch reads the ready bits (`dispatch.cc:172`). A store's
  active list index is broadcast for the loads that wait for it.
* **Branch masks.** Every checkpointed branch has a bit (`GBM`), copied into
  every younger instruction at rename and carried through queues and pipeline
  registers. Branches resolve out of order; each resolution frees the bit or
  squashes what carries it.
* **Kept pointers.** A branch keeps the free list head, the VPQ tail, the LQ/SQ
  tails and its branch queue entry; a misprediction restores them while older
  instructions have committed and moved the other ends.
* **Speculative histories.** The direction history and the return address stack
  run ahead of the branches, in the bundle that Fetch1 predicts, and are put back
  by Fetch2 (misfetch), by Writeback (misprediction) and by Retire (flush), each
  from a different copy.
* **Indices.** The stages hand on indices into PAY. PAY, the stages and the debug
  buffer of the functional simulation are cut, popped and cleared by different
  calls and must stay aligned.
* **Serialization.** Fetch2 stops for a csr or amo instruction or a fetch
  exception; only the retirement of that very instruction starts it again.
* **Shared misses.** Two first-level caches wait for registers of one second
  level; a line, the register that loads it and those who wait name one another.

### What is hard, and what makes it correct

* Recovery to a checkpoint after commits, after older branches have resolved,
  and after the checkpoint's number was reused: the restored map, free list and
  mask are exactly those of the machine after the branch.
* Recovery of the front end: queue, history and stack are those of the branches
  still in flight.
* Nobody is left waiting: no operand, store or stall whose producer is gone, no
  idle fetch that nothing restarts, no queue full of what waits for itself.
* Rings that are full and empty at the same indices, told apart by phase bits
  that are kept, restored or recomputed, or by nothing at all (PAY).
* Out-of-order loads and stores: no load commits a stale value.
* The value predictor's counters under eviction, rollback and squash.
* The issue queue's three structures under removal in any order.
* What Fetch2, Decode, Dispatch and Retire each read from an encoding agrees.

`PROJECT.json` lists these hazards at their lines, with the properties that
would catch each of them going wrong.

## 2. Modules

| module | role |
|---|---|
| `Ring` | circular buffers with phase bits: advance, occupancy, distance |
| `Renamer` | `renamer.cc` and the calls of rename, dispatch, the lanes, writeback and retire |
| `RenameSpec` | precise renaming: committed map, window, speculative map, free set |
| `RenamerInv` | the inductive invariant |
| `RingProofs` | lemmas on rings and on queues that follow a window |
| `RenamerProofs` | proofs: types, the register partition, recovery and wakeup; `Renamer` implements `RenameSpec` |
| `SVP` | `SVP.cc` and its calls |
| `StrideSpec` | stride prediction without queue, counters or checkpoints |
| `SVPProofs` | proofs: queue, counters and predictions; `SVP` implements `StrideSpec` |
| `IssueQueue` | the methods of `issue_queue.cc` as operators on a queue record |
| `Backend` | cycles of the stages around the issue queue, over `RenameSpec`'s renamer |
| `BackendProofs` | proofs: the queue's lists and the places of instructions; the four invariants |
| `LSU` | `lsu.cc` and its calls |
| `LSUProofs` | proofs: queues and load values |
| `BranchQueue`, `ReturnStack`, `History` | the methods of `bq.cc`, `ras.cc` and `gshare.cc` as operators on records |
| `FetchUnit` | `fetchunit.cc` over those three, with the back end's calls |
| `Folding` | facts about folds over sequences, for any operator |
| `FetchUnitProofs` | proofs: queue, histories, return address stack, training, serialization |
| `BTB` | `btb.cc` with the misfetch loop of Fetch2 |
| `BTBProofs` | proofs: hits, replacement, assertions of training, end of misfetches |
| `PayloadBuffer` | `payload.cc` and the ring of `debug.cc` as operators on records |
| `Decode` | the decode table and what the stages make of it |
| `InOrder` | `PayloadBuffer` and `Decode` under every stage from Fetch to Retire |
| `Cache` | `CacheClass.cc` and `cache.h`: one access as operators on a cache record |
| `Caches` | instruction and data cache over a second level, with Fetch1 and the load queue |
| `MCRenamer`, `MCSVP`, `MCBackend`, `MCLSU`, `MCFetchUnit`, `MCBTB`, `MCInOrder`, `MCCaches` | instances and views for TLC |

The modules are compositions in slices: a slice has every component that shares
state with its subject, and takes the others as the free choice that their own
module justifies. `Backend` rests on `RenameSpec`, which `Renamer` implements;
`InOrder` takes a fetch unit that may misfetch, mispredict and idle, which is what
`FetchUnit` and `BTB` do, and a back end whose results are right on the right
path, which is what `Renamer`, `Backend` and `LSU` show; `LSU` takes the arrival
of a line as a free choice, which `Caches` computes.

**Renamer.** The variables are the class's members, plus `DISPATCH`, the
pipeline register between rename and dispatch, whose instructions have registers
and checkpoints but no active list entry yet. `RenameInst` and `DispatchInst`
are one iteration of the loops of `rename2` and `dispatch` with the stall test
of that instruction. Execution is reduced to what the renamer sees: `SetReady`,
`SetFlag` (a load violation or a value misprediction may be posted at any time
between dispatch and retirement), `SetComplete`, and the two resolutions of a
branch, which include `pipeline_t::resolve` clearing or squashing by mask.
`RetireCommit`, `RetireSquash` and `RetireCommitSquash` are the three ways an
instruction leaves. `resolve`, `commit` and `squash` are translated with their
order of assignments; operators such as `RestoredPhase` or `Rebuilt` stand for
one loop or one expression each.

**SVP.** One action per stage that calls the predictor: rename of an eligible
instruction (checkpoint, install, confidence), rename of a branch, writeback or
replay, resolution (`partial_rollback`), and retirement (train or install, full
rollback after a misprediction). `window` is the program order that the payload
buffer and the active list carry. What an instruction computes is chosen by the
environment: an arithmetic sequence for a regular PC, anything for others.

**IssueQueue and Backend.** The three register operands of an entry are treated
alike by the code, so an entry holds a set of tags and the ready subset. Backend
runs the cycle stage by stage and lane by lane in the order of `step_micro`, so
that what is checked about wakeup timing depends on that order as it does in the
code. The renamer is taken as `RenameSpec` promises it, which `Renamer`
implements: the map is computed from the committed map and the window, and a
destination is any unused register. A register's value is reduced to whether it
has been written; the LSU to whether a load hits or stalls until a replay. `amo`
and `csr` instructions stop fetch and execute at the head of the active list, so
that nothing waits for them in the queue; they are left out. A checkpointed jump may
have a destination, the link register, and is never value-predicted. A dispatch bundle
is a sequence of single dispatches that all fit.

**LSU.** Queues, indices and phases are the class's; an entry's value is a
function from byte offset to byte, so that accesses of different sizes overlap as
they do in memory. Addresses are aligned (a misaligned access faults). A store
executes at once or as two micro-operations. `load_unstall` serves the oldest
load that can be served. Cache misses are the free choice whether a line has
arrived. The dependence prediction `mdp_stall` is a free choice at dispatch. The
window has what Retire needs: memory operations and branches in program order,
with their exception and violation flags. A reservation is also lost when the
simulator turns to another core (`sim.cc:161`).

**BranchQueue, ReturnStack, History, FetchUnit.** `window` stands for PAY: the
instructions in flight in program order, the youngest in `FETCH2`, then `DECODE`,
then the back end. Fetch1 assembles a bundle as `btb_t::lookup` or a trace cache
hit does, from free predictions; the text is a constant, but the BTB may know
nothing or something stale of an instruction. Fetch2 predecodes, refetches,
serializes, stalls or pushes its branches. A branch resolves in any order, rightly
or not. `base_bhr` and `base_stack` are history variables: what the predictors had
before the oldest instruction in flight; `taken` in an instruction is the direction
it was predicted with, which the code has in the bits given to `spec_update` only. The
predictors' tables are not state:
whatever they answer is allowed. IBP gets the same calls and has the same history
code as CBP, so that it is not repeated. `FetchUnitAssumption` leaves out taken
branches to the next instruction (their direction cannot be told from the pc),
bounds open calls by the stack's size (a wrapped stack forgets) and the window by the
branch queue's, which is the code's default: nothing stalls for the queue, and
`pipeline.cc:180` sizes it for all that can be in flight. With `--bq` it can be made
smaller, and then the assertion of `bq_t::push` can fail.

**BTB.** The banks, sets and ways with the arithmetic of `convert` and `search`,
and whole tags. `lookup` and the training loop of Fetch2 are folds over the positions
of a bundle. `Store` is a committed store to the text. `trained`, `recency`
and `misfetches` are history variables: `misfetches` counts in a row and in the present
text, so that a store under a bundle that waits in Fetch2, which was read before, takes
that bundle out of the count (-1). The bound would be false otherwise: the bundle is
trained with an instruction that memory no longer holds.

**PayloadBuffer, Decode, InOrder.** The stages are sequences of PAY indices, a
bundle moves as the code moves it, and the reorder buffer stands for everything
from Dispatch to Retire. `Decode` translates the table per kind of instruction;
`InOrder` evaluates it for the instructions of its program and acts on flags,
queue selection, traps and splits as the stages do. The functional simulator is
`Executed`, from `processor_t::step`: a store may fault, a branch goes either way,
a csr instruction throws `serialize_t` the first time. Faults of loads and amo and the
next pc of SRET are left out: they leave `retire` the same way for another cause.
`RunAhead` chooses the run as the debug buffer is filled. On a wrong path a branch
resolves anyhow.

**Cache, Caches.** An access is an operator from a cache, the next level and a
cycle to a cache, a next level and the cycle in which it ends, in the order of
`CacheClass::Access`; cycles are numbers modulo `Cycles`, the largest of which is
the `-1` of a refused access, as an unsigned cycle is in the code. `turn` lets one
access of the data cache precede the fetch of a cycle; the code can make several,
from two load/store lanes and from `load_unstall`. Data is not in the code's
caches either. Line sizes of the levels are equal.

**External code.** The store-set predictor is a prebuilt library. Backend takes
as its prediction any older store that has not written back, which is what its
interface (`invalidateLFST` at Register Read, `squash` at recovery) allows: an
inum may be stale between a store's Register Read and its Writeback, and the late
wakeup in `writeback.cc:201` exists for that reason. A library that named a
store already retired would be outside the model.

## 3. What is checked

| run | question | properties |
|---|---|---|
| `renamer_recovery` | nested and reused checkpoints, commits between checkpoint and recovery, squashes | `TypeOK`, `RegisterPartition`, `CheckpointsRestore`, `BranchMaskExact`, `NoOrphanWait` |
| `renamer_refines` | does the renamer implement precise renaming, and do rename stalls end? | `ImplementsPrecise`, `RenameStallEnds` |
| `svp_predictor` | two PCs that evict each other, one of them regular; is the predictor extrapolation over the window, and does a stall for the VPQ end? | `InstanceExact`, `VPQMirrorsWindow`, `ConfidentStrideIsRight`, `ImplementsStride`, `VPQStallEnds` |
| `svp_late_value` | the assertion of `SVP.cc:159` with a csr or amo instruction | `RecordedValueIsTrue` (violated) |
| `backend_lanes` | lanes of different latency, hits, replays, predicted values, branches that resolve in either order | `QueueConsistent`, `ExactlyOnePlace`, `NoLostWakeup`, `OperandsWritten` |
| `backend_live` | memory dependences, round-robin selection | `HeadLeaves` |
| `lsu_values` | overlapping accesses of two sizes | `LoadValueExact` |
| `lsu_live` | LR/SC, lost reservations, faults, queues that fill, wrap and are cut; does a stall for an entry end? | `QueuesMirrorWindow`, `QueueStallEnds` |
| `fetch_history` | calls, returns, conditional branches, an amo, a fault, misfetches, nested mispredictions, flushes: is what is predicted with and trained with that of the path being fetched? | `BranchQueueMirrors`, `HistoryExact`, `TrainsWhatPredicted`, `StackExact`, `IdleBehindSerializer`, `DirectNeverMispredicted` |
| `in_order` | every kind of instruction from Fetch to Retire: are PAY, stages, functional run and decode table in step, and do instructions keep retiring? | `StagesAgreeOnDecode`, `PAYNeverFull`, `StagesMirrorPAY`, `GoodIffOnPath`, `CheckerPasses`, `Progress` |
| `btb_trained` | branches that share sets, text that changes | `HitIsLastTrained`, `ReplacesOldest`, `TrainingAsserts`, `MisfetchesConverge` |
| `caches_shared` | two caches over a second level with a register for every miss of both | `LineNamesItsMHSR`, `MissesEnd`, `NeverEarly`, `BundleArrived` |

### What was found

`svp_late_value` is recorded as a finding: csr and amo instructions are eligible
for value prediction, and the VPQ is written at Writeback, before they have their
value (`writeback.cc:192`); `retire_VPQ` is called with the right value, asserts
that it is the recorded one, and trains with the recorded one. It happens with the
default configuration whenever prediction of the ALU class meets such an
instruction. No architectural value is wrong, because every prediction is compared
with the computed value.

Remarks of the same kind, seen while modelling, each outside the assumptions under
which the runs pass:

* With value predictor tags too short to tell two PCs of one index apart, which
  the command line allows, `install_SVP` (`SVP.cc:120`, whole PCs) and
  `retire_VPQ` (index and tag) count different instances and the counter reaches
  -1, against the assertion of `SVP.cc:168`.
* `CacheClass.cc:321` argues that the next level cannot run out of MHSRs if it has
  as many as this one. Two caches share the second level: with `TightL2` of
  `MCCaches` (as many as the larger, as in the defaults of `parameters.cc:103-124`)
  `MissesEnd` fails. The second level answers -1, which as a cycle is past all
  others, so that the register above it is never freed. `caches_shared` therefore
  has a register for every register above, and says nothing of the shipped sizes.
* When the instruction cache has no register, `ic.cc:67` takes -1 for the cycle of
  arrival and Fetch1 waits until a flush discards the miss (`fetchunit.cc:727`);
  `mispredict` does not discard it. `caches_shared` has a register for each of the
  two lines of a bundle.
* `flush` restores histories and stack only when the branch queue is not empty
  (`fetchunit.cc:707`), though the bundle in Fetch2 may have updated them; speed
  only. `FetchUnit` goes on from what is left (`Rebase`), so that `HistoryExact` and
  `StackExact` are exact up to what such a flush leaves.
* TAGE's `mispredict` (`tage-sc-l-wrapper.cc:158`) ignores `iscond`, unlike
  gshare's: a mispredicted indirect jump is entered as a conditional branch.
* A store-conditional with an illegal width gets a trap from Decode and stops the
  simulator at `assert(0)` (`retire.cc:237`).
* An opcode unknown to the table keeps the flags and function unit of the entry's
  last instruction (`decode.cc:157`); it retires on no right path.

### Bounds

Every bound is a constant of a `.cfg`. They are chosen by what must be able to
happen:

* A free list of two slots is the smallest that can be partly allocated, full
  and empty, and wraps; two logical registers let a committed map differ from the
  speculative one in one of two places. Two checkpoints nest and are reused while
  the other is open. An active list of two is full, empty and half full at each
  offset; that its phases are right for every size is proved.
* Where a queue's limit matters the window (`MaxWindow` in `SVP` and `LSU`,
  `n_active` in `Backend`) exceeds it, so that the queue is what stops dispatch:
  `svp_predictor` has a VPQ of two under a window of three, `lsu_live` a store
  queue of one and a load queue of two under a window of three, `backend_lanes` an
  issue queue of two under an active list of three.
* `svp_predictor` takes values modulo 3: modulo 2 a stride is its own opposite,
  and a prediction for the wrong instance could still be right.
* `backend_lanes` has a one-cycle lane for every kind of instruction and a two-cycle
  lane for ALU operations only: the two places from which results are broadcast; a
  third stage would only delay both. Loads broadcast when they hit or are replayed. Three active
  list entries give a producer, a consumer and an instruction in between.
* `lsu_values` has two bytes, accesses of one and of two bytes and two byte
  values: full overlap, partial overlap in both directions and none. Three memory
  operations are what a wrong choice takes: the load, the store whose value is
  right and the one whose value is wrong. Atomic operations and faults are left
  to `lsu_live` here; that loads have the right values with them too, when a
  store-conditional fails behind the back of a load say, is the theorem
  `LoadValuesExact`.
* `fetch_history` has bundles of three with two conditional branches, so that a
  bundle's context serves two of them and is cut by either; a branch queue of four
  that wraps; a history of two bits, in which each direction and its order counts;
  and a stack of two under call depth two, so that a wrong-path push overwrites
  what a return needs. `MaxWindow` is the branch queue's size, so that the
  queue gets full.
* `in_order` has the smallest machine: every stage one instruction wide, a fetch
  queue of two, which one split store fills, a reorder buffer of two. PAY is sized
  by the formula of `payload.cc:95` for exactly that machine, and the debug buffer
  wraps. A bundle of one is never partial: that `rename1` takes a partial bundle
  while fetch idles (`rename.cc:38`) is not reached. The loop of eight instructions has every kind that some stage treats
  differently, and wrong paths that serialize, trap and branch.
* `fq_size` must be at least `2 * fetch_width + dispatch_width - 1`: Decode waits
  for two places for each instruction of its bundle while Rename waits for a full
  bundle. The code does not check it; with less, `Progress` fails.
* `btb_trained` has two banks of one set of two ways and three branches that
  compete for each, some with tags that differ in one bit only.
* `caches_shared` has a data cache of one line, so that every other access evicts
  one that may still be loading, an instruction cache of two sets, for the two
  lines of a bundle, and a second level of two ways for four lines.

Safety and liveness runs use a view (`Live`, `FromThisCycle`) where absolute
indices or stale fields would multiply the states: it names slots by their
distance from the head or the top, cycles by their distance from the present one,
and forgets what the program never reads again. Actions and properties treat slots
uniformly, so that states with equal views have the same futures; and every step
that is not a stutter changes the view, so that this holds of liveness too.

### Fairness

* `Renamer`: dispatch, each instruction's execution and writeback, and Retire are
  weakly fair, because the cycle loop calls them in every cycle and lanes are
  free-flowing. Rename is not: fetch may stop.
* `SVP`: the oldest instruction completes and retires.
* `Backend`: a stage runs whenever it can (`WF` of `Cycle`): the loop never stops.
  Dispatch of a new instruction is not fair. A stalled load is served infinitely
  often when it is replayed infinitely often (`SF`): the line arrives and the
  older stores it waits for execute, which is what `LSU` shows.
* `LSU`: the oldest memory operation executes, its line arrives, Retire runs.
* `InOrder`: every stage runs in every cycle, and each instruction in the reorder
  buffer completes (`Backend`, `LSU`). Fetch of a bundle that is not misfetched is
  strongly fair, because a misfetched one trains the BTB and is not misfetched for
  ever: `MisfetchesConverge` bounds it by the bundle's length.
* The fetch unit's, the BTB's and the caches' runs check safety only. Their
  "in the end" is stated as a bound (`MisfetchesConverge`, `MissesEnd`) or is
  `Progress` in the composition.

## 4. What is proved

TLAPS proves the following of the specifications that TLC checks, for every value
of the constants that the modules' assumptions allow.

| theorem | module | states |
|---|---|---|
| `TypeCorrect`, `PartitionCorrect` | `RenamerProofs` | `TypeOK`, `RegisterPartition` |
| `RecoveryRestores`, `SelectiveSquashExact`, `NobodyWaitsInVain` | `RenamerProofs` | `CheckpointsRestore`, `BranchMaskExact`, `NoOrphanWait` |
| `RenamerImplementsPrecise` | `RenamerProofs` | `ImplementsPrecise` |
| `QueueMirrors`, `InstancesExact` | `SVPProofs` | `VPQMirrorsWindow`, `InstanceExact` |
| `ConfidentRight`, `SVPImplementsStride`, `RecordedValue` | `SVPProofs` | `ConfidentStrideIsRight`, `ImplementsStride`, the assertion of `SVP.cc:159` |
| `QueueListsConsistent`, `OnePlaceEach` | `BackendProofs` | `QueueConsistent`, `ExactlyOnePlace` |
| `NoWakeupLost`, `OperandsAreWritten` | `BackendProofs` | `NoLostWakeup`, `OperandsWritten` |
| `LSUMirrors`, `LoadValuesExact` | `LSUProofs` | `QueuesMirrorWindow`, `LoadValueExact` |
| `QueueMirrors`, `HistoryIsExact`, `TrainsPredicted` | `FetchUnitProofs` | `BranchQueueMirrors`, `HistoryExact`, `TrainsWhatPredicted` |
| `StackIsExact` | `FetchUnitProofs` | `StackExact` |
| `IdlesBehindSerializer`, `DirectIsRight` | `FetchUnitProofs` | `IdleBehindSerializer`, `DirectNeverMispredicted` |
| `HitsAreLastTrained`, `OldestIsReplaced` | `BTBProofs` | `HitIsLastTrained`, `ReplacesOldest` |
| `AssertionsHold`, `MisfetchesEnd` | `BTBProofs` | `TrainingAsserts`, `MisfetchesConverge` |

### Renamer

For every number of logical and physical registers, of checkpoints (at most 64,
the width of the mask), of active list entries, and every dispatch width:
`RenamerAssumption` and nothing else, which TLC evaluates in every run of
`MCRenamer`.

`RegisterPartition` is not inductive. A misprediction moves the free list head
back to where the checkpoint left it, so one must know that the slots it moves
over hold exactly the destinations of the squashed instructions; and commits
since the checkpoint have moved the tail and overwritten slots. The invariant
`IInv` (`RenamerInv`) therefore talks about the whole array, free or not:

* `MapsDisjoint`: the array always holds, without repetition, exactly the
  registers that AMT does not map. Rename does not touch it, commit exchanges
  `AMT[log_reg]` with the slot at the tail, squash rebuilds it.
* `SlotsInOrder`: the slots from tail to head hold the destinations in flight in
  program order.
* `CheckpointsInOrder`: a checkpoint's head separates the slots of instructions up
  to its branch from those behind it, and older branches keep smaller heads and are
  in younger ones' masks.
* `DispatchPending`: nothing completes before it is dispatched.

Recovery also depends on what masks, maps and ready bits say, which `RInv` adds:

* `BranchesInOrder`: GBM, the mask of an instruction that has not completed and the
  mask in a checkpoint are each the set of unresolved branches before that point. A
  bit is given again only when it is in none of them, which is why clearing it at
  every resolution (`squash.cc:83`, `renamer.cc:247`) is needed.
* `MapsInOrder`: RMT is AMT overwritten by the window's destinations in order, and
  a shadow map is AMT overwritten by those up to its branch. A commit moves a write
  from the window to AMT and leaves all of these maps as they are.
* `CommittedReady`: a register AMT maps has its value.

`CheckpointsRestore`, `BranchMaskExact` and `NoOrphanWait` follow. The refinement
maps the ring between tail and head to the set of free registers and DISPATCH with
the active list to one window; `RInv` gives each step's counterpart. A recovery is the
abstract cut of the window since the free set is what is in no map; a squash is its
emptying since the rebuilt list is what AMT leaves.

### Value predictor

For every table, queue size, confidence bound, value width and window. `QueueInv`
adds to `VPQMirrorsWindow` the phases and that each slot in use has an owner; with
it the rollback loops, which go over slots, are counts over the window: a shift of
the window by its head, a cut at a branch and an appended instruction each change a
count by what they add or remove.

Three theorems have hypotheses that the code's configuration gives and does not
check:

* `NoAliases`: no two PCs have the same index and tag. With the default widths
  (10 and 20 bits, `parameters.cc`) it holds of every program below 4 GB. Without it
  `InstanceExact` is false, as Section 3 says.
* `confmax > 1` for `ConfidentRight` and `confmax > 0` for `SVPImplementsStride`: with
  a bound of 1 the first value after a new entry is already trusted, with 0 a new
  entry itself. The default is above both.

`ConfidentRight` needs that the stride of a confident entry is the PC's (confidence
above one means two equal differences) and that the entry's value is the last
retired one; the prediction adds the stride once for each instance in flight, modulo
the width of values. `RecordedValue` shows that the finding is all there is: of the
assertion's instances only those of csr and amo instructions can fail.

### Issue queue and lanes

For every number of lanes and lane depth, every latency, every size of the queue,
the active list and the register file, and every number of branch bits.

`StructInv` is what holds of the structures between any two lanes of a cycle:

* `QueueInv`: the free list is a ring of exactly the invalid entries, and the linked
  list visits the valid ones in the order of their ages. The list's shape is stated
  through the number of older entries (`Ages`), so that removing any entry, as issue
  and squash do in their different orders, is a step of arithmetic and not an
  induction along the pointers.
* `PlaceInv`: an instruction that has not completed is in one place, with the mask of
  the branches open before it, and one that has is in none. It also says which places
  the stages of the running cycle have already emptied (`Drained`) or still keep
  (`Kept`); without it a lane's Register Read could overwrite an instruction.

Two more parts lead to the wakeup properties:

* `WakeInv`: an entry's ready operands are those whose ready bit is set (`Woke`), and
  an operand is what a logical register maps to before its instruction (`Sources`), so
  that neither Dispatch nor a recovery gives the register to somebody else while it is
  waited for.
* `ValueInv`: a ready register has been written, or its producer is in the last
  execute stage of its lane (`Finishing`); and what an instruction read at Register Read
  and does not find written is written by one of the lanes that have yet to execute
  before the next Register Read (`Remaining`). That set is empty when Register Read
  runs, because of the order of the stages in `step_micro`.

### Load-store unit

For every size of the two queues, of memory, and every set of access sizes.
`LSUAssumption` only; accesses are aligned because a misaligned one faults.

`QueueInv` says of each queue that the loads (stores) of the window have its slots
in order from the head, that every instruction's kept tail (`LQ_index`, `SQ_phase`
and so on) is the position after the elders', and that the valid slots are those. It
is stated once for any queue that follows a window (`Queued`, `RingProofs`), where
the lemmas for entering, leaving, cutting and clearing are. It makes the walks of
`disambiguate` and `ld_violation` over slots and phases walks over the window.

`LoadValueExact` compares a load with all older stores once they are done, which is
not inductive: loads run before older stores know their address. `ServedInv` is:

* `Served`: a load that has a value has the value of the youngest older store that
  is *known* to conflict, or, if none is, memory's, unless it or something older is
  marked for a squash. A store that learns its address keeps it because the walk over
  younger loads marks the first that has a value and conflicts, and any other such
  load is behind that one (`ViolationFound`).
  A store that commits keeps it because what it writes is what its loads have, and
  what it does not write is all the others have. When the store commits, the loads
  it served come to be served from memory.
* `AmoLast`: an amo or LR/SC is the youngest in flight. A store-conditional that
  fails writes nothing, so that nobody may have been served by it.

When all older stores are done, what is known to conflict is what conflicts.
`LoadValueExact`'s recursive history of a byte is followed by minimal counterexample
over the natural numbers, since an induction theorem cannot be instantiated.

### Fetch unit

For every program and trap handler, with and without trace cache, every bundle
width and number of conditional branches in it, every size of the branch queue, of
the history and of the stack: `FetchUnitAssumption`, and for the stack `Walks`, see
below. `Inv` is:

* `StageInv`, `InstInv`, `IdleInv`: the stages cut the window, and what a fetched
  instruction says of itself is what some answer of the BTB and the predictors allows,
  so that Fetch2 can tell a wrong one; fetch idles only behind what resumes it.
* `QueueInv`: the branch queue holds the branches past Fetch2 in program order, each
  at the distance from the head that the number of older branches gives, and the log of
  the stack has the same tail. Rollback to a branch in the middle, with older ones unresolved, is
  then a cut of the window.
* `HistoryInv`: there is a sequence of histories, one after each instruction in
  flight, such that the log has the one before each branch, the context saved for
  the bundle in Fetch2 the one before the bundle, and the predictor's register the
  last. `HistoryExact` alone is not inductive: a misfetch restores the context, a
  misprediction the log, and either must be known to lie on this sequence.

`StackIsExact` adds `StackInv`: there is a sequence of stacks, one after each
instruction in flight, and of their tops, such that

* the log has, for every branch past Fetch2, the top and the address at the top that
  the branch found, and the context saved for the bundle in Fetch2 has those before it;
* the ring has the addresses of the stack before that bundle and of the last one.

A push overwrites a slot. `UndoneLies` shows that the walk of the log backwards to a
branch gives every slot what it had before that branch: either no later branch has
written it, or the last one undone that did has logged what was there. No more calls
are open than the ring has slots (`FetchUnitAssumption`), so that an address is only
overwritten after its return. `Walks` says that the stack is repaired by a walk, the
default, and has at least two slots. `ras.cc:9` also allows one, and then `StackExact`
is false: a mispredicted call is redone by moving the top only (`ras.cc:114`), over an
address which is still in the slot above, unless that is the slot the walk restored.

Three recursions over data are in the two: history and stack are folds over the
window, and Fetch2 pushes its branches in a loop. `Folding` proves, with the operator as a
constant of the module, that a fold is the last of a unique sequence of
steps; an instance of it for each operator takes the place of an induction theorem,
which no prover here can instantiate. Its theorems have the hypothesis that every set
of natural numbers has a least one, and the modules that use them prove it.

### Branch target buffer

For every number of banks, sets and ways, every text and every set of instructions
that memory may hold at a place. `BTBInv` is:

* `TableOK`: in every set the ranks are a permutation, no tag is twice among the valid
  ways, and the history of the set has the tags of the valid ways by rank. `TouchSet`,
  `UpdateSet` and `InvalidateSet` say what each operation does to one set, and
  `TouchTable`, `UpdateTable` and `InvalidateTable` to the whole buffer: a table
  *learns* something about one instruction, forgets at most others of the same set, and
  says of the other banks what it said before.
* `TrainedOK`: what the buffer says of an instruction is nothing or what it was last
  trained as. It rests on `CoordinatesDiffer`: bank, set and tag determine the pc.
* `BundleOK`: the slots of the bundle in Fetch2 have what the buffer says, because
  nothing trains between lookup and predecode. Positions of a bundle are in different
  banks (`BanksDiffer`, from `RemaindersDiffer`), so that this is still so when it is
  their turn in the training loop, which is what the assertions need.
* `Converging`: after *n* misfetches of a pc the first *n* positions from it on are right.
  A bundle is misfetched for a position that is wrong, hence behind those *n*, and
  training makes all positions up to it right, so that *n* cannot pass the length of a
  bundle. Nothing trains or evicts in between but the bundle itself.

### How far the proofs go

Each action has a lemma for each conjunct it can disturb, and the theorems combine
them. Only model-checked are:

* The properties of `InOrder` and `Caches`, with `MissesEnd`, the bound that stands for
  the end of a miss.
* All liveness: fairness and `ENABLED` are beyond the proof system's reach.

The proofs also take nothing of the composition: that the environment of a slice is
what the neighbouring module does is argued in Section 2.

## 5. What is not modelled, and the plan

Not modelled:

* The tables of the direction predictors and TAGE-SC-L (third-party): they decide
  speed, any answer is allowed. ALU operations: pure functions generated from the
  vendored instruction definitions; `execute_amo` and `execute_csr` call them.
* Configuration, statistics, logging. Oracle modes (perfect value, branch and
  dependence prediction), which read the functional simulator.
* Floating-point traps, the architectural effect of traps, and interrupts:
  `pipeline.cc:754` gives an interrupt the speculative fetch pc and squashes
  nothing, and a comment there calls the synchronization unfinished; only a program
  that enables interrupts gets there.
* Third cache level (the same code once more), writeback counters.
* The commented-out `checkpoint.cc`, the vendored functional simulator, build
  output committed to the repository. These and TAGE-SC-L are most of the
  repository's lines: the map covers the larger part of what the simulator's own
  classes do, and about a seventh of all implementation lines; it will not come to
  a third without modelling vendored code.
* Bundles wider than a resource, which would stall for ever, need a configuration
  that nothing checks; rename and dispatch are modelled per instruction, except in
  `InOrder`.

The order of the work, most important behaviour first:

1. done: renamer, its abstract specification, its invariant and the proof of the
   partition; the value predictor; issue queue and lanes; load-store unit.
2. done: the front end (branch queue, return address stack, history, fetch unit,
   BTB), payload buffer, decode, the in-order stages with the functional checker,
   caches.
3. done: the proofs of the renamer, the value predictor, the issue queue and lanes,
   the load-store unit, the fetch unit and the branch target buffer.
4. proofs still to do: `PAYNeverFull` for every machine size, from a bound of each
   stage; `LineNamesItsMHSR` for every cache.
5. a composition of `LSU` and `Backend` in which a load's hit is the LSU's answer.
