----------------------------- MODULE IssueQueue -----------------------------
(***************************************************************************)
(* The unified issue queue (uarchsim/issue_queue.cc).  The queue is a      *)
(* record of the class's members, and each method is an operator from a    *)
(* queue to a queue; Backend calls them from the pipeline's stages.        *)
(*                                                                         *)
(* An entry waits for registers and, for a load or store, for the store    *)
(* the memory dependence predictor named (inum).  The three register       *)
(* operands A, B and D are treated alike and are woken together when they  *)
(* name the same register, so an entry has a set of tags and the subset    *)
(* that is ready.  Arrival times are statistics and are left out.          *)
(***************************************************************************)
EXTENDS Ring, Sequences

CONSTANTS
  size,            \* entries
  part_size,       \* entries of a partition
  IDEAL_AGE_BASED, \* select in age order, or round-robin over partitions
  NoInum           \* the inum of an entry that waits for no store

ASSUME IssueQueueAssumption ==
  /\ size \in Nat \ {0} /\ part_size \in Nat \ {0}
  /\ size % part_size = 0
  /\ IDEAL_AGE_BASED \in BOOLEAN

Slot   == 0..(size - 1)
NoSlot == -1

(* A free entry. *)
Blank == [valid |-> FALSE, index |-> 0, branch_mask |-> {}, lane_id |-> {},
          tags |-> {}, ready |-> {}, inum |-> NoInum, inum_ready |-> TRUE,
          prev |-> NoSlot, next |-> NoSlot]

(* flush() clears the valid bits and rebuilds the free list. *)
Flushed(iq) ==
  [iq EXCEPT !.q = [i \in Slot |-> [iq.q[i] EXCEPT !.valid = FALSE]],
             !.length = 0, !.fl = [s \in Slot |-> s],
             !.fl_head = 0, !.fl_tail = 0, !.fl_length = size,
             !.oldest = NoSlot, !.youngest = NoSlot]

EmptyQueue ==
  [q |-> [i \in Slot |-> Blank], length |-> 0, fl |-> [s \in Slot |-> s],
   fl_head |-> 0, fl_tail |-> 0, fl_length |-> size,
   oldest |-> NoSlot, youngest |-> NoSlot, part_next |-> 0]

stall(iq, bundle_inst) == iq.fl_length < bundle_inst

(* dispatch(): pop a free entry and link it behind the youngest. *)
Dispatched(iq, e) ==
  LET free  == iq.fl[iq.fl_head]
      new   == [e EXCEPT !.valid = TRUE, !.prev = iq.youngest, !.next = NoSlot]
      first == iq.oldest = NoSlot
  IN  [iq EXCEPT
         !.q = [i \in Slot |->
                  IF i = free THEN new
                  ELSE IF ~first /\ i = iq.youngest
                         THEN [iq.q[i] EXCEPT !.next = free] ELSE iq.q[i]],
         !.length = @ + 1,
         !.fl_head = Next1(@, size), !.fl_length = @ - 1,
         !.oldest = IF first THEN free ELSE @, !.youngest = free]

(* wakeup(tag, true) for each tag, and wakeup(inum, false). *)
Woken(iq, woken) ==
  [iq EXCEPT !.q = [i \in Slot |->
     IF iq.q[i].valid
       THEN [iq.q[i] EXCEPT !.ready = @ \cup (woken \cap iq.q[i].tags)]
       ELSE iq.q[i]]]

InumWoken(iq, inum) ==
  [iq EXCEPT !.q = [i \in Slot |->
     IF iq.q[i].valid /\ iq.q[i].inum = inum
       THEN [iq.q[i] EXCEPT !.inum_ready = TRUE] ELSE iq.q[i]]]

(* remove(): invalidate, push the entry on the free list, unlink it.  The  *)
(* mutant leaves the pointer of the older neighbour.                       *)
UnlinkedHalf(q, i) ==
  [j \in Slot |->
     IF j = i THEN [q[j] EXCEPT !.valid = FALSE]
     ELSE IF j = q[i].next THEN [q[j] EXCEPT !.prev = q[i].prev]
     ELSE q[j]]
Unlinked(q, i) ==
  [j \in Slot |->
     IF j = i THEN [q[j] EXCEPT !.valid = FALSE]
     ELSE IF j = q[i].next THEN [q[j] EXCEPT !.prev = q[i].prev]
     ELSE IF j = q[i].prev THEN [q[j] EXCEPT !.next = q[i].next]
     ELSE q[j]]

Removed(iq, i) ==
  [iq EXCEPT
     !.q = Unlinked(@, i), !.length = @ - 1,
     !.fl = [@ EXCEPT ![iq.fl_tail] = i],
     !.fl_tail = Next1(@, size), !.fl_length = @ + 1,
     !.oldest   = IF @ = i THEN iq.q[i].next ELSE @,
     !.youngest = IF @ = i THEN iq.q[i].prev ELSE @]

clear_branch_bit(iq, b) ==
  [iq EXCEPT !.q = [i \in Slot |-> [iq.q[i] EXCEPT !.branch_mask = @ \ {b}]]]

(* squash(): remove the entries that depend on the branch, by index. *)
Squashed(iq, b) ==
  LET scan[n \in 0..size] ==   \* after the first n entries
        IF n = 0 THEN iq
        ELSE LET seen == scan[n - 1]
                 e    == seen.q[n - 1]
             IN  IF e.valid /\ b \in e.branch_mask THEN Removed(seen, n - 1) ELSE seen
  IN  [scan[size] EXCEPT !.q = [i \in Slot |-> @[i]]]

-----------------------------------------------------------------------------
(* select_and_issue(): one iteration of its loop that issues.  Lanes only  *)
(* fill during the loop, so the next entry it issues is always the first   *)
(* in scan order that is ready and finds a candidate lane free.            *)
IsReady(e) == e.valid /\ e.ready = e.tags /\ e.inum_ready

(* The k-th oldest entry, along the next pointers. *)
InAge(iq) ==
  LET walk[k \in 0..size] ==
        IF k = 0 THEN iq.oldest
        ELSE IF walk[k - 1] = NoSlot THEN NoSlot ELSE iq.q[walk[k - 1]].next
  IN  walk

(* The k-th entry the loop examines. *)
Scanned(iq, k) == IF IDEAL_AGE_BASED THEN InAge(iq)[k]
                                     ELSE (iq.part_next + k) % size

Issuable(iq, k, freeLanes) ==
  /\ Scanned(iq, k) # NoSlot
  /\ IsReady(iq.q[Scanned(iq, k)])
  /\ iq.q[Scanned(iq, k)].lane_id \cap freeLanes # {}

CanIssue(iq, freeLanes) == \E k \in Slot : Issuable(iq, k, freeLanes)

Selected(iq, freeLanes) ==
  Scanned(iq, CHOOSE k \in Slot :
    /\ Issuable(iq, k, freeLanes)
    /\ \A l \in Slot : Issuable(iq, l, freeLanes) => k <= l)

(* The end of the call moves the priority to the next partition, unless an *)
(* empty age list made it return at once.                                  *)
NextPartition(iq) ==
  IF IDEAL_AGE_BASED /\ iq.oldest = NoSlot THEN iq
  ELSE [iq EXCEPT !.part_next =
          IF @ + part_size = size THEN 0 ELSE @ + part_size]

=============================================================================
