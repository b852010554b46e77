---------------------------- MODULE BranchQueue ----------------------------
(***************************************************************************)
(* The branch queue (uarchsim/bq.cc): one entry per branch in flight.  The *)
(* queue is a record of the class's members and each method an operator    *)
(* from a queue to a queue.  A branch is named by its index and the phase  *)
(* the tail had when it was pushed.                                        *)
(***************************************************************************)
EXTENDS Ring

CONSTANT bq_size   \* max(1, the size asked for), bq.cc:12

ASSUME BranchQueueAssumption == bq_size \in Nat \ {0}

BQSlot == 0..(bq_size - 1)

EmptyBQ(entry) ==
  [bq |-> [i \in BQSlot |-> entry], head |-> 0, tail |-> 0,
   head_phase |-> FALSE, tail_phase |-> FALSE]

empty(q) == q.head = q.tail /\ q.head_phase = q.tail_phase
full(q)  == q.head = q.tail /\ q.head_phase # q.tail_phase

BQLength(q) == Occupancy(q.head, q.head_phase, q.tail, q.tail_phase, bq_size)

(* push(): the caller gets the tail as the branch's name and writes the    *)
(* entry there.                                                            *)
push(q, entry) ==
  [q EXCEPT !.bq[q.tail] = entry, !.tail = Next1(@, bq_size),
            !.tail_phase = NextPhase(q.tail, @, bq_size)]

pop(q) ==
  [q EXCEPT !.head = Next1(@, bq_size),
            !.head_phase = NextPhase(q.head, @, bq_size)]

RollbackTail(q, tag, phase) == [q EXCEPT !.tail = tag]   \* a mutant
rollback(q, tag, phase) == [q EXCEPT !.tail = tag, !.tail_phase = phase]

BQFlush(q) == [q EXCEPT !.tail = q.head, !.tail_phase = q.head_phase]

(* The checks of rollback(): the branch is between head and tail.          *)
InQueue(q, tag, phase) ==
  /\ ~empty(q)
  /\ IF q.head = q.tail THEN IF phase = q.head_phase THEN tag >= q.head
                                                     ELSE tag < q.head
     ELSE IF q.head < q.tail
          THEN /\ q.head_phase = q.tail_phase
               /\ tag >= q.head /\ tag < q.tail /\ phase = q.head_phase
     ELSE /\ q.head_phase # q.tail_phase
          /\ tag < q.tail \/ tag >= q.head
          /\ phase = IF tag < q.tail THEN q.tail_phase ELSE q.head_phase

=============================================================================
