--------------------------- MODULE PayloadBuffer ---------------------------
(***************************************************************************)
(* The payload buffer PAY (uarchsim/payload.cc), which holds what is known *)
(* of every instruction in flight, and the debug buffer (uarchsim/debug.cc *)
(* and debug.h), a window on the functional simulator's execution with     *)
(* which the pipeline's is compared.  Both are rings of power-of-two size  *)
(* without phase bits; they are records of the classes' members.           *)
(***************************************************************************)
EXTENDS Integers

CONSTANTS
  total_inflight_instr,  \* the instructions that FETCH2 through ROB hold
  DEBUG_SIZE             \* window_size, debug.cc:22

PowerOfTwo == {2 ^ k : k \in 0..16}

ASSUME PayloadBufferAssumption ==
  total_inflight_instr \in 1..4096 /\ DEBUG_SIZE \in PowerOfTwo

(* Two entries for each instruction, which may be split, rounded up.       *)
PAYLOAD_BUFFER_SIZE ==
  LET two  == 2 * total_inflight_instr
      temp == IF two \in PowerOfTwo THEN two ELSE 2 * two
  IN  CHOOSE s \in PowerOfTwo : s <= temp /\ temp < 2 * s

PAYIndex == 0..(PAYLOAD_BUFFER_SIZE - 1)
NoIndex  == -1   \* DEBUG_INDEX_INVALID

EmptyPAY(entry) ==
  [head |-> 0, tail |-> 0, length |-> 0, buf |-> [i \in PAYIndex |-> entry]]

PAYPush(p, entry) ==
  [p EXCEPT !.buf[p.tail] = entry, !.length = @ + 2,
            !.tail = (@ + 2) % PAYLOAD_BUFFER_SIZE]

(* pop() removes one half; retire pops twice what was not split.           *)
PAYPop(p, n) ==
  [p EXCEPT !.head = (@ + n) % PAYLOAD_BUFFER_SIZE, !.length = @ - n]

PAYClear(p) == [p EXCEPT !.head = 0, !.tail = 0, !.length = 0]

restore(p, index) ==
  [p EXCEPT !.tail = index,
            !.length = (PAYLOAD_BUFFER_SIZE + index - p.head) % PAYLOAD_BUFFER_SIZE]

RestoreTail(p, index) ==   \* a mutant: the length still counts what is squashed
  [p EXCEPT !.tail = (index + 2) % PAYLOAD_BUFFER_SIZE]
PAYRollback(p, index) == restore(p, (index + 2) % PAYLOAD_BUFFER_SIZE)

-----------------------------------------------------------------------------
(* The debug buffer.  db[i] is an executed instruction; the functional     *)
(* simulator starts as far ahead as the buffer allows.                     *)

is_active(d, e) ==
  /\ d.length > 0
  /\ IF d.head <= d.tail THEN e >= d.head /\ e <= d.tail
                         ELSE e >= d.head \/ e <= d.tail

hungry(d) == d.length < DEBUG_SIZE

start(d, executed) ==
  LET tail == (d.tail + 1) % DEBUG_SIZE
  IN  [d EXCEPT !.tail = tail, !.length = @ + 1, !.db[tail] = executed]

DBPop(d) == [d EXCEPT !.length = @ - 1, !.head = (@ + 1) % DEBUG_SIZE]

NextWhateverPC(d, i, pc) ==   \* a mutant: the pc is not compared
  LET e == (i + 1) % DEBUG_SIZE IN IF is_active(d, e) THEN e ELSE NoIndex
check_next(d, i, pc) ==
  LET e == (i + 1) % DEBUG_SIZE
  IN  IF is_active(d, e) /\ pc = d.db[e].pc THEN e ELSE NoIndex

(* payload::map_to_actual, as the debug buffer index of the instruction to *)
(* be pushed at the tail; it is good if it has one.  first() asserts that  *)
(* the pc is that of the debug buffer's head.                              *)
map_to_actual(p, d, pc) ==
  LET index == p.tail
      prev  == p.buf[(index + PAYLOAD_BUFFER_SIZE - 2) % PAYLOAD_BUFFER_SIZE].db_index
  IN  IF index = p.head THEN d.head
      ELSE IF prev # NoIndex THEN check_next(d, prev, pc)
      ELSE NoIndex

=============================================================================
