-------------------------------- MODULE Ring --------------------------------
(***************************************************************************)
(* The circular buffers of the simulator.  The free list, the active list, *)
(* the load and store queues and the value prediction queue all keep a     *)
(* head, a tail and one phase bit for each; a pointer that reaches the     *)
(* size of its buffer goes back to 0 and flips its phase.  Equal pointers  *)
(* mean empty when the phases agree and full when they differ.             *)
(***************************************************************************)
EXTENDS Integers

Next1(i, size)         == IF i + 1 = size THEN 0 ELSE i + 1
NextPhase(i, ph, size) == IF i + 1 = size THEN ~ph ELSE ph

(* Entries between head and tail. *)
Occupancy(head, hph, tail, tph, size) ==
  IF hph = tph THEN tail - head ELSE size - (head - tail)

(* Distance of index i ahead of head, and the index at distance d. *)
Distance(i, head, size) == IF i >= head THEN i - head ELSE i - head + size
Ahead(d, head, size) ==
  IF head + d < size THEN head + d ELSE head + d - size

(* Equal phases mean head <= tail and different phases mean tail <= head:  *)
(* the unsigned subtractions of the code never wrap.                       *)
RingOK(head, hph, tail, tph) ==
  /\ hph = tph => head <= tail
  /\ hph # tph => tail <= head

=============================================================================
