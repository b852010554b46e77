---------------------------- MODULE ReturnStack ----------------------------
(***************************************************************************)
(* The return address stack (uarchsim/ras.cc): a circular stack that calls *)
(* and returns update speculatively, and a log with one entry per branch   *)
(* in the branch queue from which it is repaired.  r is a record of the    *)
(* class's members; each method is an operator from r to r.                *)
(***************************************************************************)
EXTENDS BranchQueue

CONSTANTS
  ras_size,          \* max(1, the size asked for), ras.cc:9
  recovery_approach  \* "TOS_POINTER", "TOS_POINTER_AND_CONTENT" or "WALK"

ASSUME ReturnStackAssumption ==
  /\ ras_size \in Nat \ {0}
  /\ recovery_approach \in {"TOS_POINTER", "TOS_POINTER_AND_CONTENT", "WALK"}

RASSlot == 0..(ras_size - 1)

Above(t) == Next1(t, ras_size)
Below(i, n) == IF i > 0 THEN i - 1 ELSE n - 1

EmptyRAS ==
  [ras |-> [i \in RASSlot |-> 0], tos |-> 0, tail |-> 0,
   log |-> [i \in BQSlot |->
              [tos_pointer |-> 0, tos_content |-> 0, iscall |-> FALSE,
               isreturn |-> FALSE]],
   fetch2_tos_pointer |-> 0, fetch2_tos_content |-> 0]

RASPush(r, x) == [r EXCEPT !.tos = Above(@), !.ras[Above(r.tos)] = x]
RASPop(r)     == [r EXCEPT !.tos = Below(@, ras_size)]
RASPredict(r) == r.ras[r.tos]

RASSaveContext(r) ==
  [r EXCEPT !.fetch2_tos_pointer = r.tos, !.fetch2_tos_content = r.ras[r.tos]]

(* spec_update(): a fetch bundle holds at most one call or return.         *)
RASSpecUpdate(r, update) ==
  IF update.pop_ras THEN RASPop(r)
  ELSE IF update.push_ras THEN RASPush(r, update.push_ras_pc)
  ELSE r

RASRestoreContext(r) == [r EXCEPT !.tos = r.fetch2_tos_pointer]

RASLogBranch(r, id, type) ==
  [r EXCEPT
     !.log[id] = [tos_pointer |-> r.fetch2_tos_pointer,
                  tos_content |-> r.fetch2_tos_content,
                  iscall |-> type \in {"BTB_CALL_DIRECT", "BTB_CALL_INDIRECT"},
                  isreturn |-> type = "BTB_RETURN"],
     !.tail = Next1(@, bq_size)]

(* The content of RASFlush's walk: the log is undone from its tail down to *)
(* id, so a slot ends with what the oldest entry that names it recorded.   *)
Undone(r, id) ==
  LET n      == LET d == Distance(r.tail, id, bq_size) IN IF d = 0 THEN bq_size ELSE d
      at(d)  == r.log[Ahead(d, id, bq_size)]
      hit(t) == {d \in 0..(n - 1) : at(d).tos_pointer = t}
  IN  [t \in RASSlot |->
         IF hit(t) = {} THEN r.ras[t]
         ELSE at(CHOOSE d \in hit(t) : \A e \in hit(t) : d <= e).tos_content]

RASFlush(r, id) ==
  LET entry == r.log[id]
  IN  [r EXCEPT !.tos = entry.tos_pointer, !.tail = id,
                !.ras = CASE recovery_approach = "TOS_POINTER" -> @
                          [] recovery_approach = "TOS_POINTER_AND_CONTENT" ->
                               [@ EXCEPT ![entry.tos_pointer] = entry.tos_content]
                          [] recovery_approach = "WALK" -> Undone(r, id)]

(* mispredict(): undo, then redo the branch itself.  A call only moves the *)
(* pointer: its return address should still be above the old top.          *)
RASMispredictUndo(r, id) == RASFlush(r, id)   \* a mutant: no redo
RASMispredict(r, id) ==
  LET undone == RASFlush(r, id)
      redone == IF r.log[id].iscall THEN [undone EXCEPT !.tos = Above(@)]
                ELSE IF r.log[id].isreturn THEN RASPop(undone)
                ELSE undone
  IN  [redone EXCEPT !.tail = Next1(@, bq_size)]

=============================================================================
