----------------------------- MODULE MCInOrder -----------------------------
(***************************************************************************)
(* Model-checking instances of InOrder: programs, and a view that names    *)
(* entries of PAY and of the debug buffer by their distance from the head  *)
(* and forgets what is behind the tail.                                    *)
(***************************************************************************)
EXTENDS InOrder, TLC

Code(op, f3, f5, target) ==
  [insn |-> Encoding(op, f3, f5, FALSE), target |-> target, fault |-> FALSE]

(* A loop of every kind of instruction; its wrong paths serialize, trap    *)
(* and branch too.                                                         *)
Loop == 0 :> Code("STORE", "", "", 0) @@ 1 :> Code("BRANCH", "", "", 3)
          @@ 2 :> Code("SYSTEM", "CSR", "other", 0) @@ 3 :> Code("LOAD", "", "", 0)
          @@ 4 :> Code("BRANCH", "", "", 0) @@ 5 :> Code("AMO", "AMO_W", "RMW", 0)
          @@ 6 :> Code("SYSTEM", "SC_SB", "SCALL", 0)
          @@ 7 :> [Code("OP_IMM", "", "NOP", 0) EXCEPT !.fault = TRUE]

Pos(i)   == (i - PAY.head + PAYLOAD_BUFFER_SIZE) % PAYLOAD_BUFFER_SIZE
DBPos(i) == IF i = NoIndex THEN NoIndex ELSE (i - DB.head + DEBUG_SIZE) % DEBUG_SIZE
ViewInst(i) ==
  LET x == PAY.buf[i]
  IN  <<Pos(i), x.pc, x.next_pc, DBPos(x.db_index), x.split, x.done, x.older>>
ViewSeq(s) == [k \in DOMAIN s |-> ViewInst(s[k])]

Live ==
  <<pc, fetch_active, serialized, PAY.head % 2, Pos(PAY.tail), PAY.length,
    ViewSeq(ROB), ViewSeq(DISPATCH), ViewSeq(RENAME2), ViewSeq(FQ), ViewSeq(DECODE),
    ViewSeq(FETCH2),
    IF fetch2.valid THEN <<fetch2.pc, Pos(fetch2.pay_checkpoint), fetch2.misfetch>> ELSE 0,
    [d \in 1..DB.length |-> DB.db[(DB.head + d - 1) % DEBUG_SIZE]], isa>>

=============================================================================
