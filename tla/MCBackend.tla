----------------------------- MODULE MCBackend -----------------------------
(***************************************************************************)
(* Model-checking instances of Backend: lanes, latencies and instruction   *)
(* kinds of each run, and a view.  It names registers and active list      *)
(* entries by their place in the window, so that it identifies states that *)
(* differ by a renaming or by a rotation of the active list, and drops     *)
(* what nothing reads again: free issue queue entries, operands of         *)
(* completed instructions.                                                 *)
(***************************************************************************)
EXTENDS Backend, TLC

(* A single-cycle lane and a two-cycle lane. *)
TwoDepths == 0 :> 1 @@ 1 :> 2
OneLane   == 0 :> 1

Mixed      == "branch" :> {0} @@ "alu" :> {0, 1} @@ "load" :> {0}
MemoryOnly == "load" :> {0} @@ "store" :> {0}

(* A register is committed or the destination of one instruction in flight. *)
RegName(p) ==
  IF \E r \in LogReg : committed[r] = p
    THEN CHOOSE r \in LogReg : committed[r] = p
    ELSE n_log_regs + CHOOSE k \in DOMAIN window :
           window[k].dest_valid /\ window[k].phys_reg = p
RegNames(S) == {RegName(p) : p \in S}

ViewEntry(e) ==
  IF ~e.valid THEN 0
  ELSE <<Pos(e.index), e.branch_mask, e.lane_id, RegNames(e.tags),
         RegNames(e.ready), IF e.inum = NoInum THEN 0 ELSE Pos(e.inum),
         e.inum_ready>>
ViewInst(x) ==
  <<x.kind, x.dest_valid, x.log_reg, x.predicted, x.branch_ID, x.completed,
    IF x.completed THEN {} ELSE RegNames(x.tags)>>
ViewPlace(p) == IF p.valid THEN <<Pos(p.index), p.branch_mask>> ELSE 0
ViewLane(L)  == <<ViewPlace(L.rr), [d \in DOMAIN L.ex |-> ViewPlace(L.ex[d])],
                  ViewPlace(L.wb)>>

Machine ==
  <<stage, lane, [k \in DOMAIN window |-> ViewInst(window[k])],
    RegNames(PRF_ready \ Free), RegNames(PRF_written \ Free),
    [l \in Lane |-> ViewLane(Execution_Lanes[l])],
    {Pos(i) : i \in stalled}>>

Live ==
  <<Machine, [i \in Slot |-> ViewEntry(IQ.q[i])],
    [d \in 0..(IQ.fl_length - 1) |-> IQ.fl[Ahead(d, IQ.fl_head, size)]],
    IF IDEAL_AGE_BASED THEN 0 ELSE IQ.part_next>>

=============================================================================
