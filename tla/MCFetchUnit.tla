---------------------------- MODULE MCFetchUnit ----------------------------
(***************************************************************************)
(* Model-checking instances of FetchUnit: small programs, and a view that  *)
(* names branch queue entries by their distance from the head and stack    *)
(* slots by their distance from the top, and drops what is not read again. *)
(***************************************************************************)
EXTENDS FetchUnit, TLC

Code(kind, target) == [kind |-> kind, target |-> target]

(* Two call sites, a conditional branch back and one around an amo, and an *)
(* unmapped page behind the return.                                        *)
Mixed ==
  0 :> Code("BTB_CALL_DIRECT", 3) @@ 1 :> Code("BTB_BRANCH", 0) @@
  2 :> Code("serialize", 0) @@ 3 :> Code("BTB_BRANCH", 1) @@
  4 :> Code("BTB_CALL_INDIRECT", 0) @@ 5 :> Code("BTB_RETURN", 0) @@
  6 :> Code("plain", 0) @@ 7 :> Code("fault", 0)

Aliased == [branch |-> TRUE, type |-> "BTB_JUMP_DIRECT", target |-> 2]

Below0(i) == (RBP.tos - i + ras_size) % ras_size
FromHead(tag) == Distance(tag, bq.head, bq_size)

ViewLog(tag) ==
  LET l == RBP.log[tag]
  IN  <<CBP.log[tag].precise_bhr, Below0(l.tos_pointer), l.tos_content,
        l.iscall, l.isreturn, bq.bq[tag].misp, bq.bq[tag].taken>>

ViewInst(k) ==
  LET i == window[k]
  IN  IF k > BundleStart
      THEN <<i.pc, i.next_pc, i.branch, i.type, i.target, i.fetch>>
      ELSE <<i.pc, i.next_pc, i.branch, i.type, i.done,
             IF i.branch THEN <<FromHead(i.pred_tag), ViewLog(i.pred_tag),
                 IsCond(i) => i.fetch = <<bq.bq[i.pred_tag].fetch_pc,
                                          CBP.log[i.pred_tag].fetch_bhr,
                                          bq.bq[i.pred_tag].fetch_cbID_in_bundle>> >>
             ELSE 0>>

Live ==
  <<pc, fetch_active, FETCH2, decode, [k \in DOMAIN window |-> ViewInst(k)],
    BQLength(bq), FromHead(RBP.tail), CBP.bhr, base_bhr, base_stack,
    [d \in RASSlot |-> RBP.ras[Below0(d)]],
    IF fetch2.valid
    THEN <<fetch2.pc, fetch2.tc_hit, CBP.fetch2_bhr, CBP.context,
           Below0(RBP.fetch2_tos_pointer), RBP.fetch2_tos_content>>
    ELSE 0>>

=============================================================================
