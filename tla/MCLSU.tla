------------------------------- MODULE MCLSU -------------------------------
(***************************************************************************)
(* Model-checking instance of LSU.  The view drops the contents of queue   *)
(* entries that are out of use, addresses and values not yet available,    *)
(* and the value of phase bits that are only compared with each other.     *)
(***************************************************************************)
EXTENDS LSU

ViewEntry(e) ==
  IF ~e.valid THEN 0
  ELSE <<e.size, e.amo, e.mdp_stall, e.addr_avail, IF e.addr_avail THEN e.addr ELSE 0,
         e.value_avail, IF e.value_avail THEN e.value ELSE Zero>>

Live ==
  <<[i \in LSlot |-> ViewEntry(LQ[i])], [i \in SSlot |-> ViewEntry(SQ[i])],
    lq_head, lq_tail, lq_head_phase = lq_tail_phase, lq_length,
    sq_head, sq_tail, sq_head_phase = sq_tail_phase, sq_length,
    load_reservation, mem,
    [k \in DOMAIN window |->
       <<window[k].type, window[k].lq[1], window[k].lq[2] = lq_head_phase,
         window[k].sq[1], window[k].sq[2] = sq_head_phase, window[k].done,
         window[k].exception, window[k].load_viol>>]>>

=============================================================================
