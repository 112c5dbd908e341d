--------------------------- MODULE MCBillSession ----------------------------
(* BillSession for TLC: one shop sends two BillPacks of two bytes, the other one. *)
EXTENDS BillSession, TLC

MCMaxSent == "s1" :> 2 @@ "s2" :> 1

MCOneSent == "s1" :> 1
=============================================================================
