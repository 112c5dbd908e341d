---------------------------- MODULE MCCashDaemon ----------------------------
(* CashDaemon for TLC: three orders of one account, at two shops, with prices of *)
(* which the account can pay one large or two small ones.                        *)
EXTENDS CashDaemon, TLC

Symmetric == Permutations(Orders) \cup Permutations(Shops)
=============================================================================
