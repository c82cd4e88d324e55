----------------------------- MODULE MCPayments -----------------------------
(***************************************************************************)
(* Instances of PaymentSettlement for TLC: one checkout session, on any of *)
(* the gateways offered, and the payments attempted for it.                *)
(***************************************************************************)
EXTENDS PaymentSettlement

CONSTANT s1

OneSession == [p \in Payments |-> s1]
=============================================================================
