--------------------------- MODULE MCSubscriptions ---------------------------
(* Customers, subscriptions and gateways for model checking.               *)
EXTENDS Subscriptions

CONSTANTS u1, s1, s2, messenger, tunnel

(* One user; premium grants both entitlements, the other one of them.      *)
MCOwner == [s \in Subs |-> u1]
MCGrants == [s \in Subs |-> IF s = s1 THEN Entitlements ELSE {tunnel}]
(* Both entitlements renewed, and one of them run out.                     *)
MCStates == {[kind |-> "RENEWAL", names |-> {}, active |-> {messenger, tunnel}],
             [kind |-> "EXPIRATION", names |-> {tunnel}, active |-> {messenger}]}
MCTold == [s \in Subs |-> IF s = s1 THEN <<"active", "canceled">> ELSE <<"past_due">>]
MCGateways == {{"revenuecat"}, {"paddle"}}
=============================================================================
