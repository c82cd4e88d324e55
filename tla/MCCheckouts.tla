----------------------------- MODULE MCCheckouts -----------------------------
(***************************************************************************)
(* Checkouts for model checking, and the middleware before them: a         *)
(* behaviour is either the settlement of a session or what the limits let  *)
(* through of one client, which share no state.                            *)
(***************************************************************************)
EXTENDS MCPayments, RateLimits

VARIABLE behind  \* bound: whether requests are followed beyond the middleware

(* The shortest route, and the longest.                                    *)
MCMixes == {{"webhook"}, {"signin"}}
MCWindows == <<"24h">>
MCMax == [n \in Names |-> 1]
MCLife == [n \in Names |-> IF n \in {"webhook", "24h"} THEN 2 ELSE 1]

CheckoutInit ==
  /\ Init /\ RateInit
  /\ behind \in BOOLEAN /\ (behind => mix = {"webhook"})

CheckoutNext ==
  /\ UNCHANGED behind
  /\ \/ behind /\ Next /\ UNCHANGED ratevars
     \/ ~behind /\ RateNext /\ UNCHANGED vars

CheckoutFairness ==
  /\ \A h \in Handlers : WF_vars(Step(h) /\ UNCHANGED ratevars)
  /\ \A p \in Payments, w \in Words : WF_vars(Redeliver(p, w) /\ UNCHANGED ratevars)
  /\ WF_ratevars(RateTick /\ UNCHANGED vars)

CheckoutSpec ==
  CheckoutInit /\ [][CheckoutNext]_<<vars, ratevars, behind>> /\ CheckoutFairness
=============================================================================
