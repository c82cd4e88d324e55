--------------------------- MODULE VerificationHub ---------------------------
(***************************************************************************)
(* Verification orders of VerificationHubService on the numbers and holds  *)
(* of NumberLifecycle, and the inbound messages and calls that settle      *)
(* them.  An order provisions a number with a hold that stays open: the    *)
(* first message spends it, the end of the session or its cancellation     *)
(* gives it back.                                                          *)
(*                                                                         *)
(* Of the service three functions are not here because nothing reaches     *)
(* them: recordInboundMessage and createVerificationOrderViaAdapter have   *)
(* no caller, and pollVerificationMessages asks for orders at JuicySMS and *)
(* TextVerified, where no order is ever made.                              *)
(***************************************************************************)
EXTENDS NumberLifecycle

VARIABLES order,     \* verification_orders.status, orders of one user
          linked,    \* the orders that have their number
          creating,  \* createOrder
          canceling, \* cancelOrder
          watch,     \* what the minute job has still to do with an order
          inbox,     \* the handler of an inbound message or call
          got        \* history: the numbers a message was stored for

hubvars == <<order, linked, creating, canceling, watch, inbox, got>>
vars == <<nvars, hubvars>>

Open == {"provisioning", "waiting"}
OrderStatuses == {"none", "failed", "cancelled", "expired"} \cup Open

HubInit ==
  /\ Init
  /\ order = [s \in Sessions |-> "none"]
  /\ linked = {}
  /\ creating = [s \in Sessions |-> "idle"]
  /\ canceling = [s \in Sessions |-> "idle"]
  /\ watch = [s \in Sessions |-> "idle"]
  /\ inbox = [n \in Numbers |-> "idle"]
  /\ got = {}

SetOrder(s, status) == order' = [order EXCEPT ![s] = status]

-----------------------------------------------------------------------------
(* createOrder: a user may have one open order, which is checked before    *)
(* the order is saved.                                                     *)
CheckActive(s) ==
  /\ creating[s] = "idle" /\ s \in asked
  /\ \A t \in Sessions : order[t] \notin Open
  /\ creating' = [creating EXCEPT ![s] = "save"]
  /\ UNCHANGED <<nvars, order, linked, canceling, watch, inbox, got>>

SaveOrder(s) ==
  /\ creating[s] = "save"
  /\ SetOrder(s, "provisioning")
  /\ creating' = [creating EXCEPT ![s] = "provision"]
  /\ UNCHANGED <<nvars, linked, canceling, watch, inbox, got>>

(* The order gets its number, or fails, by what provision answered; either *)
(* is written whatever became of the order in the meantime.                *)
Answer(s) ==
  /\ creating[s] = "provision"
  /\ \/ request[s] = "ok" /\ SetOrder(s, "waiting") /\ linked' = linked \cup {s}
     \/ request[s] = "failed" /\ SetOrder(s, "failed") /\ UNCHANGED linked
     \/ WritesMayFail /\ request[s] = "ok" /\ SetOrder(s, "failed") /\ UNCHANGED linked
  /\ creating' = [creating EXCEPT ![s] = "done"]
  /\ UNCHANGED <<nvars, canceling, watch, inbox, got>>

(* The provision requests of orders are made by createOrder, and end with  *)
(* it when the process stops.                                              *)
Provisioning(p) ==
  /\ IF p \in Sessions THEN creating[p] = "provision" /\ Provision(p)
                       ELSE Provision(p) \/ Crash(p)
  /\ UNCHANGED hubvars

StopCreating(s) ==
  /\ creating[s] \in {"save", "provision"}
  /\ Crash(s) \/ (request[s] \in {"idle", "ok", "failed"} /\ UNCHANGED nvars)
  /\ creating' = [creating EXCEPT ![s] = "done"]
  /\ UNCHANGED <<order, linked, canceling, watch, inbox, got>>

-----------------------------------------------------------------------------
(* cancelOrder releases the number of the order, then marks the order,     *)
(* cancelled and refunded.                                                 *)
ReadForCancel(s) ==
  /\ canceling[s] = "idle" /\ order[s] \in Open
  /\ IF s \in linked
     THEN ReleaseAtCarrier(Number[s]) /\ canceling' = [canceling EXCEPT ![s] = "release"]
     ELSE UNCHANGED nvars /\ canceling' = [canceling EXCEPT ![s] = "mark"]
  /\ UNCHANGED <<order, linked, creating, watch, inbox, got>>

Releasing(n) ==
  LET waiting == {s \in Sessions : Number[s] = n /\ canceling[s] = "release"} IN
  /\ \/ /\ ReleaseAtCarrier(n) \/ MarkReleased(n)
        /\ UNCHANGED canceling
     \/ /\ FreeReleased(n)
        /\ canceling' = [s \in Sessions |-> IF s \in waiting THEN "mark" ELSE canceling[s]]
     \/ /\ StopRelease(n)
        /\ canceling' = [s \in Sessions |-> IF s \in waiting THEN "idle" ELSE canceling[s]]
  /\ UNCHANGED <<order, linked, creating, watch, inbox, got>>

MarkCancelled(s) ==
  /\ canceling[s] = "mark"
  /\ SetOrder(s, "cancelled")
  /\ canceling' = [canceling EXCEPT ![s] = "idle"]
  /\ UNCHANGED <<nvars, linked, creating, watch, inbox, got>>

-----------------------------------------------------------------------------
(* expireOrders: the job lists the open orders that are due, marks each    *)
(* expired and gives its hold back.  An order without a number has no      *)
(* expiry and is passed over.                                              *)
(* Seeded fault: orders that wait for their message are not listed.        *)
ListOrderUnanswered(s) ==
  /\ watch[s] = "idle" /\ order[s] = "provisioning" /\ s \in linked
  /\ elapsed[Number[s]] > 0
  /\ watch' = [watch EXCEPT ![s] = "mark"]
  /\ UNCHANGED <<nvars, order, linked, creating, canceling, inbox, got>>

ListOrder(s) ==
  /\ watch[s] = "idle" /\ order[s] \in Open /\ s \in linked /\ elapsed[Number[s]] > 0
  /\ watch' = [watch EXCEPT ![s] = "mark"]
  /\ UNCHANGED <<nvars, order, linked, creating, canceling, inbox, got>>

MarkExpired(s) ==
  /\ watch[s] = "mark"
  /\ SetOrder(s, "expired")
  /\ watch' = [watch EXCEPT ![s] = "free"]
  /\ UNCHANGED <<nvars, linked, creating, canceling, inbox, got>>

FreeExpired(s) ==
  /\ watch[s] = "free"
  /\ FreeHold(Number[s])
  /\ watch' = [watch EXCEPT ![s] = "idle"]
  /\ UNCHANGED <<asked, row, elapsed, held, request, renewal, cut, erased, leaving, job, sweep,
                 order, linked, creating, canceling, inbox, got>>

-----------------------------------------------------------------------------
(* An inbound message (handleInboundSms, persistInboundProviderSms) or     *)
(* call (handleInboundCall) is stored for the row of its number, whatever  *)
(* the status of the row, and then spends the open hold of the number.     *)
Arrive(n) ==
  /\ inbox[n] = "idle" /\ n \in held /\ row[n].verify
  /\ got' = got \cup {n}
  /\ inbox' = [inbox EXCEPT ![n] = "settle"]
  /\ UNCHANGED <<nvars, order, linked, creating, canceling, watch>>

(* settleVerificationWalletDelivery.                                       *)
Settle(n) ==
  /\ inbox[n] = "settle"
  /\ \/ \E k \in HoldOf(n) : Spend(k)
     \/ (WritesMayFail \/ HoldOf(n) = {}) /\ UNCHANGED wallet
  /\ inbox' = [inbox EXCEPT ![n] = "idle"]
  /\ UNCHANGED <<asked, row, elapsed, held, request, renewal, cut, erased, leaving, job, sweep,
                 order, linked, creating, canceling, watch, got>>

(* The handler stops; its event is stored and will not be handled again.   *)
StopHandling(n) ==
  /\ inbox[n] = "settle"
  /\ inbox' = [inbox EXCEPT ![n] = "idle"]
  /\ UNCHANGED <<nvars, order, linked, creating, canceling, watch, got>>

-----------------------------------------------------------------------------
Numbering ==
  \/ Deposit
  \/ \E n \in Numbers : Elapse(n) \/ (\E w \in Callers : Renew(w, n))
  \/ ExpiryJobs

Next ==
  \/ Numbering /\ UNCHANGED hubvars
  \/ \E p \in Requests : Provisioning(p)
  \/ \E n \in Numbers : Releasing(n) \/ Arrive(n) \/ Settle(n) \/ StopHandling(n)
  \/ \E s \in Sessions :
       \/ CheckActive(s) \/ SaveOrder(s) \/ Answer(s) \/ StopCreating(s)
       \/ ReadForCancel(s) \/ MarkCancelled(s)
       \/ ListOrder(s) \/ MarkExpired(s) \/ FreeExpired(s)

Spec == HubInit /\ [][Next]_vars

(* Time passes and the minute jobs of sessions run.                        *)
Fairness ==
  /\ \A k \in Verifications :
       WF_vars((ListHold(k) \/ ExpireListed(k) \/ ExpireVerification(k)) /\ UNCHANGED hubvars)
  /\ \A s \in Sessions : /\ WF_vars(Elapse(Number[s]) /\ UNCHANGED hubvars)
                          /\ WF_vars(ListOrder(s) \/ MarkExpired(s))

FairSpec == Spec /\ Fairness

-----------------------------------------------------------------------------
(* Correctness.                                                            *)

RequestSteps == {"idle", "buy", "save", "rebind", "link", "spend", "give back",
                 "ok", "failed"}

(* Every row has a status its table knows, and the wallet never pays more  *)
(* than it was given.                                                      *)
TypeOK ==
  /\ funds \in Nat /\ held \subseteq Numbers
  /\ hold \in [Holds -> [status : HoldStatuses, for : Numbers \cup {NoNumber}]]
  /\ row \in [Numbers -> [status : NumberStatuses \cup {"none"}, periods : Nat,
                          mark : {"none", "paid", "failed"}, auto : BOOLEAN, verify : BOOLEAN]]
  /\ request \in [Requests -> RequestSteps]
  /\ order \in [Sessions -> OrderStatuses] /\ linked \subseteq Sessions

(* A rental is answered as provisioned only when it is paid, whatever      *)
(* became of its hold while the carriers were asked.                       *)
AnsweredIsPaid ==
  \A p \in Requests :
    request[p] = "ok" /\ Kind[p] \in {"rental", "burner"} => hold[Key[p]].status = "spent"

(* The last period a number was given, the renewal of which could not be   *)
(* charged, is marked unpaid: the number is extended before the hold is    *)
(* spent, and keeps the time if that is refused.  The code makes two       *)
(* exceptions: a renewal that stops before it has marked the number (cut), *)
(* and a provision that is not done when the owner renews: it then writes  *)
(* the metadata it saved the row with, which has no mark (erased).         *)
UnpaidTimeIsMarked ==
  \A n \in Numbers \ (cut \cup erased) :
    row[n].periods > 1 /\ hold[<<n, row[n].periods - 1>>].status # "spent"
    => row[n].mark = "failed" \/ \E w \in Callers : renewal[<<w, n>>].at = "spend"

(* A verification is charged only after something was received on its      *)
(* number: not by its provisioning, its expiry or its cancellation.        *)
ChargedIsDelivered ==
  \A s \in Sessions : hold[Key[s]].status = "spent" => Number[s] \in got

(* An order that has its number is closed some day, and so is the hold of it,  *)
(* whether or not the request, its cancellation or a message got that far. *)
SessionsEnd ==
  \A s \in Sessions :
    /\ s \in linked ~> order[s] \notin Open
    /\ hold[Key[s]].status = "active" ~> hold[Key[s]].status # "active"
=============================================================================
