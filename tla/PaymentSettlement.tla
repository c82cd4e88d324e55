------------------------- MODULE PaymentSettlement -------------------------
(***************************************************************************)
(* Checkout sessions of PaymentsService and the gateway webhooks that      *)
(* settle them.  A gateway reports each payment made for a session as      *)
(* events, at least once each and in any order.  An event whose id is      *)
(* already in webhook_dedup is acknowledged and dropped; otherwise its id  *)
(* is stored FIRST and the event handled after, in separate reads and      *)
(* writes between which other handlers run.                                *)
(***************************************************************************)
EXTENDS Integers, FiniteSets

CONSTANTS Sessions,  \* payment_sessions, by reference
          Open,      \* the gateways a deployment offers
          Payments,  \* the payments customers attempt at a gateway
          For,       \* [Payments -> Sessions]
          Handlers,  \* webhook requests being handled at a time
          MayFail    \* whether a handler may die (database error, crash)

Gateways == {"paystack", "flutterwave", "korapay", "paddle", "nowpayments"}

ASSUME PaymentsAssumption ==
  /\ Open \subseteq Gateways
  /\ IsFiniteSet(Payments) /\ For \in [Payments -> Sessions]
  /\ IsFiniteSet(Handlers)
  /\ MayFail \in BOOLEAN

VARIABLES status,   \* payment_sessions.status
          gateway,  \* payment_sessions.gateway
          ready,    \* the sessions whose checkout URL the customer has
          told,     \* the states the gateway has reported of a payment
          exact,    \* the finished payments isReconciled accepts for their session
          recorded, \* webhook_dedup
          acked,    \* the events answered with success
          handler,  \* the webhook handlers
          credits,  \* how often a session's amount was added to the wallet
          entries,  \* transactions rows with the session's reference
          lost,     \* history: sessions a handler of which died
          reviewed  \* history: sessions once left to operator review

rows == <<status, gateway>>
ledger == <<credits, entries>>
history == <<lost, reviewed>>
vars == <<rows, ready, told, exact, recorded, acked, handler, ledger, history>>

-----------------------------------------------------------------------------
(* Data.                                                                   *)

Words == {"waiting", "failed", "finished"}
Flags == {"paid_pending_fulfillment", "verification_failed", "reconciliation_failed"}
Statuses == {"none", "pending", "processing", "completed", "failed",
             "initialization_failed"} \cup Flags

Gate(p) == gateway[For[p]]
Reports(p) == IF Gate(p) = "nowpayments" THEN Words ELSE Words \ {"waiting"}

(* The dedup key each webhook handler builds: NOWPayments by payment,      *)
(* Flutterwave by reference ("charge.completed" whatever the outcome),     *)
(* Paystack and Korapay by event type and reference, Paddle by event.      *)
EventId(p, w) ==
  CASE Gate(p) = "nowpayments" -> <<p, "any">>
    [] Gate(p) = "flutterwave" -> <<For[p], "any">>
    [] Gate(p) \in {"paystack", "korapay"} -> <<For[p], w>>
    [] Gate(p) = "paddle" -> <<p, w>>

(* Paddle acts on transaction.completed only; the others also mark a       *)
(* session from the status an event reports (mapProviderPaymentStatus).    *)
Verdict(p, w) ==
  IF w = "finished" THEN "fulfil"
  ELSE IF Gate(p) = "paddle" THEN "ignore" ELSE "mark"

(* Web subscriptions go through Paddle only, and a paid one is activated   *)
(* by subscription events, not here; everything else funds the wallet.     *)
Funds(s) == gateway[s] # "paddle"

Idle == [at |-> "idle"]
Handler ==
  {Idle}
  \cup [at : {"fulfil", "verify", "claim", "credit", "entry", "complete", "mark"},
        pay : Payments, word : Words]
  \cup [at : {"write"}, pay : Payments, word : Words, seen : Statuses \ {"completed"}]

Busy(s) == {h \in Handlers : handler[h] # Idle /\ For[handler[h].pay] = s}
Paid(s) == {p \in exact : For[p] = s}

Init ==
  /\ status = [s \in Sessions |-> "none"]
  /\ gateway = [s \in Sessions |-> "none"]
  /\ ready = {}
  /\ told = [p \in Payments |-> {}]
  /\ exact = {}
  /\ recorded = {}
  /\ acked = {}
  /\ handler = [h \in Handlers |-> Idle]
  /\ credits = [s \in Sessions |-> 0]
  /\ entries = [s \in Sessions |-> 0]
  /\ lost = {}
  /\ reviewed = {}

-----------------------------------------------------------------------------
(* Checkout, and the gateway.                                              *)

hooks == <<recorded, acked, handler, ledger, history>>
SetStatus(s, v) == status' = [status EXCEPT ![s] = v]

(* initializePayment saves the session before it calls the gateway ...     *)
Initialize(s, g) ==
  /\ status[s] = "none"
  /\ SetStatus(s, "pending")
  /\ gateway' = [gateway EXCEPT ![s] = g]
  /\ UNCHANGED <<ready, told, exact, hooks>>

(* ... and hands out the checkout URL, or gives the session up.            *)
CheckoutReady(s) ==
  /\ status[s] = "pending" /\ s \notin ready
  /\ ready' = ready \cup {s}
  /\ UNCHANGED <<rows, told, exact, hooks>>

CheckoutFails(s) ==
  /\ status[s] = "pending" /\ s \notin ready
  /\ SetStatus(s, "initialization_failed")
  /\ UNCHANGED <<gateway, ready, told, exact, hooks>>

(* The gateway: a payment may be reported waiting, then once failed or     *)
(* finished, with an amount and currency that reconcile or with others.    *)
Report(p, w) ==
  /\ For[p] \in ready
  /\ told[p] \subseteq {"waiting"} /\ w \in Reports(p) \ told[p]
  /\ told' = [told EXCEPT ![p] = @ \cup {w}]
  /\ exact' \in IF w = "finished" THEN {exact, exact \cup {p}} ELSE {exact}
  /\ UNCHANGED <<rows, ready, hooks>>

-----------------------------------------------------------------------------
(* A webhook.                                                              *)

Goto(h, r) == handler' = [handler EXCEPT ![h] = r]
Proceed(h, step) == handler' = [handler EXCEPT ![h].at = step]
At(h, step) == handler[h].at = step
Of(h) == For[handler[h].pay]
Ack(p, w) == acked' = acked \cup {<<p, w>>}
Finish(h) == Ack(handler[h].pay, handler[h].word) /\ Goto(h, Idle)
frame == <<gateway, ready, told, exact>>

(* Seeded fault: an event is handled however often it is delivered.        *)
ReceiveAgain(h, p, w) ==
  /\ At(h, "idle") /\ w \in told[p]
  /\ recorded' = recorded \cup {EventId(p, w)}
  /\ IF Verdict(p, w) = "ignore"
     THEN Ack(p, w) /\ UNCHANGED handler
     ELSE Goto(h, [at |-> Verdict(p, w), pay |-> p, word |-> w]) /\ UNCHANGED acked
  /\ UNCHANGED <<frame, status, ledger, history>>

(* recordWebhookOnce decides whether a delivery is handled at all.         *)
Receive(h, p, w) ==
  /\ At(h, "idle") /\ w \in told[p]
  /\ recorded' = recorded \cup {EventId(p, w)}
  /\ IF EventId(p, w) \in recorded \/ Verdict(p, w) = "ignore"
     THEN Ack(p, w) /\ UNCHANGED handler
     ELSE Goto(h, [at |-> Verdict(p, w), pay |-> p, word |-> w]) /\ UNCHANGED acked
  /\ UNCHANGED <<frame, status, ledger, history>>

(* fulfillPayment: a completed session is left alone.                      *)
Fulfil(h) ==
  /\ At(h, "fulfil")
  /\ IF status[Of(h)] = "completed"
     THEN Finish(h)
     ELSE Proceed(h, "verify") /\ UNCHANGED acked
  /\ UNCHANGED <<frame, status, recorded, ledger, history>>

(* Seeded fault: a refused payment leaves no mark.                         *)
RefuseSilently(h, flag) ==
  /\ At(h, "verify")
  /\ flag = "reconciliation_failed" => handler[h].pay \notin exact
  /\ Finish(h)
  /\ UNCHANGED <<frame, status, recorded, ledger, history>>

(* The gateway is asked again and its answer compared with the session.  A *)
(* call that fails counts as unverified; a refusal overwrites the status   *)
(* whatever it is by now.                                                  *)
Refuse(h, flag) ==
  /\ At(h, "verify")
  /\ flag = "reconciliation_failed" => handler[h].pay \notin exact
  /\ SetStatus(Of(h), flag)
  /\ Finish(h)
  /\ UNCHANGED <<frame, recorded, ledger, history>>

Verify(h) ==
  /\ At(h, "verify") /\ handler[h].pay \in exact
  /\ Proceed(h, "claim")
  /\ UNCHANGED <<frame, status, recorded, acked, ledger, history>>

(* The conditional update: only a pending session can be claimed.          *)
Claim(h) ==
  /\ At(h, "claim")
  /\ IF status[Of(h)] = "pending"
     THEN /\ SetStatus(Of(h), "processing")
          /\ Proceed(h, IF Funds(Of(h)) THEN "credit" ELSE "complete")
          /\ UNCHANGED acked
     ELSE Finish(h) /\ UNCHANGED status
  /\ UNCHANGED <<frame, recorded, ledger, history>>

(* fulfillCredits: creditWallet, then a transactions row of its own.       *)
Credit(h) ==
  /\ At(h, "credit")
  /\ credits' = [credits EXCEPT ![Of(h)] = @ + 1]
  /\ Proceed(h, "entry")
  /\ UNCHANGED <<frame, status, recorded, acked, entries, history>>

Enter(h) ==
  /\ At(h, "entry")
  /\ entries' = [entries EXCEPT ![Of(h)] = @ + 1]
  /\ Proceed(h, "complete")
  /\ UNCHANGED <<frame, status, recorded, acked, credits, history>>

(* Seeded fault: the session is completed before its effects are applied.  *)
CompleteEarly(h) ==
  /\ At(h, "complete") \/ At(h, "credit")
  /\ SetStatus(Of(h), "completed")
  /\ Finish(h)
  /\ UNCHANGED <<frame, recorded, ledger, history>>

Complete(h) ==
  /\ At(h, "complete")
  /\ SetStatus(Of(h), "completed")
  /\ Finish(h)
  /\ UNCHANGED <<frame, recorded, ledger, history>>

Fulfilling(h) == \E step \in {"credit", "entry", "complete"} : At(h, step)

(* Seeded fault: an effect that fails counts as a failed payment.          *)
EffectFailsQuietly(h) ==
  /\ Fulfilling(h)
  /\ SetStatus(Of(h), "failed")
  /\ Finish(h)
  /\ UNCHANGED <<frame, recorded, ledger, history>>

(* An effect, or the final update, that throws leaves the session to an    *)
(* operator; what was committed stays.                                     *)
EffectFails(h) ==
  /\ Fulfilling(h)
  /\ SetStatus(Of(h), "paid_pending_fulfillment")
  /\ reviewed' = reviewed \cup {Of(h)}
  /\ Finish(h)
  /\ UNCHANGED <<frame, recorded, ledger, lost>>

(* markPaymentStatusFromWebhook reads the session ...                      *)
MarkRead(h) ==
  LET q == handler[h] IN
  /\ At(h, "mark")
  /\ IF status[Of(h)] = "completed"
     THEN Finish(h)
     ELSE /\ Goto(h, [at |-> "write", pay |-> q.pay, word |-> q.word, seen |-> status[Of(h)]])
          /\ UNCHANGED acked
  /\ UNCHANGED <<frame, status, recorded, ledger, history>>

(* ... and writes "failed", or what it read, over what it is by now.       *)
MarkWrite(h) ==
  /\ At(h, "write")
  /\ SetStatus(Of(h), IF handler[h].word = "failed" THEN "failed" ELSE handler[h].seen)
  /\ Finish(h)
  /\ UNCHANGED <<frame, recorded, ledger, history>>

(* A database error outside the guarded part, or a crash: the gateway will *)
(* deliver the event again, and it will be a duplicate.                    *)
Die(h) ==
  /\ MayFail /\ handler[h] # Idle
  /\ lost' = lost \cup {Of(h)}
  /\ Goto(h, Idle)
  /\ UNCHANGED <<frame, status, recorded, acked, ledger, reviewed>>

-----------------------------------------------------------------------------
Step(h) ==
  \/ Fulfil(h)
  \/ \E flag \in {"verification_failed", "reconciliation_failed"} : Refuse(h, flag)
  \/ Verify(h)
  \/ Claim(h)
  \/ Credit(h)
  \/ Enter(h)
  \/ Complete(h)
  \/ EffectFails(h)
  \/ MarkRead(h)
  \/ MarkWrite(h)

Next ==
  \/ \E s \in Sessions, g \in Open : Initialize(s, g)
  \/ \E s \in Sessions : CheckoutReady(s) \/ CheckoutFails(s)
  \/ \E p \in Payments, w \in Words : Report(p, w)
  \/ \E h \in Handlers : Step(h) \/ Die(h)
  \/ \E h \in Handlers, p \in Payments, w \in Words : Receive(h, p, w)

Spec == Init /\ [][Next]_vars

(* A handler that does not die runs to its end, and a gateway repeats an   *)
(* event until it is answered.                                             *)
Redeliver(p, w) ==
  /\ <<p, w>> \notin acked
  /\ \E h \in Handlers : Receive(h, p, w)

FairSpec ==
  /\ Spec
  /\ \A h \in Handlers : WF_vars(Step(h))
  /\ \A p \in Payments, w \in Words : WF_vars(Redeliver(p, w))

-----------------------------------------------------------------------------
(* Correctness.                                                            *)

(* Every variable has the type its column and its uses give it; a session  *)
(* never takes a status the service does not know.                         *)
TypeOK ==
  /\ status \in [Sessions -> Statuses]
  /\ gateway \in [Sessions -> Gateways \cup {"none"}]
  /\ ready \subseteq {s \in Sessions : gateway[s] # "none"}
  /\ told \in [Payments -> SUBSET Words]
  /\ exact \subseteq {p \in Payments : "finished" \in told[p]}
  /\ recorded \subseteq (Payments \cup Sessions) \X (Words \cup {"any"})
  /\ acked \subseteq Payments \X Words
  /\ handler \in [Handlers -> Handler]
  /\ credits \in [Sessions -> Nat] /\ entries \in [Sessions -> Nat]
  /\ lost \subseteq Sessions /\ reviewed \subseteq Sessions

(* A wallet is credited at most once per finished payment that reconciles  *)
(* with its session: neither a repeated event nor a late "waiting" that    *)
(* makes a fulfilled session pending again credits it twice for one.       *)
CreditsArePaid == \A s \in Sessions : credits[s] <= Cardinality(Paid(s))

(* A session shown as completed is in the wallet and in the ledger.        *)
CompletedIsDelivered ==
  \A s \in Sessions :
    status[s] = "completed" /\ Funds(s) => credits[s] > 0 /\ entries[s] > 0

(* A wallet credited without its transactions row was left to an operator, *)
(* is still being handled, or its handler died.                            *)
GapIsReviewed ==
  \A s \in Sessions : credits[s] > entries[s] =>
    s \in reviewed \/ s \in lost \/ Busy(s) # {}

(* What a customer or an operator can see of a session that was paid.      *)
Settled(s) == status[s] = "completed" \/ status[s] \in Flags

(* A handler died, or the gateway reported more than success.              *)
Disturbed(s) ==
  \/ s \in lost
  \/ \E p \in Payments : For[p] = s /\ \E w \in told[p] : Verdict(p, w) = "mark"

(* A paid session of which nothing but success was ever reported ends      *)
(* completed or flagged, whatever order its events, refusals and failing   *)
(* effects come in.                                                        *)
PaidIsSettled ==
  \A p \in Payments : "finished" \in told[p] ~> Settled(For[p]) \/ Disturbed(For[p])

(* 'Paystack, Paddle, and NOWPayments webhooks are idempotent and ledger   *)
(* updates reconcile': once the gateway's word that a payment finished has *)
(* been answered, the session is completed or flagged.                     *)
AnsweredIsReconciled ==
  \A p \in Payments :
    <<p, "finished">> \in acked /\ Busy(For[p]) = {} => Settled(For[p]) \/ For[p] \in lost
=============================================================================
