------------------------- MODULE ConnectivityOrders -------------------------
(***************************************************************************)
(* eSIM orders, proxy orders and VPN sessions of IntegrationsService: the  *)
(* purchase request of each order, the providers it calls and the          *)
(* lifecycle webhooks the providers send later.  Money moves only through  *)
(* holds on the wallet, which is HoldContract here: WalletLedger           *)
(* implements it.                                                          *)
(*                                                                         *)
(* A request and a webhook handler are sequences of separate database      *)
(* writes and calls: each is one action, anything may run between two of   *)
(* them, any of them may fail, and the process may stop after any of them. *)
(***************************************************************************)
EXTENDS Integers, Sequences, FiniteSets

CONSTANTS Users, Nobody,
          Esims, Proxies, Vpns, \* the orders, by product
          Owner,                \* [Orders -> Users]
          Keys, Key,            \* request keys, and [Orders -> Keys]
          Environments,         \* the sets of providers a deployment may have configured
          Words,                \* the states the providers' webhooks report
          Idents, NoIdent,      \* event ids; NoIdent: the event carries none
          Handlers,             \* webhook requests being handled at a time
          Charge,               \* what pricing asks for an order
          Price,                \* what the order row records
          WritesMayFail,        \* whether database writes of a request may fail
          MaxFunds,             \* bound: largest balance deposits build up
          MaxOrders             \* bound: orders created

Orders == Esims \cup Proxies \cup Vpns
Providers == {"airalo", "oxylabs", "smartproxy", "wireguard"}

ASSUME OrdersAssumption ==
  /\ Esims \cap Proxies = {} /\ Esims \cap Vpns = {} /\ Proxies \cap Vpns = {}
  /\ Owner \in [Orders -> Users] /\ Nobody \notin Users
  /\ Key \in [Orders -> Keys]
  /\ Environments \subseteq SUBSET Providers /\ NoIdent \notin Idents
  /\ Words \subseteq {"fail", "cancel", "revoke", "expire", "disconnect", "suspend",
                      "complete", "ready", "process"}
  /\ Charge \in Nat \ {0} /\ Price \in Nat \ {0} /\ MaxFunds \in Nat
  /\ MaxOrders \in Nat /\ WritesMayFail \in BOOLEAN

VARIABLES free, holder, open, size, \* the wallet: see HoldContract
          configured, \* the providers whose environment is complete; never changes
          spentBy,  \* request key -> the order its spend is recorded for
          row,      \* the order rows: status, provider reference, failure reason
          req,      \* the purchase requests: next step, provider tried, answer
          accepted, \* the providers that accepted an order, known to us or not
          handler,  \* the webhook handlers
          seen,     \* webhook_dedup
          refunds   \* wallet_transactions with the order's refund key

wallet == <<free, holder, open, size>>
vars == <<wallet, configured, spentBy, row, req, accepted, handler, seen, refunds>>

Wallet == INSTANCE HoldContract WITH
            Holds <- Keys, Amounts <- 1..MaxFunds, PackCents <- Charge

-----------------------------------------------------------------------------
(* Data.                                                                   *)

Chain(o) == CASE o \in Esims -> <<"airalo">>
              [] o \in Proxies -> <<"oxylabs", "smartproxy">>
              [] o \in Vpns -> <<"wireguard">>

Paid(o) == o \notin Vpns

(* The CHECK constraints of esim_orders, proxy_orders and vpn_sessions.    *)
Statuses(o) ==
  CASE o \in Esims -> {"pending", "processing", "provisioning", "active", "completed",
                       "failed", "cancelled", "expired", "refunded"}
    [] o \in Proxies -> {"pending", "provisioning", "active", "suspended", "expired",
                         "failed", "cancelled", "refunded"}
    [] o \in Vpns -> {"pending", "provisioning", "active", "disconnected", "expired",
                      "failed", "revoked"}

(* mapProviderLifecycleStatus.                                             *)
Mapped(o, word) ==
  CASE word = "fail" -> "failed"
    [] word = "cancel" -> IF o \in Vpns THEN "revoked" ELSE "cancelled"
    [] word = "revoke" -> "revoked"
    [] word = "expire" -> "expired"
    [] word = "disconnect" -> "disconnected"
    [] word = "suspend" -> "suspended"
    [] word = "complete" -> IF o \in Esims THEN "completed" ELSE "active"
    [] word = "ready" -> "active"
    [] word = "process" -> "provisioning"

NoRow == [status |-> "none", linked |-> "none", reason |-> "none"]
NoReq == [at |-> "idle", try |-> 1, answer |-> "none"]
NoHandler == [at |-> "idle"]

Provider(o) == Chain(o)[req[o].try]
Status(o) == row[o].status

SetStatus(o, s) == row' = [row EXCEPT ![o].status = s]
Goto(o, step) == req' = [req EXCEPT ![o].at = step]
At(o, step) == req[o].at = step

Init ==
  /\ Wallet!Init
  /\ configured \in Environments
  /\ spentBy = [k \in Keys |-> {}]
  /\ row = [o \in Orders |-> NoRow]
  /\ req = [o \in Orders |-> NoReq]
  /\ accepted = [o \in Orders |-> {}]
  /\ handler = [h \in Handlers |-> NoHandler]
  /\ seen = {}
  /\ refunds = [o \in Orders |-> 0]

hooks == <<configured, handler, seen, refunds>>

Deposit(u, a) ==
  /\ free[u] + a <= MaxFunds
  /\ Wallet!Earn(u, a)
  /\ UNCHANGED <<spentBy, row, req, accepted, hooks>>

-----------------------------------------------------------------------------
(* The purchase request.  A second request with the key of an order of the *)
(* same product returns that order; the unique index makes one of two      *)
(* simultaneous ones fail.                                                 *)
Opens(o, step) ==
  /\ At(o, "idle")
  /\ Cardinality({p \in Orders : Status(p) # "none"}) < MaxOrders
  /\ \A p \in Orders : /\ Chain(p) = Chain(o) /\ Owner[p] = Owner[o] /\ Key[p] = Key[o]
                       => Status(p) = "none"
  /\ SetStatus(o, "pending")
  /\ Goto(o, step)
  /\ UNCHANGED <<wallet, spentBy, accepted, hooks>>

(* The catalog, an operation with a configuration of its own, has the plan.*)
CreateEsim(o) == o \in Esims /\ Opens(o, "lock")

CreateProxy(o) == o \in Proxies /\ Opens(o, "lock")

(* A subscription is asked for, and there is nothing to pay.               *)
CreateVpn(o) == o \in Vpns /\ Opens(o, "call")

(* createProxyOrder goes on with the next provider, and gives up after the *)
(* last; one that is not configured is passed over.                        *)
Fallback(o) ==
  req' = IF req[o].try < Len(Chain(o))
         THEN [req EXCEPT ![o].try = @ + 1, ![o].at = "lock"]
         ELSE [req EXCEPT ![o].at = "giveup"]

Skip(o) ==
  /\ At(o, "lock") /\ o \in Proxies /\ Provider(o) \notin configured
  /\ Fallback(o)
  /\ UNCHANGED <<wallet, spentBy, row, accepted, hooks>>

(* createWalletLock: a hold recorded under the key is returned as it is,   *)
(* whatever became of it.                                                  *)
Lock(o) ==
  /\ At(o, "lock") /\ (o \in Proxies => Provider(o) \in configured)
  /\ \/ Wallet!Open(Owner[o], Key[o], Charge)
     \/ holder[Key[o]] = Owner[o] /\ UNCHANGED wallet
  /\ Goto(o, "call")
  /\ UNCHANGED <<spentBy, row, accepted, hooks>>

LockFails(o) ==
  /\ At(o, "lock") /\ (o \in Proxies => Provider(o) \in configured)
  /\ \/ WritesMayFail
     \/ holder[Key[o]] = Nobody /\ free[Owner[o]] < Charge
     \/ holder[Key[o]] \notin {Nobody, Owner[o]}
  /\ Goto(o, "mark")
  /\ UNCHANGED <<wallet, spentBy, row, accepted, hooks>>

(* Seeded fault: the answer of the provider is not looked at.              *)
CallFailsUnseen(o) ==
  /\ At(o, "call") /\ Provider(o) \in configured
  /\ Goto(o, "persist")
  /\ UNCHANGED <<wallet, spentBy, row, accepted, hooks>>

(* callConfiguredProvider: the provider accepts and we learn it, or it     *)
(* does not accept, or it accepts and the answer is lost (a timeout).      *)
Accept(o) ==
  /\ At(o, "call") /\ Provider(o) \in configured
  /\ accepted' = [accepted EXCEPT ![o] = @ \cup {Provider(o)}]
  /\ Goto(o, "persist")
  /\ UNCHANGED <<wallet, spentBy, row, hooks>>

CallFails(o) ==
  /\ At(o, "call") /\ Provider(o) \in configured
  /\ \/ UNCHANGED accepted
     \/ accepted' = [accepted EXCEPT ![o] = @ \cup {Provider(o)}]
  /\ Goto(o, IF Paid(o) THEN "release" ELSE "mark")
  /\ UNCHANGED <<wallet, spentBy, row, hooks>>

Unconfigured(o) ==
  /\ At(o, "call") /\ Provider(o) \notin configured
  /\ Goto(o, IF Paid(o) THEN "release" ELSE "mark")
  /\ UNCHANGED <<wallet, spentBy, row, accepted, hooks>>

(* persistEsimAcceptance, persistProxyAcceptance, persistVpnAcceptance.    *)
Persist(o) ==
  /\ At(o, "persist")
  /\ row' = [row EXCEPT ![o].status = "provisioning", ![o].linked = Provider(o)]
  /\ req' = IF Paid(o) THEN [req EXCEPT ![o].at = "spend"]
            ELSE [req EXCEPT ![o].at = "done", ![o].answer = "accepted"]
  /\ UNCHANGED <<wallet, spentBy, accepted, hooks>>

(* spendWalletLock: a spend recorded under the key answers the request;    *)
(* otherwise the hold must still be open.                                  *)
Spend(o) ==
  LET k == Key[o] IN
  /\ At(o, "spend")
  /\ \/ spentBy[k] # {} /\ UNCHANGED <<wallet, spentBy>>
     \/ /\ spentBy[k] = {}
        /\ Wallet!Close(k, 0)
        /\ spentBy' = [spentBy EXCEPT ![k] = {o}]
  /\ Goto(o, "stamp")
  /\ UNCHANGED <<row, accepted, hooks>>

(* Seeded fault: a spend that is refused does not stop the purchase.       *)
SpendFailsUnseen(o) ==
  /\ At(o, "spend")
  /\ spentBy[Key[o]] = {} /\ Key[o] \notin open
  /\ Goto(o, "stamp")
  /\ UNCHANGED <<wallet, spentBy, row, accepted, hooks>>

(* spendWalletLock refuses a hold that is not active.                      *)
SpendFails(o) ==
  /\ At(o, "spend")
  /\ spentBy[Key[o]] = {} /\ Key[o] \notin open
  /\ Goto(o, "release")
  /\ UNCHANGED <<wallet, spentBy, row, accepted, hooks>>

(* The wallet transaction id is stored with the order.                     *)
Stamp(o) ==
  /\ At(o, "stamp")
  /\ req' = [req EXCEPT ![o].at = "done", ![o].answer = "accepted"]
  /\ UNCHANGED <<wallet, spentBy, row, accepted, hooks>>

(* One of the writes of the request fails: purchaseIntegrationProduct      *)
(* gives the hold back, unless the purchase had already returned.          *)
WriteFails(o) ==
  /\ WritesMayFail
  /\ \/ At(o, "persist") /\ Goto(o, IF Paid(o) THEN "release" ELSE "mark")
     \/ At(o, "spend") /\ Goto(o, "release")
     \/ At(o, "stamp") /\ Goto(o, "mark")
  /\ UNCHANGED <<wallet, spentBy, row, accepted, hooks>>

(* releaseWalletLock, whose failure is ignored.                            *)
Release(o) ==
  /\ At(o, "release")
  /\ \/ Wallet!Close(Key[o], Charge)
     \/ (WritesMayFail \/ Key[o] \notin open) /\ UNCHANGED wallet
  /\ Goto(o, "mark")
  /\ UNCHANGED <<spentBy, row, accepted, hooks>>

(* The order is marked failed, or the next proxy provider is tried.        *)
Mark(o) ==
  /\ At(o, "mark")
  /\ IF o \in Proxies
     THEN Fallback(o) /\ UNCHANGED row
     ELSE /\ row' = [row EXCEPT ![o].status = "failed", ![o].reason = "error"]
          /\ req' = [req EXCEPT ![o].at = "done", ![o].answer = "failed"]
  /\ UNCHANGED <<wallet, spentBy, accepted, hooks>>

(* 'No configured proxy provider accepted the order'.                      *)
GiveUp(o) ==
  /\ At(o, "giveup")
  /\ row' = [row EXCEPT ![o].status = "failed", ![o].reason = "nobody accepted"]
  /\ req' = [req EXCEPT ![o].at = "done", ![o].answer = "failed"]
  /\ UNCHANGED <<wallet, spentBy, accepted, hooks>>

(* The process stops in the middle of a request; nothing resumes it.       *)
Crash(o) ==
  /\ req[o].at \notin {"idle", "done", "crashed"}
  /\ Goto(o, "crashed")
  /\ UNCHANGED <<wallet, spentBy, row, accepted, hooks>>

(* expireWalletLocks.  The hold lives fifteen minutes and a provider call  *)
(* fifteen seconds: requests that are still running keep theirs.           *)
Expire(k) ==
  /\ \A o \in Orders : Key[o] = k => req[o].at \in {"idle", "done", "crashed"}
  /\ Wallet!Close(k, Charge)
  /\ UNCHANGED <<spentBy, row, req, accepted, hooks>>

-----------------------------------------------------------------------------
(* The provider's lifecycle webhooks.                                      *)

request == <<configured, req, accepted, spentBy>>

(* A provider knows what it accepted, and we know an order by the reference*)
(* stored with it.                                                         *)
Known(o) == row[o].linked # "none" /\ row[o].linked \in accepted[o]

(* handleProviderWebhook stores the event and looks up the order: a stored *)
(* event is a duplicate and is dropped.  One without an id gets the clock  *)
(* for an id and is never a duplicate.                                     *)
Receive(h, o, word, id) ==
  /\ handler[h] = NoHandler
  /\ Known(o)
  /\ <<o, word, id>> \notin seen
  /\ seen' = IF id = NoIdent THEN seen ELSE seen \cup {<<o, word, id>>}
  /\ handler' = [handler EXCEPT ![h] =
       [at |-> "update", order |-> o, word |-> word, id |-> id, read |-> Status(o)]]
  /\ UNCHANGED <<wallet, request, row, refunds>>

(* applyProviderLifecycleEvent updates the status, whatever it is by now,  *)
(* and goes on to refund by the status it read.  A status the table does   *)
(* not allow makes the update fail.                                        *)
Update(h) ==
  LET e == handler[h]
      status == Mapped(e.order, e.word) IN
  /\ e.at = "update"
  /\ status \in Statuses(e.order)
  /\ row' = [row EXCEPT
       ![e.order].status = status,
       ![e.order].reason = IF ~Paid(e.order) THEN @
                           ELSE IF status = "failed" THEN "error" ELSE "none"]
  /\ handler' = [handler EXCEPT ![h] =
       IF Paid(e.order) /\ status = "failed" /\ e.read \notin {"failed", "refunded"}
       THEN [e EXCEPT !.at = "refund"] ELSE NoHandler]
  /\ UNCHANGED <<wallet, request, seen, refunds>>

(* Seeded fault: the refund key is not looked up.                          *)
FindRefundNever(h) ==
  /\ handler[h].at = "refund"
  /\ handler' = [handler EXCEPT ![h].at = "credit"]
  /\ UNCHANGED <<wallet, request, row, seen, refunds>>

(* Seeded fault: the order is shown as refunded before it is.              *)
FindRefundShown(h) ==
  LET e == handler[h] IN
  /\ e.at = "refund"
  /\ SetStatus(e.order, "refunded")
  /\ handler' = [handler EXCEPT ![h].at =
                   IF refunds[e.order] > 0 THEN "mark" ELSE "credit"]
  /\ UNCHANGED <<wallet, request, seen, refunds>>

(* refundWallet's look at the refund key, outside its transaction, ...     *)
FindRefund(h) ==
  LET e == handler[h] IN
  /\ e.at = "refund"
  /\ handler' = [handler EXCEPT ![h].at =
                   IF refunds[e.order] > 0 THEN "mark" ELSE "credit"]
  /\ UNCHANGED <<wallet, request, row, seen, refunds>>

(* ... and the transaction.                                                *)
CreditRefund(h) ==
  LET o == handler[h].order IN
  /\ handler[h].at = "credit"
  /\ free[Owner[o]] + Price <= MaxFunds
  /\ Wallet!Earn(Owner[o], Price)
  /\ refunds' = [refunds EXCEPT ![o] = @ + 1]
  /\ handler' = [handler EXCEPT ![h].at = "mark"]
  /\ UNCHANGED <<request, row, seen>>

MarkRefunded(h) ==
  /\ handler[h].at = "mark"
  /\ SetStatus(handler[h].order, "refunded")
  /\ handler' = [handler EXCEPT ![h] = NoHandler]
  /\ UNCHANGED <<wallet, request, seen, refunds>>

(* A write fails or the process stops: the event is stored and will not be *)
(* handled again.                                                          *)
DropEvent(h) ==
  /\ handler[h] # NoHandler
  /\ handler' = [handler EXCEPT ![h] = NoHandler]
  /\ UNCHANGED <<wallet, request, row, seen, refunds>>

-----------------------------------------------------------------------------
Purchase(o) ==
  \/ CreateEsim(o) \/ CreateProxy(o) \/ CreateVpn(o) \/ Skip(o) \/ Lock(o) \/ LockFails(o)
  \/ Accept(o) \/ CallFails(o) \/ Unconfigured(o)
  \/ Persist(o) \/ Spend(o) \/ SpendFails(o) \/ Stamp(o)
  \/ WriteFails(o) \/ Release(o) \/ Mark(o) \/ GiveUp(o) \/ Crash(o)

Webhook(h) ==
  \/ \E o \in Orders, w \in Words, id \in Idents \cup {NoIdent} : Receive(h, o, w, id)
  \/ Update(h) \/ FindRefund(h) \/ CreditRefund(h) \/ MarkRefunded(h) \/ DropEvent(h)

Next ==
  \/ \E u \in Users, a \in 1..MaxFunds : Deposit(u, a)
  \/ \E o \in Orders : Purchase(o)
  \/ \E k \in Keys : Expire(k)
  \/ \E h \in Handlers : Webhook(h)

Spec == Init /\ [][Next]_vars

-----------------------------------------------------------------------------
(* Correctness.                                                            *)

Steps == {"idle", "lock", "call", "persist", "spend", "stamp", "release", "mark",
          "giveup", "done", "crashed"}

(* Every variable has its type, and no row has a status its table refuses. *)
TypeOK ==
  /\ free \in [Users -> Nat] /\ open \subseteq Keys
  /\ holder \in [Keys -> Users \cup {Nobody}] /\ size \in [Keys -> Nat]
  /\ spentBy \in [Keys -> SUBSET Orders]
  /\ \A o \in Orders :
       /\ row[o].status \in Statuses(o) \cup {"none"}
       /\ row[o].linked \in Providers \cup {"none"}
       /\ req[o].at \in Steps /\ req[o].try \in 1..Len(Chain(o))
       /\ accepted[o] \subseteq Providers
  /\ seen \subseteq Orders \X Words \X Idents
  /\ refunds \in [Orders -> Nat]

(* Money is taken for an order only after one of its providers accepted    *)
(* it, whatever fails, times out or is tried again.                        *)
ChargedOnlyAccepted ==
  \A k \in Keys : \A o \in spentBy[k] : accepted[o] # {}

(* An order is answered as accepted only with its own charge recorded:     *)
(* what a provider accepts on a hold that was already given back, expired  *)
(* or spent for something else is refused its spend, and the request fails *)
(* or falls back.  (The call itself is not prevented: a proxy order whose  *)
(* first provider failed makes it.  A key a client reuses for an order of  *)
(* another product charges the two once: Key is one to one where this is   *)
(* checked.)                                                               *)
AcceptedIsCharged ==
  \A o \in Esims \cup Proxies : req[o].answer = "accepted" => o \in spentBy[Key[o]]

(* A failed order is refunded at most once, however often its failure is   *)
(* reported and whatever is reported in between.                           *)
RefundedOnce == \A o \in Orders : refunds[o] <= 1

(* An order shown as refunded has its money back.                          *)
RefundedIsPaidBack ==
  \A o \in Orders : Status(o) = "refunded" => refunds[o] > 0
=============================================================================
