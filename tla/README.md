# Burner Point: TLA+ models, checks and proofs

Burner Point sells phone numbers, verification sessions, messages, calls, eSIMs,
proxies and VPN sessions against a prepaid wallet, and subscriptions. Its API
(`apps/api`, NestJS and TypeORM over Postgres and Redis) is the system modelled
here. What can go wrong in it is mostly one kind of thing: several requests,
webhooks and cron jobs do *sequences* of database writes and provider calls about
the same rows, and any of them can be repeated, delayed, interleaved with another
or cut short.

All paths below are under `src/apps/api/src/modules/` unless they say otherwise.

## 1. The system

| component | state it keeps | operations | interacts with |
|---|---|---|---|
| Wallet ledger (`credits/credits.service.ts`, `users/users.service.ts`) | `wallets` (balance, locked balance), its mirror in `users`, `wallet_locks` (holds), `wallet_transactions` | credit, hold, spend, release, refund, buy call credits, rebind, expire | every product |
| Call-credit ledger (same file) | `credit_accounts`, `credit_locks`, `credit_transactions` | lock, spend, release, refund, expire | calls, other services over internal endpoints, wallet (packages) |
| Connectivity orders (`integrations/`) | `esim_orders`, `proxy_orders`, `vpn_sessions` | create order, provider fallback, lifecycle event | wallet, providers, provider webhooks |
| Provider webhooks (`webhooks/`) | `webhook_dedup` | store and dispatch an event | orders, calls, messages, verifications |
| Payments (`payments/`) | `payment_sessions`, `webhook_dedup`, `transactions` | initialize, five gateways' webhooks, fulfil, reconcile | wallet, gateways, exchange rates |
| Calls (`calls/`) | `calls` | start, voice events, settle | call credits, carriers |
| Numbers (`numbers/`, `lifecycle/`) | `phone_numbers` | provision, renew, release, expire | wallet, carriers |
| Verification hub (`verification/`) | `verification_orders` | create, inbound message or call, cancel, expire | numbers, wallet |
| Messages (`messages/`) | `messages` | send, receive, receipts, read | carriers, developer webhooks |
| Carriers (`global/provider.service.ts`, `providers/`) | none | order of the carriers asked per country | calls, messages, numbers |
| Developer API (`api-platform/`) | `api_keys`, `developer_webhooks`, `developer_webhook_deliveries` | queue, claim, post, retry, give up | all events |
| Subscriptions (`revenuecat/`, `payments/`) | `subscriptions`, `subscription_entitlements`, `revenuecat_events`, `paddle_events` | RevenueCat and Paddle events, refresh | RevenueCat, Paddle |
| Authentication (`auth/`, `phone-auth/`) | `users`, `auth_sessions`, `phone_otp_sessions`, revoked tokens in Redis | register, sign in, exchange, refresh, revoke, two-factor, verify a phone | Supabase, Twilio, Redis |
| Middleware and abuse limits (`middleware/`, `abuse/`) | counters in Redis, `abuse_flags` | count, expire, velocity | every route |
| Prices and exchange rates (`credits/pricing-engine.ts`, `global/fx.service.ts`) | `credit_pricing_rules`, the cached rate | quote, rate of a call, convert, reconcile | wallet, payments, calls |
| Redis and sockets (`global/redis.service.ts`, `gateway/`) | keys with an expiry | get, set, count, expire; every error swallowed | limits, rates, sessions |
| Platform registry, admin, enterprise, growth, support, SEO, AI | rows of their own | single-row updates and read models | |
| Web app, SDK, migrations | table constraints | | |

Hard behaviour, and what makes each component correct:

* **Wallet.** Every operation first looks for its idempotency key *outside* a
  transaction and then works in one. Correct: locked cents are exactly the
  active holds, never more than the balance; both copies of the balance agree; a
  hold is settled once, charged at most once and eventually; a package is paid once.
* **Orders.** Hold, provider call, order row, spend and webhook are separate
  steps. Correct: no charge without an acceptance, no acceptance reported without
  a charge, one refund per failure, no order "refunded" without its money. (A provider
  may be *called* on a hold that is closed; its answer is then not reported as accepted.)
* **Payments.** Events are deduplicated before they are handled, and each
  handler reads and writes the session several times. Correct: no credit without
  a payment, no completed session without its effects, no silent loss; a payment
  in full is accepted whatever became of the rate it was priced at.
* **Calls.** Voice events arrive out of order, repeatedly and on several routes.
  Correct: a call is charged once for the seconds it lasted; its lock is settled.
* **Numbers, verification.** Hold, purchase, row, rebind and spend are separate, the
  carriers are asked without a timeout, and three jobs close what is over. Correct: a
  number answered as provisioned is paid; time given and not paid for is marked, as long
  as no provision writes over the mark; a verification is charged only for a delivery;
  every session ends.
* **Messages, developer webhooks.** Callbacks repeat and overtake each other,
  runs of the delivery job overlap. Correct: one text is one message, every shown
  status is told, a delivery has one worker at a time and is settled truthfully.
* **Subscriptions.** State fetched or carried by an event is old when it is
  written. Correct: a processed event took effect; what is granted is what all
  active subscriptions grant.
* **Accounts.** A handler saves a copy of the row it read before it called
  Supabase or Twilio. Correct: a number shown as verified was confirmed, here or at
  Supabase (with two exceptions of the code, see 4); a refresh token is changed into
  one other.
* **Limits, prices.** Correct: who is turned away comes back; the most specific
  pricing rule is used, a renewal takes no less than what it shows, a rate is recent.

The hazards, each at its line and with the properties that cover it, are `hazards`
in `PROJECT.json`. The note of a hazard says what of it no property refuses; some name no
property at all, because the code does what the hazard fears and has nothing to state.

## 2. Modules

| module | what it is |
|---|---|
| `HoldContract` | abstract: what the wallet promises the product flows |
| `WalletLedger` | the wallet, detailed; implements `HoldContract` |
| `ConnectivityOrders` | orders and lifecycle webhooks, built on `HoldContract` |
| `OrderTurns` | `ConnectivityOrders` with a history of the orders whose webhooks overlapped |
| `PaymentSettlement` | checkout sessions and gateway webhooks |
| `Cents`, `CheckoutAmounts` | rounding; what a checkout costs, the cached rate, reconciliation |
| `PriceRules` | pricing rules, quotes, renewals, call rates |
| `CarrierRoutes` | the order in which carriers are asked |
| `CallBilling` | outbound calls, voice events and the credit account (uses `CarrierRoutes`) |
| `NumberLifecycle` | numbers, their holds and the jobs over them |
| `VerificationHub` | verification orders composed with `NumberLifecycle` |
| `DeveloperWebhooks` | the delivery queue |
| `Messaging` | texts, callbacks and receipts composed with `DeveloperWebhooks` |
| `Subscriptions` | RevenueCat and Paddle subscriptions |
| `Accounts` | the users row, sessions, two-factor, phone verification |
| `RateLimits` | the counters before every route |
| `MCWallet`, `MCCustomers`, `MCOrders`, `MCOrderFlows`, `MCPayments`, `MCCheckouts`, `MCCalls`, `MCNumbers`, `MCMessages`, `MCSubscriptions`, `MCPrices` | instances for TLC |
| `WalletLedgerProofs`, `OrderProofs`, `PaymentProofs`, `CallProofs`, `NumberProofs`, `WebhookProofs`, `CustomerProofs`, `PriceProofs` | invariants and theorems |

`ConnectivityOrders` uses an INSTANCE of `HoldContract` for its wallet rather than
the ledger itself: `WalletLedger => HoldContract` is checked (`wallet_contract`)
and proved (`WalletImplementsContract`), so the orders are checked against the
promise and not against one implementation of it. An MC module with a `scope`
variable puts two or more small instances that share nothing into one run; a
behaviour stays in the scope it began in.

### WalletLedger

| state | code |
|---|---|
| `balance`, `locked`, `mirror` | `wallets.balance_usd_cents`, `wallets.locked_balance_usd_cents`, `users.wallet_balance_usd_cents` |
| `hold` | `wallet_locks`, by the unique idempotency key of `createWalletLock` |
| `due` | holds whose `expires_at` has passed |
| `rows` | `wallet_transactions`: rows of a reference id and type |
| `bought`, `purchased` | `credit_transactions` of type PURCHASE, `credit_accounts.lifetime_credits_purchased` |
| `inflight` | requests between their pre-check and their transaction |
| `charged`, `drift` | history variables: cents debited against a hold; cents moved by stale rebinds |

`AdmitX` is the pre-check of operation X outside a transaction, `CommitX` its
transaction. A transaction takes the wallet row with `FOR UPDATE` before it reads
anything, so it is one step. `Abandon` is any request that ends without a commit
(a refusal, a database error, a crash). CHECK constraints of the tables are
guards of the commit. `CommitRebind` is different: `rebindWalletLockEntity` reads
the hold without a lock and `save`s it, which writes every column that differs
from the row as it has become.

### ConnectivityOrders

One request is Create, Lock, Accept / CallFails / Unconfigured, Persist, Spend,
Stamp; or Release and Mark after a failure, with Skip, Fallback and GiveUp for the
two proxy providers. One webhook is Receive (dedup and lookup), Update, FindRefund,
CreditRefund, MarkRefunded. Each is a separate database write or call in the code
and a separate action here, and between any two of them others run, a write may
fail (`WriteFails`, `LockFails`, `DropEvent`) and the process may stop (`Crash`). A
call that fails may have been accepted (a timeout). `accepted` is the
provider's own knowledge. The lifetime of a hold (15 minutes) exceeds a provider
call (15 seconds), so `Expire` leaves running requests alone. The transfer price
(`Charge`, what pricing quotes) and the recorded price (`Price`, what a refund
returns) are different constants, as in the code. `OrderTurns` adds `together`, the
orders two of whose webhooks were handled at the same time: `RefundedInTurn` is about all
others, and `order_refund_twice` shows why.

### PaymentSettlement

`EventId` is the dedup key each handler really builds, `Verdict` what it does
with an event. `Receive` is `recordWebhookOnce`; `Fulfil`, `Verify` / `Refuse`,
`Claim`, `Credit`, `Enter`, `Complete` / `EffectFails` are the steps of
`fulfillPayment`; `MarkRead` and `MarkWrite` the read and the write of
`markPaymentStatusFromWebhook`; `Die` a handler that ends anywhere. Only two kinds
of session exist: wallet funding (a credit and a transactions row), and web
subscriptions, which go through Paddle and have no effects here (they are
activated by subscription events). Rental checkout is refused by
`assertPaymentInput`, so its effects are unreachable. Paddle's own event table is
subsumed by the dedup table it is written with.

### CheckoutAmounts and PriceRules

`CheckoutAmounts` is `initializePayment` up to the session row, `FxService` and
`isReconciled`: a checkout reads the cached rate, asks the rate provider if there is
none, stores what it got, converts and rounds (`Cents`), and later compares the
report of the gateway. `market` is the true rate of every tick, `cache` the Redis key
with its expiry. `isReconciled` compares the reported minor amount with the price in
US cents first, whatever the currency; the model does so too, and "paid" in
`PaymentSettlement` means what it accepts. `PriceRules` holds `credit_pricing_rules`
while an operator writes and edits them; a request reads the table (`table`), picks a
rule by the weights of the code, and prices a quote, a renewal or a minute of a call.

### CallBilling

| state | code |
|---|---|
| `balance`, `locked` | `credit_accounts.credit_balance`, `locked_credit_balance` of one user |
| `lock`, `extra` | `credit_locks`: the lock a call is started with; the additional one an event's settlement makes |
| `other`, `due` | `credit_locks` of other services; those the expiry job has listed |
| `keys` | `credit_transactions.idempotency_key` of the spends, releases and refunds |
| `row` | `calls`: status, the carrier whose id is saved (`sid`), duration, `credits_spent`, whether a shortfall is noted (`short`), `processedVoiceEvents` (`done`) |
| `dialed`, `seen` | calls each carrier has placed, known to us or not; `webhook_dedup` |
| `starter`, `handler` | requests and voice events being handled, a handler with the copy of the row it read |
| `charged`, `broken` | history: credits debited for a call; calls a request or handler of which was cut short |

`startOutboundCall` takes the lock, creates the row and has the carriers of
`CarrierRoutes` dial one after the other; a failed dial may have placed the call, and
then its events are unknown to us for good. If none took it the lock is given back and
the row saved as failed. A voice event is Receive, then for a completion
SettleFromLock and, when the call cost more, TakeExtra and SpendExtra or ExtraFails;
for a failure SettleFailure; and Save, which writes the copy over whatever the row has
become. `LockGone` is the ledger's refusal when another handler settled the lock first.
Bandwidth's events come in on two webhook addresses (`Doors`) with dedup keys of their
own. Status words go through the two mappings of the code (`VoiceStatus`,
`StoredStatus`) in their order; the price through `Cost`, checked against the reference
`Price` inside ShownIsCharged and ChargedOnce.

### NumberLifecycle and VerificationHub

| state | code |
|---|---|
| `hold`, `funds` | `wallet_locks` of provisions (by key) and renewals (by number and the expiry that was read); how many prices the wallet can pay |
| `row`, `elapsed` | `phone_numbers`: status, periods given, `metadata.paymentStatus` (`mark`), `auto_renew`; the periods that are over |
| `held` | the numbers a carrier keeps for us, known to us or not |
| `request`, `renewal`, `leaving` | `provision`, `renew`, `release`, each between two of its writes or calls |
| `job`, `sweep`, `watch` | what the hourly job, the minute job of holds and the minute job of orders have still to do by the list they took |
| `order`, `linked`, `creating`, `canceling` | `verification_orders.status`, its number, `createOrder`, `cancelOrder` |
| `inbox`, `got` | the handler of an inbound message or call; history: the numbers something was stored for |
| `cut`, `erased` | history: numbers a renewal of which stopped half way; numbers whose mark of a failed renewal a provision wrote over |

`provision` is Lock, Buy, Save, Rebind, Link, Charge, with GiveBack after a failure; a
hold may expire at any of them, because the carriers are asked without a timeout. Link
writes the metadata that was saved with the row a second time and so takes away whatever a
renewal wrote there since. The hold of a verification stays open after it. `renew` locks
by the expiry it read, extends the row, and spends last. Three jobs close a session
(`expireOrders`, the expiry of holds, the hourly expiry of numbers), and each works by a
list read before. `VerificationHub` EXTENDS `NumberLifecycle` and lets `createOrder` and
`cancelOrder` call its actions.

### Messaging and DeveloperWebhooks

A send tries the carriers of its chain (a lost answer may leave two of them with the
text), stores the row with the status the carrier's answer tells (`Answered`), and queues
its event; a callback is looked up by its dedup row,
stored as a message and announced; a receipt writes the status as it comes. A queued
event becomes one `delivery` per webhook that asked for it. A run of the job
(`processDueDeveloperWebhookDeliveries`) lists what is due with the attempt counts of
that moment (`todo`), claims a row by a conditional update (`now`), posts, and writes the
outcome; `posts` is the receiver's own knowledge. Runs may stop anywhere, answers may be
lost, and a webhook may be deleted meanwhile.

### Subscriptions

A RevenueCat event or a refresh FETCHES the customer (`store`, a sequence of states) and
writes the state it got in one transaction; a Paddle event CARRIES the state of one
subscription, saves its row and rebuilds the user's entitlements in separate reads and
writes. `known` and `processed` are the two marks of `revenuecat_events`; `paddle` says
how far an event got through its two tables. `torn` and `loose` note overlapping
writers, about which the properties promise nothing.

### Accounts

`account` is the `users` row as the handlers of registration, sign-in, the exchange of a
Supabase session and phone verification use it. TypeORM's `save` is two steps: it reads
the row again and compares (`Compare`), then writes the columns in which the handler's
copy differs (`Update`). `supabase` is Supabase's user with the number it has confirmed,
which the customer may do and change there (`ConfirmAtSupabase`). A login keeps the number
of the row and adds Supabase's mark to it, of whichever number that is (`Synced`); an
exchange takes the number over with the mark (`Profiled`). `borrowed` notes the numbers a
login marked by the confirmation of another. `session`, `blocked` are `auth_sessions` and
the revoked tokens in Redis; `code` is `phone_otp_sessions` with its send and attempt
limits. `mixed` and `crossed` note a save that another handler's write split, and two
refreshes that passed the check together; the code lets both happen.

### RateLimits

A request passes the counters of its route (`Counters`) one after the other. INCR and
EXPIRE are two calls, and `RedisService` turns an error into "not limited"; after them
the velocity of the request's action is read over all windows and counted. `left` is the
time a key has still to live. A counter whose only EXPIRE is lost never ends, and the
client is turned away for good: `TurnedAwayReturns` speaks of keys that have an expiry.

## 3. Runs

| run | module | bounds | shows |
|---|---|---|---|
| `customers` | MCCustomers | wallet: 1 user, 2 holds (one rebound), 2 keys, 2 requests, amounts of 1, balance up to 2. Account (phone, sign in, sessions, authenticator): 2 visits, 2 phones, one of which Supabase confirms, 2 seconds, 2 codes, limits of 1 or 2 | HoldsAccounted, NeverOvercommitted, MirrorAgrees, PurchasePaidOnce, SettledIsFinal; VerifiedWasConfirmed, RefreshedOnce |
| `wallet_contract` | MCWallet | 2 users, 1 hold, 1 key, 2 requests, amounts up to 2 | ChargedAsSpent, HoldsSettle, ImplementsContract |
| `orders` | MCOrderFlows | purchases: an eSIM and a proxy order, every failure. Webhooks: 1 order, 2 webhooks at a time (a proxy order: 1) | ChargedOnlyAccepted, AcceptedIsCharged, RefundedInTurn, RefundedIsPaidBack |
| `order_refund_twice` | MCOrders | an eSIM order, 2 webhooks without id | violation of RefundedOnce |
| `payments` | MCCheckouts | settlement: 1 session, 5 gateways, 2 payments, 2 handlers, all failures. Limits: the shortest and the longest route, 2 requests, maxima of 1, expiries up to 2 ticks, 1 failing call | CreditsArePaid, CompletedIsDelivered, GapIsReviewed, PaidIsSettled; TurnedAwayReturns |
| `payments_lost` | MCPayments | 1 NOWPayments payment, no failures | violation of AnsweredIsReconciled |
| `calls` | MCCalls | calls: 1 call, 2 start requests, 4 events on 3 routes, 2 handlers, 2 credits, all failures. Others: 1 lock of another service beside a call started and completed | CreditsAccounted, ChargedOnce, ChargedOrReturned, ShownIsCharged, EndedIsSettled |
| `call_unanswered` | MCCalls | 1 call that rings and is not answered, no failures | violation of UnansweredIsReleased |
| `numbers` | MCNumbers | 2 numbers; a rental renewed once by owner and job, a burner number asked for twice with one key, or 1 verification; 1 price in the wallet | AnsweredIsPaid, UnpaidTimeIsMarked, ChargedIsDelivered, SessionsEnd |
| `messages` | MCMessages | 5 sets of actors out of 3 sends, 3 callbacks, 2 receipts, 1 reader; 2 webhooks, 2 runs, 2 attempts | ReceivedOnce, StatusIsTold, OneAtATime, SettledIsTrue, QueuedIsSettled |
| `subscriptions` | MCSubscriptions | 1 customer with 2 changes and 2 requests, or 2 Paddle subscriptions and 2 handlers; 1 failure | ProcessedIsApplied, GrantsAreBacked, EventsAreApplied |
| `prices` | MCPrices | 5 requests against 2 of 10 rules, or 2 checkouts on 3 gateways over 4 ticks with 2 rates | MostSpecificRule, RenewalCoversShown, RateIsRecent, FullPaymentIsReconciled |

Why the bounds suffice. The races are between two actors on one row, so two
requests (or handlers) on shared rows meet every pairwise interleaving; a third
would only repeat one of them. Users share nothing but the table, so one user
carries the races and two show that nothing leaks between them. Amounts of 1
decide "available or not"; partial spends need amounts of 2 and are in
`wallet_contract`. `MaxBalance`, `MaxFunds` cap what deposits and refunds build up
and `MaxOrders` caps creations; they cut histories short and hide no step. Two
payments per session are what it takes for a customer to pay again after a failure,
or twice. A call of 61 seconds costs two credits where one was locked, so two
credits decide whether the additional debit can be paid; events that complete a
call with and without a duration, fail it and merely ring meet in every order. One
price in the wallet makes two holds of one key compete. Two attempts of a delivery are
the least that tells a retry from the last try. Two rules are what it takes for one to
be passed over. Two ticks of cache and one of waiting let a rate be stored late and
read at its end. The theorems do not depend on any of these bounds. The sets of actors
in `messages` and the scopes of other runs keep the products small: a scope holds
everything that writes the same rows.

Every run says CHECK_DEADLOCK FALSE: keys, orders and payments are finite here and
get used up, after which nothing is left to do.

**Fairness.** No client ever has to do or repeat anything.

* `WalletLedger!FairSpec`: time passes and the minutely job gets to each due hold.
* `PaymentSettlement!FairSpec`: a running handler goes on (Node runs it to its end unless
  it dies, and `Die` stays possible throughout) and a gateway repeats an event that was
  not answered with success, which is what all five do. `PaidIsSettled` excludes sessions
  a handler died in, because nothing in the code picks those up again, and sessions of
  which a failure or a waiting state was reported too.
* `CallBilling`: a running request or handler goes on; a carrier has to report nothing.
  `EndedIsSettled` begins where a final event was taken up or a start gave up, and
  excludes calls a step of which was cut short: the lock of a call has no expiry, and
  nothing in the code takes it up again.
* `VerificationHub!FairSpec`: time passes and the minute jobs of sessions run; the request,
  the cancellation and the message may all stop.
* `Messaging`: the job runs every minute, and a back-off ends.
* `Subscriptions`: RevenueCat repeats an event not answered with success and there is a
  request to be had for it (strong, because requests are occupied by others now and
  then); a request goes on. Paddle's side has no liveness: an event whose handler failed
  is answered as a duplicate when it comes again.
* `RateLimits`: time passes.

## 4. What the violated runs show

They state what the repository says and are violated by what its code does; the
lines are quoted under `findings` in `PROJECT.json`.

* `order_refund_twice`: two deliveries of one failure refund the wallet twice.
* `payments_lost`: a NOWPayments payment that was reported waiting is never
  fulfilled, because the dedup id ignores the state.
* `call_unanswered`: the webhook layer reads "no-answer" as "answered", so the
  credits of a call nobody took stay locked. The repository's test of this case
  calls the layer below.

Other behaviour a reader may not expect is excluded from a property by name, at the
property: `borrowed`, `mixed`, `crossed` (Accounts), `torn`, `loose` (Subscriptions), `broken`
(CallBilling), `cut`, `erased` (NumberLifecycle), `lost` (PaymentSettlement), `drift`
(WalletLedger). Each is something the code lets happen. Two are worth a line here: a login
shows the row's number as verified when Supabase has confirmed a different one
(`supabase-auth.service.ts:823` and `:829`), and a provision that is not done takes away the
mark of a renewal that failed meanwhile (`numbers.service.ts:116`).

Not refused by any property, and not excluded either because none speaks of it: the
fallback provider of a proxy order is called on the hold the first attempt gave back; an
order is refunded before it is charged, or failed by a webhook whose handler stops and not
refunded; a late receipt overwrites a later status; a text called back under two ids is
stored twice; a run that stops leaves its delivery "delivering"; a rule is edited between
quote and use; a renewal adds the margins a second time.

## 5. Proofs

All results are for every value of the constants. The assumptions are the named ASSUMEs
of the modules, which TLC evaluates on every run: types and finite sets, and of values

* `WalletAssumption`, `PaymentsAssumption`, `CallsAssumption`, `OrdersAssumption`: prices,
  rates and packs are positive; a product is of one kind; an order has an owner.
* `PricesAssumption`, `CheckoutAssumption`: a percentage is taken of something; a unit of
  a rate's currency is worth no more than a dollar.
* `MessagingAssumption`, `NumbersAssumption`, `SubscriptionsAssumption`,
  `StatesAssumption`, `ToldAssumption`, `AccountsAssumption`: identifiers of different
  things differ; what a provider tells is among what the model takes from it; limits and
  attempts are at least one.

Some theorems say more in their statement: `AcceptedOrdersAreCharged` and
`ChargesAreDelivered` assume that no key is used for two orders, `WalletImplementsContract`
that no hold is rebound, `ShownIsPaid` what carriers report (below); `ChargedOnlyAsSpent`
and `SettledHoldsAreFinal` are about holds that are not rebound.

`WalletLedgerProofs`. `HoldsAccounted` is not inductive alone: that unlocking a hold
subtracts exactly its cents needs the type invariant, that a row which does not
exist is blank (`AbsentRowsBlank`), and that the cents of a user's active holds are
counted once per hold. The count is the cardinality of the set of pairs <hold,
cent>, so a lemma per change of one hold (opened, closed, reactivated) reduces each
action to `FS_Union` and `FS_Interval`. `NeverOvercommitted` rests on the database's
own comparisons in each commit, `MirrorAgrees` on the balance alone. `PurchasePaidOnce`
is inductive with the types: a commit that gets past the unique key found it unused by
any user, so the set of a user's paid keys grows by one (`FS_AddElement`). For holds that
are never rebound a spend in flight cannot charge twice because its status is read again
under the row lock; hence `ChargedAsSpent` and `SettledIsFinal`.
`WalletImplementsContract` shows that with no rebound hold every step of the ledger is a
step of `HoldContract` or a stutter: `CommitHold` opens, `CommitSpend` closes and returns
what was not spent, `CommitRelease` and `ExpireHold` close and return everything,
`Deposit` and `CommitRefund` earn, `CommitBuy` pays, everything else stutters.

`OrderProofs`. `OrdersInv` says what it takes to be at a step: a request that persists,
spends or stamps has an acceptance, a hold is recorded as spent only for accepted
orders, a request past the spend finds its charge under its key (so one that a provider
accepted on a closed hold never gets past it), a webhook about to
show a refund finds it in the ledger. The type invariant, which includes the CHECK
constraints of the three tables, needs the mapping of words per product
(`mapProviderLifecycleStatus`). `TurnInv` adds, for orders outside `together`, that a
webhook about to credit the wallet does so for an order not refunded yet; the one before
it was through, because two never were there at once.

`PaymentProofs`. `CreditsArePaid` bounds credits by payments, but the code never
compares the two: a session may be claimed again after a late "waiting" made it
pending. What bounds it is the dedup table. The strengthening counts the payments
*consumed*: those whose id is recorded and which no handler is still on its way
with. `CreditsConsumed` says that credits never exceed them. It is inductive
with `HandledOnce` (handlers on their way hold recorded ids, all different, of
finished events, and have verified the payment before they claim) and `Opened` (ids
depend on the session's gateway, which is fixed once the customer can pay). A
credit moves its own payment from "on its way" to consumed (`CreditConsumes`); no
other step takes one back (`ConsumedGrows`). One lemma (`HandlerStep`) reduces the
eleven actions of a handler to what they do to handler, session and ledger.
`CompletedIsDelivered` and `GapIsReviewed` rest on a second invariant, `DeliveryInv`:
of a session that is neither reviewed nor lost, credits exceed rows by no more than
the number of handlers between the two (`GapsCounted`), and a handler that is about to
complete one finds both (`InHand`).

`WebhookProofs`. `HooksInv`: a run that holds a delivery is the only one to, and its row
says "delivering" (or what the run has just written, or "deleted"). Claims are
conditional on the row, so no second run gets in; only the deletion of the webhook takes
a claimed row away, and then nothing is written. The attempt counts runs go by are
stale but never above the number of posts made (`TrueHand`), so a row given up was
posted as often as is promised.

`TextInv`: a callback that got past the unique `event_id` is the only one with its id, whether
it is in hand, stored or only queued; and a status of a text is about to be told or is in a
delivery. It also needs that a reader who saves an old copy of a text saves one that was
stored (`ReadsStored`). `StatusIsTold` leaves out the status a text is stored with,
whatever the carrier answered: a receipt that says the same changes nothing.

`NumberProofs`. `NumbersInv`: a spent hold stays spent; an open renewal is from an expiry
the number had; the last period given is paid or marked or has a renewal about to
charge it (two renewals from one expiry share a hold, so one's charge pays for both), but
for numbers in `cut` and `erased`, which only grow: Link is the one step that takes a mark
away, and notes it;
the open hold of a session only ever becomes that of the session's own number, so what
spends it is a message for that number.

`CallProofs`. Every step of a request, a handler or a job is one
of a few to the account (`AccountSteps`), so the ledger is reasoned about once: the locked
balance is the total of the active locks, counted as in the wallet's proof (`LedgerStep`),
and what a user has is what was bought less what was charged. `Money` ties the recorded
keys to the locks: a lock is spent exactly when some event of its call recorded the spend,
an additional lock is spent only for the event that spent the first, and the sum of the
two is what was charged. `ChargedOnce` and `ChargedOrReturned` follow with lemmas about
`Cost` (started minutes, rounded up, at least one). `ShownInv` is about copies: what a
handler is going to save it read from a row or charged itself (`HandlersHeed`), so rows
never show more than was taken, whichever copy is written last (`RowsShow`). It needs
`Reports`: a carrier reports a duration only for a call that is over or failed, and does
not answer a request to dial with "completed". Without it a row may be given a duration
nobody settled; the code takes durations from any event and relies on the carriers here.
The configurations of `calls` satisfy it.

`CustomerProofs`. `StoreInv`: a sync that was not overlapped fetched the customer after
the last that wrote, so it saw every change whose event is done (`StoreSyncs`), and the
rows are as it wrote them (`StoreRows`): an event marked processed is in them.
`PaddleInv`: a rebuild that was not overlapped has saved exactly what active subscriptions
grant among the entitlements it is through with (`Rebuilds`), so at its end all are right
(`Granted`), and whoever is on the way will make them so. `AccountInv`: every copy of the
users row, in a handler, between the two halves of a save, or in the table, says verified
only of a number that was confirmed here or at Supabase, or borrowed its mark in a login,
unless two saves mixed (`CopyConfirmed`); what a request carries from Supabase was
confirmed there; a token that was exchanged is revoked in the session's row, so whoever
still refreshes it passed the check beside the one who did (`TokensOnce`). The row is
compared and written column by column, so the proof follows each save through what it
found, what it has and what it writes.

`PriceProofs`. A rule is picked by the highest score and, among equals, the first:
such a rule exists by well-foundedness (the candidate that fewest beat is beaten by none,
`FirstExists`), and it is the most specific because of a fact about the weights alone: a
rule that names all another does and more, with a prefix no shorter, scores more. The
property was first stated with any longer prefix as more specific; the attempt to prove it
showed, and TLC confirmed with a rule of a long prefix added to `MCPrices`, that prefix
digits may outweigh columns, and that a rule's carrier counts only when the request names
one. `MostSpecificRule` says what the code does. Checkouts: `RateFrom` bounds the ticks
of the market the rate in the cache, in a fetch and in a priced checkout can come from
(Ttl, or Ttl and the wait of a fetch); `FullPaymentIsReconciled` follows from the rounding
lemmas of `Cents`: a converted amount is at least the price in cents, so the comparison
that looks at cents first never refuses a payment in full.

Every safety invariant and action property of the passing runs is stated by a theorem. Only
model-checked are the seven liveness properties, `HoldsSettle`, `PaidIsSettled`,
`EndedIsSettled`, `SessionsEnd`, `QueuedIsSettled`, `EventsAreApplied` and
`TurnedAwayReturns`: fairness and ENABLED are out of the prover's reach. No module uses a
recursive operator.

## 6. What the models take for granted

* Postgres transactions with row locks are one step. `save` of TypeORM writes the columns
  in which the entity differs from the row it reads again.
* Columns and constraints are those of the entities and migrations. Where they differ the
  entity is the reference: `messages.status` of migration 0001 does not list `read`, and
  `messages_type_check` does not list `voicemail`.
* A naira is worth less than a dollar. The price of a Paddle transaction is that of the
  plan.
* Providers report only the words the two mappings know, or one they do not
  ("something else").
* A key a client reuses for two products charges them once; where this matters keys are
  one to one, and the module says so.

## 7. Not modelled

* Row-lock order (lock-order deadlocks are out of sight), the pages of the jobs (200
  holds, 100 deliveries).
* Signature checks, the inspection of payloads, credential encryption, the formats of
  gateways' requests, audit rows, notifications, sockets (best effort).
* Inbound calls' own rows, recordings and voicemail; provider health (nothing writes
  "down").
* Phone-only accounts, sign-in by phone code through Supabase (`verifyPhoneOtp`, which
  like a login sets the mark of the local row by Supabase's word), passkeys, OAuth,
  password resets, the 30 days of a session and the minutes of a code (a code may lapse at
  any time instead); AbuseService's flags beyond the velocity.
* Functions nothing calls: `debitWallet`, `reserveVerificationWalletAmount`,
  `recordInboundMessage`, `createVerificationOrderViaAdapter`, `growth.processReferral`, and
  `assignPaidNumber`, which only the refused rental checkout reaches; the poll of
  verifications, which asks only for orders of providers no order is made at.
* Message templates, lists, read models, static registries, admin, enterprise, growth,
  support, SEO and AI: single-row updates and queries. The web app and the SDK:
  presentation and transport.

## 8. What is left

1. `NumberLifecycle` keeps holds of its own, coarser than `HoldContract`; an INSTANCE of the
   contract as in `ConnectivityOrders` would join the two.
2. Abstract specifications of the call-credit ledger and of the delivery queue, to be
   implemented by `CallBilling` and `DeveloperWebhooks` as the contract is by the wallet.
3. API keys and their guard; billing-v2's plan presentation.
