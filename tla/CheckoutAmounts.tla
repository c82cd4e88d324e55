--------------------------- MODULE CheckoutAmounts ---------------------------
(***************************************************************************)
(* The amounts of a checkout: what a package or plan costs, what that is   *)
(* in the currency of the gateway at a rate that is cached for all         *)
(* requests, and whether what was paid is taken for it.                    *)
(*                                                                         *)
(* Time is counted in ticks; the market moves between two.  Rates are      *)
(* naira for a dollar, in hundredths.  PaymentSettlement has the rest of a *)
(* session's life.                                                         *)
(***************************************************************************)
EXTENDS Cents, Sequences

CONSTANTS Checkouts, \* requests for a checkout
          Gateways,  \* the gateways that are switched on
          Items,     \* what can be asked for: records of kind and price
          Rates,     \* rates the market may have
          Ttl,       \* FX_CACHE_TTL_SECONDS, in ticks
          Timeout,   \* the ticks the rate provider is waited for
          MaxTime    \* bound: ticks

(* A naira is worth less than a dollar.                                    *)
ASSUME CheckoutAssumption ==
  /\ Gateways \subseteq {"paystack", "flutterwave", "korapay", "nowpayments", "paddle"}
  /\ Rates \subseteq Nat /\ \A r \in Rates : r >= 100
  /\ Ttl \in Nat \ {0} /\ Timeout \in Nat /\ MaxTime \in Nat
  /\ \A i \in Items : i.kind \in {"wallet", "subscription"} /\ i.price \in Nat \ {0}

VARIABLES market,  \* the rate of every tick so far
          cache,   \* fx:USD:latest in Redis
          checkout \* the requests and their payment sessions

checkoutvars == <<market, cache, checkout>>

-----------------------------------------------------------------------------
(* Data.                                                                   *)

Now == Len(market)

(* The rate, expiresAt, and the end of the key's life in Redis.            *)
NoCache == [rate |-> 0, until |-> 0, kept |-> 0]

(* What a gateway says was paid; amount and currency may be missing.       *)
NoReport == [amount |-> 0, currency |-> "none"]

(* rate: the one used, at tick when; until: as in the cache; asked: the    *)
(* amount asked of the payer.                                              *)
NoCheckout == [at |-> "new", gateway |-> "none", price |-> 0, rate |-> 0,
               when |-> 0, until |-> 0, asked |-> 0, report |-> NoReport]

CheckoutInit ==
  /\ \E r \in Rates : market = <<r>>
  /\ cache = NoCache
  /\ checkout = [c \in Checkouts |-> NoCheckout]

-----------------------------------------------------------------------------
(* Gateways, currencies and amounts.                                       *)

(* assertGatewayAllowed.                                                   *)
Allowed(gateway, item) == (gateway = "paddle") <=> (item.kind = "subscription")

Currency(gateway) == IF gateway \in {"paddle", "nowpayments"} THEN "USD" ELSE "NGN"

(* convertUsdCentsToMinor.                                                 *)
Minor(cents, rate) == Larger(1, Nearest(cents * rate, 100))

(* Seeded fault: the currency of the session's price.                      *)
ExpectedDollars(session) == "USD"
ExpectedCurrency(session) == Currency(session.gateway)

(* isReconciled: what was received, in the gateway's currency, against the *)
(* session's price in cents.                                               *)
Reconciled(session, report) ==
  \/ report = NoReport
  \/ /\ report.currency \in {"none", ExpectedCurrency(session)}
     /\ report.amount = 0 \/ report.amount >= session.price

-----------------------------------------------------------------------------
(* A checkout.                                                             *)

(* Seeded fault: the key's life in Redis is all that ends the rate's.      *)
CachedInRedis == IF cache.kept > Now THEN cache ELSE NoCache

(* readCache.                                                              *)
Cached == IF cache.kept > Now /\ cache.until > Now THEN cache ELSE NoCache

(* initializePayment up to resolveSettlementAmount: dollars are asked as   *)
(* they are, naira need a rate.                                            *)
Start(c, gateway, item) ==
  /\ checkout[c].at = "new" /\ Allowed(gateway, item)
  /\ checkout' = [checkout EXCEPT ![c] =
       IF Currency(gateway) = "USD"
       THEN [@ EXCEPT !.at = "priced", !.gateway = gateway, !.price = item.price,
                      !.asked = item.price]
       ELSE [@ EXCEPT !.at = "rating", !.gateway = gateway, !.price = item.price]]
  /\ UNCHANGED <<market, cache>>

(* getRate: the cached rate, or the provider's; requests that miss each    *)
(* ask it.                                                                 *)
Look(c) ==
  /\ checkout[c].at = "rating"
  /\ checkout' = [checkout EXCEPT ![c] =
       IF Cached # NoCache
       THEN [@ EXCEPT !.at = "priced", !.rate = Cached.rate, !.when = Now,
                      !.asked = Minor(checkout[c].price, Cached.rate)]
       ELSE [@ EXCEPT !.at = "asking", !.when = Now]]
  /\ UNCHANGED <<market, cache>>

(* fetchRates: the provider answers with a rate of the time it was asked   *)
(* in ...                                                                  *)
Fetch(c) ==
  /\ checkout[c].at = "asking" /\ Now <= checkout[c].when + Timeout
  /\ \E t \in checkout[c].when..Now :
       checkout' = [checkout EXCEPT ![c].at = "fetched", ![c].rate = market[t],
                                    ![c].when = Now, ![c].until = Now + Ttl]
  /\ UNCHANGED <<market, cache>>

(* ... or not at all: no checkout without a rate.                          *)
FetchFails(c) ==
  /\ checkout[c].at = "asking"
  /\ checkout' = [checkout EXCEPT ![c] = [NoCheckout EXCEPT !.at = "unavailable"]]
  /\ UNCHANGED <<market, cache>>

(* Whoever stores last is cached, also with the older rate.  A Redis that  *)
(* fails is not noticed.                                                   *)
Store(c) ==
  /\ checkout[c].at = "fetched"
  /\ cache' \in {cache, [rate |-> checkout[c].rate, until |-> checkout[c].until,
                         kept |-> Now + Ttl]}
  /\ checkout' = [checkout EXCEPT ![c] =
       [@ EXCEPT !.at = "priced", !.until = 0,
                 !.asked = Minor(checkout[c].price, checkout[c].rate)]]
  /\ UNCHANGED market

(* The session is saved, with its price in cents and the currency of the   *)
(* gateway.                                                                *)
SaveSession(c) ==
  /\ checkout[c].at = "priced"
  /\ checkout' = [checkout EXCEPT ![c].at = "initializing"]
  /\ UNCHANGED <<market, cache>>

(* The gateway is asked for the amount; Paddle for its own price, which is *)
(* taken to be the plan's.                                                 *)
Open(c) ==
  /\ checkout[c].at = "initializing"
  /\ checkout' = [checkout EXCEPT ![c].at = "pending"]
  /\ UNCHANGED <<market, cache>>

OpenFails(c) ==
  /\ checkout[c].at = "initializing"
  /\ checkout' = [checkout EXCEPT ![c].at = "initialization_failed"]
  /\ UNCHANGED <<market, cache>>

(* The verification of a payment, of the whole amount or of part of it:    *)
(* the gateway's report, of which amount or currency may be missing.       *)
Verify(c) ==
  /\ checkout[c].at = "pending"
  /\ \E amount \in {0, checkout[c].asked, checkout[c].asked \div 2},
       currency \in {"none", "USD", "NGN"} :
       LET report == [amount |-> amount, currency |-> currency]
       IN checkout' = [checkout EXCEPT ![c] =
            [@ EXCEPT !.report = report,
                      !.at = IF Reconciled(checkout[c], report) THEN "paid" ELSE "refused"]]
  /\ UNCHANGED <<market, cache>>

-----------------------------------------------------------------------------
(* The world.                                                              *)

Tick(r) ==
  /\ Now < MaxTime
  /\ market' = Append(market, r)
  /\ UNCHANGED <<cache, checkout>>

(* Redis loses the key.                                                    *)
Forget ==
  /\ cache # NoCache
  /\ cache' = NoCache
  /\ UNCHANGED <<market, checkout>>

CheckoutNext ==
  \/ \E c \in Checkouts :
       \/ \E g \in Gateways, i \in Items : Start(c, g, i)
       \/ Look(c) \/ Fetch(c) \/ FetchFails(c) \/ Store(c)
       \/ SaveSession(c) \/ Open(c) \/ OpenFails(c) \/ Verify(c)
  \/ \E r \in Rates : Tick(r)
  \/ Forget

CheckoutSpec == CheckoutInit /\ [][CheckoutNext]_checkoutvars

-----------------------------------------------------------------------------
(* Correctness.                                                            *)

(* getRate: the rate a checkout was priced at was the market's not longer  *)
(* ago than the cache keeps a rate and the provider is waited for, however *)
(* requests miss the cache together, store late and overwrite each other.  *)
RateIsRecent ==
  \A c \in Checkouts :
    LET k == checkout[c]
    IN k.asked # 0 /\ Currency(k.gateway) = "NGN" =>
         \E t \in DOMAIN market :
           t \in (k.when - Timeout - Ttl + 1)..k.when /\ market[t] = k.rate

(* initializePayment, isReconciled: a payment of the amount that was asked *)
(* for, in the currency it was asked in, is never refused, whatever rate   *)
(* the checkout was priced at and whatever is missing from the report.     *)
FullPaymentIsReconciled ==
  \A c \in Checkouts :
    LET k == checkout[c]
    IN k.at = "refused" =>
         \/ k.report.amount \notin {0, k.asked}
         \/ k.report.currency \notin {"none", Currency(k.gateway)}
=============================================================================
