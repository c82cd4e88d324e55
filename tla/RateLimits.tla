----------------------------- MODULE RateLimits -----------------------------
(***************************************************************************)
(* What SecurityMiddleware lets through of one client.  A request passes   *)
(* the counters of its route one after the other, each a Redis key that is *)
(* incremented and, by whoever made it 1, given an expiry in a call of its *)
(* own; then AbuseService reads the velocity of the request's kind over    *)
(* all its windows, and counts the request in each if it lets it through.  *)
(* RedisService swallows every error: a counter that cannot be reached     *)
(* reads as zero and holds nobody back.  Method, size, content type and    *)
(* payload are checked before, from the request alone.                     *)
(***************************************************************************)
EXTENDS Integers, Sequences

CONSTANTS Requests,    \* requests in the middleware at a time
          Mixes,       \* bound: sets of routes asked for in one behaviour
          Windows,     \* a sequence: the windows of VELOCITY_LIMITS
          Max,         \* [counter or window |-> requests let through in it]
          Life,        \* [counter or window |-> its expiry, in ticks]
          MaxFailures  \* bound: calls to Redis or the database that fail

(* The counters before each kind of route (LIMITS), in the order asked.    *)
Counters ==
  [webhook |-> <<"webhook">>,
   signin |-> <<"auth ip", "auth identity", "global">>,
   oauth |-> <<"auth ip", "global">>,
   checkout |-> <<"payment", "global">>,
   call |-> <<"payment", "global">>,
   numbers |-> <<"global">>,
   text |-> <<"global">>,
   other |-> <<"global">>]

Routes == DOMAIN Counters

(* abuseActionForPath.                                                     *)
Action(route) ==
  CASE route \in {"signin", "oauth"} -> "login_attempt"
    [] route = "text" -> "sms_send"
    [] route \in {"numbers", "checkout"} -> "number_purchase"
    [] route \in {"call", "other"} -> "api_request"

Asked == UNION Mixes
WindowNames == {Windows[i] : i \in DOMAIN Windows}
Names ==
  UNION {{Counters[r][i] : i \in DOMAIN Counters[r]} : r \in Routes} \cup WindowNames

(* The keys in Redis: the counters, and one per action and window.         *)
Keys ==
  ({"limit"} \X UNION {{Counters[r][i] : i \in DOMAIN Counters[r]} : r \in Asked})
  \cup ({Action(r) : r \in Asked \ {"webhook"}} \X WindowNames)

ASSUME RateAssumption ==
  /\ Asked \subseteq Routes
  /\ \A n \in Names : Max[n] > 0 /\ Life[n] > 0

VARIABLES count,    \* the counters in Redis; 0 is a key that is not there
          left,     \* how long a key lives yet; 0 is a key without an expiry
          request,  \* the requests being looked at
          failures, \* bound
          mix       \* bound: the routes asked for

ratevars == <<count, left, request, failures, mix>>

Gone == [at |-> "gone"]

RateInit ==
  /\ count = [k \in Keys |-> 0]
  /\ left = [k \in Keys |-> 0]
  /\ request = [q \in Requests |-> Gone]
  /\ failures = 0
  /\ mix \in Mixes

-----------------------------------------------------------------------------
Now(q) == request[q]
On(q, step) == Now(q).at = step
Become(q, r) == request' = [request EXCEPT ![q] = r]
Fail == failures < MaxFailures /\ failures' = failures + 1
keys == <<count, left>>
bounds == <<failures, mix>>

(* Bound: a key counts no further than one beyond what it lets through.    *)
Incremented(k) == IF count[k] <= Max[k[2]] THEN count[k] + 1 ELSE count[k]

Arrive(q, route) ==
  /\ On(q, "gone") /\ route \in mix
  /\ Become(q, [at |-> "count", route |-> route, i |-> 1])
  /\ UNCHANGED <<keys, bounds>>

(* Where a request goes from counter i: webhooks are not asked for abuse.  *)
Onward(q) ==
  LET r == Now(q) IN
  IF r.i < Len(Counters[r.route]) THEN [r EXCEPT !.at = "count", !.i = @ + 1]
  ELSE IF r.route = "webhook" THEN Gone
  ELSE [at |-> "score", route |-> r.route, i |-> 1, breach |-> FALSE]

Key(q) == <<"limit", Counters[Now(q).route][Now(q).i]>>

(* Seeded fault: every request that is counted renews the expiry.          *)
CountRenewed(q) ==
  LET k == Key(q) n == Incremented(k) IN
  /\ On(q, "count")
  /\ count' = [count EXCEPT ![k] = n]
  /\ left' = [left EXCEPT ![k] = Life[k[2]]]
  /\ Become(q, IF n > Max[k[2]] THEN Gone ELSE Onward(q))
  /\ UNCHANGED bounds

(* checkRateLimit: whoever makes the counter 1 gives it its expiry; beyond *)
(* the maximum the request ends with 429.  (recordAuthRisk keeps a counter *)
(* of the same kind, which only warns.)                                    *)
Count(q) ==
  LET k == Key(q) n == Incremented(k) IN
  /\ On(q, "count")
  /\ count' = [count EXCEPT ![k] = n]
  /\ Become(q, IF n = 1 THEN [Now(q) EXCEPT !.at = "expire"]
               ELSE IF n > Max[k[2]] THEN Gone
               ELSE Onward(q))
  /\ UNCHANGED <<left, bounds>>

Expire(q) ==
  /\ On(q, "expire")
  /\ left' = [left EXCEPT ![Key(q)] = Life[Key(q)[2]]]
  /\ Become(q, Onward(q))
  /\ UNCHANGED <<count, bounds>>

(* Redis does not answer: incr is read as 0 and lets the request through,  *)
(* an expire that was not made is not made again.                          *)
CountFails(q) ==
  /\ On(q, "count") \/ On(q, "expire")
  /\ Fail /\ Become(q, Onward(q))
  /\ UNCHANGED <<keys, mix>>

-----------------------------------------------------------------------------
(* AbuseService.checkAndRecord.                                            *)

Window(q) == <<Action(Now(q).route), Windows[Now(q).i]>>
Scored(q, breach) ==
  LET r == Now(q) IN
  IF r.i < Len(Windows) THEN [r EXCEPT !.i = @ + 1, !.breach = breach]
  ELSE [r EXCEPT !.at = IF breach THEN "block" ELSE "add", !.i = 1, !.breach = breach]

(* calculateRiskScore reads one window after the other.                    *)
Score(q) ==
  /\ On(q, "score")
  /\ Become(q, Scored(q, Now(q).breach \/ count[Window(q)] >= Max[Window(q)[2]]))
  /\ UNCHANGED <<keys, bounds>>

ScoreFails(q) ==
  /\ On(q, "score") /\ Fail
  /\ Become(q, Scored(q, Now(q).breach))
  /\ UNCHANGED <<keys, mix>>

(* A breach is recorded and answered with 403, and is not counted; when    *)
(* the row cannot be saved, checkAbuse lets the request through instead.   *)
Blocked(q) ==
  /\ On(q, "block")
  /\ Become(q, Gone)
  /\ UNCHANGED <<keys, bounds>>

(* incrementVelocity: an increment, and an expiry from now on, for every   *)
(* window.                                                                 *)
Add(q) ==
  /\ On(q, "add")
  /\ count' = [count EXCEPT ![Window(q)] = Incremented(Window(q))]
  /\ Become(q, [Now(q) EXCEPT !.at = "renew"])
  /\ UNCHANGED <<left, bounds>>

Added(q) ==
  IF Now(q).i < Len(Windows) THEN [Now(q) EXCEPT !.at = "add", !.i = @ + 1] ELSE Gone

(* An expire of a key that has lapsed in between does nothing.             *)
Renew(q) ==
  /\ On(q, "renew")
  /\ left' = [left EXCEPT ![Window(q)] = IF count[Window(q)] = 0 THEN 0 ELSE Life[Window(q)[2]]]
  /\ Become(q, Added(q))
  /\ UNCHANGED <<count, bounds>>

AddFails(q) ==
  /\ Fail
  /\ \/ On(q, "add") /\ Become(q, [Now(q) EXCEPT !.at = "renew"])
     \/ On(q, "renew") /\ Become(q, Added(q))
  /\ UNCHANGED <<keys, mix>>

(* A process that stops; or the row that flags a velocity near its limit   *)
(* cannot be saved, and the request passes without being counted.          *)
Leave(q) ==
  /\ ~On(q, "gone") /\ Fail
  /\ Become(q, Gone)
  /\ UNCHANGED <<keys, mix>>

(* Time passes for every key that has an expiry.                           *)
RateTick ==
  /\ \E k \in DOMAIN left : left[k] > 0
  /\ left' = [k \in DOMAIN left |-> IF left[k] > 0 THEN left[k] - 1 ELSE 0]
  /\ count' = [k \in DOMAIN count |-> IF left[k] = 1 THEN 0 ELSE count[k]]
  /\ UNCHANGED <<request, bounds>>

RateNext ==
  \/ \E q \in Requests :
       \/ \E route \in Routes : Arrive(q, route)
       \/ Count(q) \/ Expire(q) \/ CountFails(q)
       \/ Score(q) \/ ScoreFails(q) \/ Blocked(q)
       \/ Add(q) \/ Renew(q) \/ AddFails(q)
       \/ Leave(q)
  \/ RateTick

(* Time goes on; nothing is asked of the client, which may try for ever.   *)
RateFairness == WF_ratevars(RateTick)

RateSpec == RateInit /\ [][RateNext]_ratevars /\ RateFairness

-----------------------------------------------------------------------------
(* Correctness.                                                            *)

(* A client that was turned away is let in again, however often it tries   *)
(* meanwhile: a counter over its maximum, or a velocity in breach, whose   *)
(* expiry was set comes back to nothing.  (A key whose expiry was lost     *)
(* turns the client away for ever; no code looks for such keys.)           *)
Over(k) == count[k] > Max[k[2]] \/ (count[k] = Max[k[2]] /\ k[1] # "limit")

TurnedAwayReturns ==
  \A k \in Keys : Over(k) /\ left[k] > 0 ~> count[k] = 0
=============================================================================
