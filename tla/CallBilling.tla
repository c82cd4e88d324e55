---------------------------- MODULE CallBilling ----------------------------
(***************************************************************************)
(* Outbound calls of CallsService: the request that locks call credits and *)
(* has one carrier after the other dial, the voice events the carriers     *)
(* send to the webhooks that settle the call, and the credit account of    *)
(* one user it is paid from.  The account is also used by other services,  *)
(* over the internal endpoints for locks and refunds.                      *)
(*                                                                         *)
(* A voice event is handled on a copy of the call row that is read first   *)
(* and saved as a whole last; between the two the handler spends or        *)
(* releases credit locks, each in a transaction of its own.  What happens  *)
(* to the row in the meantime is overwritten.                              *)
(***************************************************************************)
EXTENDS Integers, FiniteSets, CarrierRoutes

CONSTANTS Calls,      \* idempotency keys of startOutboundCall
          Starters,   \* start requests in flight
          Events,     \* events a carrier can send about a call
          Word,       \* [Events -> CarrierWords]: what an event reports
          Seconds,    \* [Events -> Nat or NoSeconds]: the duration in it
          NoSeconds,
          Country,    \* the destination's
          Preferred,  \* the carrier that is tried first
          Deliveries, \* the events delivered to each webhook, pairs of Events \X Doors
          Handlers,   \* voice events being handled at a time
          FirstWords, \* what carriers can answer a request to dial with
          Tasks,     \* idempotency keys of locks taken by other services
          Rate,       \* credits per minute
          MaxCredits, \* bound: largest balance purchases build up
          MayFail     \* whether a database write of a request may fail

(* The webhooks for voice events: the two of Bandwidth's keep books of     *)
(* their own of what they have seen.                                       *)
Doors == {"twilio", "bandwidth", "bandwidth voice"}

CarrierWords == {"queued", "ring", "answer", "busy", "no answer", "cancel",
                 "complete", "hangup", "fail", "something else"}

ASSUME CallsAssumption ==
  /\ IsFiniteSet(Calls) /\ IsFiniteSet(Events) /\ IsFiniteSet(Tasks)
  /\ Word \in [Events -> CarrierWords] /\ FirstWords \subseteq CarrierWords
  /\ Deliveries \subseteq Events \X Doors /\ Preferred \in Conversation
  /\ NoSeconds \notin Nat /\ Seconds \in [Events -> Nat \cup {NoSeconds}]
  /\ Rate \in Nat \ {0} /\ MaxCredits \in Nat /\ MayFail \in BOOLEAN

VARIABLES balance, \* credit_accounts.credit_balance
          locked,  \* credit_accounts.locked_credit_balance
          lock,    \* the credit lock of a call
          extra,   \* the credit lock of a call's additional debit, per event
          other,   \* the credit locks of other services
          due,     \* the locks expireCreditLocks has found due
          keys,    \* credit_transactions.idempotency_key of spends, releases, refunds
          row,     \* calls
          dialed,  \* the calls each carrier has placed, known to us or not
          starter, \* the start requests
          seen,    \* webhook_dedup
          handler, \* the voice event handlers
          charged, \* history: credits debited for a call
          broken   \* history: calls a request or a handler of which was cut short

account == <<balance, locked, lock, extra, other, due, keys, charged>>
vars == <<account, row, dialed, starter, seen, handler, broken>>

-----------------------------------------------------------------------------
(* Data.                                                                   *)

LockStatuses == {"none", "active", "spent", "released", "expired"}
Failures == {"failed", "busy", "no-answer", "canceled"}
CallStatuses == {"initiated", "ringing", "answered", "completed"} \cup Failures

(* normalizeVoiceStatus looks for parts of words in a fixed order, and     *)
(* "answer" is a part of "no-answer".                                      *)
VoiceStatus(word) ==
  CASE word = "no answer" -> "answer"
    [] word = "hangup" -> "complete"
    [] OTHER -> word

(* normalizeCallStatus: a word it does not know is a failure.              *)
StoredStatus(word) ==
  CASE word = "queued" -> "initiated"
    [] word = "ring" -> "ringing"
    [] word = "answer" -> "answered"
    [] word = "busy" -> "busy"
    [] word = "no answer" -> "no-answer"
    [] word = "cancel" -> "canceled"
    [] word = "complete" -> "completed"
    [] OTHER -> "failed"

(* The status of a webhook passes through both.                            *)
Normalized(word) == StoredStatus(VoiceStatus(word))

Ceil(n, d) == (n + d - 1) \div d
Least(a, b) == IF a <= b THEN a ELSE b

(* calculateCallCost with its interval and its minimum of 60 seconds.      *)
Cost(seconds) ==
  LET interval == 60
      minimum == 60
      rounded == Ceil(seconds, interval) * interval
      billable == IF seconds <= 0 \/ rounded < minimum THEN minimum ELSE rounded
  IN Ceil(billable, 60) * Rate

(* estimateCreditsToLock: one minimum of a call.                           *)
Estimate == Rate * Ceil(60, 60)

Nobody == "nobody"  \* no carrier's call id is stored

NoRow == [status |-> "none", sid |-> Nobody, seconds |-> 0, spent |-> 0,
          short |-> FALSE, done |-> {}]
Idle == [at |-> "idle"]
NoLock == [status |-> "none", credits |-> 0]

Available == balance - locked

(* The credits of the active locks: one of Estimate per call, the          *)
(* additional ones, and those of other services.                           *)
CreditsIn(locks, held) ==
  {x \in locks \X (1..MaxCredits) : held[x[1]].status = "active" /\ x[2] <= held[x[1]].credits}
ActiveCalls == {c \in Calls : lock[c] = "active"}
HeldCredits ==
  Estimate * Cardinality(ActiveCalls)
  + Cardinality(CreditsIn(Calls \X Events, extra)) + Cardinality(CreditsIn(Tasks, other))

Init ==
  /\ balance = 0
  /\ locked = 0
  /\ lock = [c \in Calls |-> "none"]
  /\ extra = [x \in Calls \X Events |-> NoLock]
  /\ other = [o \in Tasks |-> NoLock]
  /\ due = {}
  /\ keys = {}
  /\ row = [c \in Calls |-> NoRow]
  /\ dialed = {}
  /\ starter = [q \in Starters |-> Idle]
  /\ seen = {}
  /\ handler = [h \in Handlers |-> Idle]
  /\ charged = [c \in Calls |-> 0]
  /\ broken = {}

(* A package bought with purchaseCredits.                                  *)
Buy(n) ==
  /\ balance + n <= MaxCredits
  /\ balance' = balance + n
  /\ UNCHANGED <<locked, lock, extra, other, due, keys, charged, row, dialed, starter,
                 seen, handler, broken>>

-----------------------------------------------------------------------------
(* The credit ledger.  A transaction locks the account row, so it is one   *)
(* step; one that loses a race for a unique key fails, and failing is an   *)
(* action of the caller.                                                   *)

OpenLock(c) ==
  /\ lock[c] = "none" /\ Available >= Estimate
  /\ locked' = locked + Estimate
  /\ lock' = [lock EXCEPT ![c] = "active"]
  /\ UNCHANGED <<balance, extra, other, due, keys, charged>>

(* Seeded fault: the status of the lock is not looked at.                  *)
SpendLockAgain(c, e, n) ==
  /\ lock[c] # "none"
  /\ balance' = balance - n
  /\ locked' = IF lock[c] = "active" THEN locked - Estimate ELSE locked
  /\ lock' = [lock EXCEPT ![c] = "spent"]
  /\ keys' = keys \cup {<<"spend", c, e>>}
  /\ charged' = [charged EXCEPT ![c] = @ + n]
  /\ UNCHANGED <<extra, other, due>>

(* Seeded fault: only what is spent leaves the locked balance.             *)
SpendLockPart(c, e, n) ==
  /\ lock[c] = "active" /\ n <= Estimate
  /\ balance' = balance - n
  /\ locked' = locked - (n - 1)
  /\ lock' = [lock EXCEPT ![c] = "spent"]
  /\ keys' = keys \cup {<<"spend", c, e>>}
  /\ charged' = [charged EXCEPT ![c] = @ + n]
  /\ UNCHANGED <<extra, other, due>>

(* spendLock on the lock of a call, for n of its credits.                  *)
SpendLock(c, e, n) ==
  /\ lock[c] = "active" /\ n <= Estimate
  /\ balance' = balance - n
  /\ locked' = locked - Estimate
  /\ lock' = [lock EXCEPT ![c] = "spent"]
  /\ keys' = keys \cup {<<"spend", c, e>>}
  /\ charged' = [charged EXCEPT ![c] = @ + n]
  /\ UNCHANGED <<extra, other, due>>

(* Seeded fault: a spent lock can be released.                             *)
ReleaseLockSpent(c, key) ==
  /\ lock[c] \in {"active", "spent"}
  /\ locked' = IF lock[c] = "active" THEN locked - Estimate ELSE locked
  /\ lock' = [lock EXCEPT ![c] = "released"]
  /\ keys' = keys \cup {key}
  /\ UNCHANGED <<balance, extra, other, due, charged>>

(* releaseLock.                                                            *)
ReleaseLock(c, key) ==
  /\ lock[c] = "active"
  /\ locked' = locked - Estimate
  /\ lock' = [lock EXCEPT ![c] = "released"]
  /\ keys' = keys \cup {key}
  /\ UNCHANGED <<balance, extra, other, due, charged>>

-----------------------------------------------------------------------------
(* The internal endpoints, which other services of the platform call, and  *)
(* the job that expires locks: those of calls have no expiry.  A request   *)
(* that is repeated with its key is answered with what is recorded.        *)

others == <<lock, extra, charged, row, dialed, starter, seen, handler, broken>>

LockOther(o, n) ==
  /\ other[o] = NoLock /\ Available >= n
  /\ locked' = locked + n
  /\ other' = [other EXCEPT ![o] = [status |-> "active", credits |-> n]]
  /\ UNCHANGED <<balance, due, keys, others>>

SpendOther(o, n) ==
  /\ other[o].status = "active" /\ n <= other[o].credits
  /\ balance' = balance - n
  /\ locked' = locked - other[o].credits
  /\ other' = [other EXCEPT ![o].status = "spent"]
  /\ UNCHANGED <<due, keys, others>>

ReleaseOther(o) ==
  /\ other[o].status = "active"
  /\ locked' = locked - other[o].credits
  /\ other' = [other EXCEPT ![o].status = "released"]
  /\ UNCHANGED <<balance, due, keys, others>>

(* A refund is credited whatever was spent before.                         *)
RefundOther(o, n) ==
  /\ <<"refund", o>> \notin keys /\ balance + n <= MaxCredits
  /\ balance' = balance + n
  /\ keys' = keys \cup {<<"refund", o>>}
  /\ UNCHANGED <<locked, other, due, others>>

(* Locks with an expiry that has passed are listed, ...                    *)
ListDue(o) ==
  /\ other[o].status = "active"
  /\ due' = due \cup {o}
  /\ UNCHANGED <<balance, locked, other, keys, others>>

(* ... and each is expired unless it was settled since.                    *)
ExpireLock(o) ==
  /\ o \in due
  /\ due' = due \ {o}
  /\ IF other[o].status = "active"
     THEN /\ locked' = locked - other[o].credits
          /\ other' = [other EXCEPT ![o].status = "expired"]
     ELSE UNCHANGED <<locked, other>>
  /\ UNCHANGED <<balance, keys, others>>

-----------------------------------------------------------------------------
(* startOutboundCall.                                                      *)

Ask(q, r) == starter' = [starter EXCEPT ![q] = r]
AskAt(q, step) == starter[q].at = step
AskFor(q, step) == starter' = [starter EXCEPT ![q].at = step]
events == <<seen, handler>>

(* A call with the key is returned; otherwise the request goes on.         *)
Start(q, c) ==
  /\ AskAt(q, "idle") /\ row[c].status = "none"
  /\ Ask(q, [at |-> "lock", call |-> c, sid |-> Nobody, left |-> Route(Country, Preferred)])
  /\ UNCHANGED <<account, row, dialed, events, broken>>

(* createLock answers with the lock its key is recorded for.               *)
TakeLock(q) ==
  LET c == starter[q].call IN
  /\ AskAt(q, "lock")
  /\ \/ lock[c] # "none" /\ UNCHANGED account
     \/ OpenLock(c)
  /\ AskFor(q, "create")
  /\ UNCHANGED <<row, dialed, events, broken>>

(* The key is unique in calls.                                             *)
Create(q) ==
  LET c == starter[q].call IN
  /\ AskAt(q, "create") /\ row[c].status = "none"
  /\ row' = [row EXCEPT ![c].status = "initiated"]
  /\ AskFor(q, "dial")
  /\ UNCHANGED <<account, dialed, events, broken>>

(* Refused for want of credits, or by the unique key.                      *)
Refused(q) ==
  LET c == starter[q].call IN
  /\ \/ AskAt(q, "lock") /\ lock[c] = "none" /\ Available < Estimate
     \/ AskAt(q, "create") /\ row[c].status # "none"
  /\ Ask(q, Idle)
  /\ UNCHANGED <<account, row, dialed, events, broken>>

(* ProviderService.startCall: the first carrier places the call and we     *)
(* learn its id; or it does not, or it does and the answer is lost, and    *)
(* the next one is asked to.                                               *)
Asked(q) == Head(starter[q].left)
More(q) == AskAt(q, "dial") /\ starter[q].left # <<>>

Dial(q) ==
  /\ More(q) /\ Asked(q) \in Voice
  /\ dialed' = dialed \cup {<<starter[q].call, Asked(q)>>}
  /\ starter' = [starter EXCEPT ![q].at = "save", ![q].sid = Asked(q)]
  /\ UNCHANGED <<account, row, events, broken>>

DialFails(q) ==
  /\ More(q)
  /\ \/ UNCHANGED dialed
     \/ Asked(q) \in Voice /\ dialed' = dialed \cup {<<starter[q].call, Asked(q)>>}
  /\ starter' = [starter EXCEPT ![q].left = Tail(@)]
  /\ UNCHANGED <<account, row, events, broken>>

NoCarrier(q) ==
  /\ AskAt(q, "dial") /\ starter[q].left = <<>>
  /\ AskFor(q, "giveback")
  /\ UNCHANGED <<account, row, dialed, events, broken>>

(* The carrier's id is saved with the status its answer maps to.           *)
SaveCall(q) ==
  LET c == starter[q].call IN
  /\ AskAt(q, "save")
  /\ \E word \in FirstWords :
       row' = [row EXCEPT ![c].sid = starter[q].sid, ![c].status = StoredStatus(word)]
  /\ Ask(q, Idle)
  /\ UNCHANGED <<account, dialed, events, broken>>

SaveFails(q) ==
  /\ MayFail /\ AskAt(q, "save")
  /\ AskFor(q, "giveback")
  /\ UNCHANGED <<account, row, dialed, events, broken>>

(* The lock is released, a failure to release it is only logged, ...       *)
GiveBack(q) ==
  LET c == starter[q].call IN
  /\ AskAt(q, "giveback")
  /\ \/ ReleaseLock(c, <<"start", c>>) /\ UNCHANGED broken
     \/ MayFail /\ broken' = broken \cup {c} /\ UNCHANGED account
  /\ AskFor(q, "fail")
  /\ UNCHANGED <<row, dialed, events>>

(* ... and the call is saved as failed, with the carrier's id if we had it.*)
SaveFailed(q) ==
  LET c == starter[q].call IN
  /\ AskAt(q, "fail")
  /\ row' = [row EXCEPT ![c].status = "failed", ![c].sid = starter[q].sid]
  /\ Ask(q, Idle)
  /\ UNCHANGED <<account, dialed, events, broken>>

(* A database error nothing catches, or a crash.                           *)
Crash(q) ==
  /\ MayFail /\ starter[q] # Idle
  /\ broken' = broken \cup {starter[q].call}
  /\ Ask(q, Idle)
  /\ UNCHANGED <<account, row, dialed, events>>

-----------------------------------------------------------------------------
(* handleProviderVoiceEvent.                                               *)

Goto(h, step) == handler' = [handler EXCEPT ![h].at = step]
Quit(h) == handler' = [handler EXCEPT ![h] = Idle]
At(h, step) == handler[h].at = step
starting == <<dialed, starter>>

(* The copy of the row an event changes.                                   *)
Heard(r, e) ==
  [r EXCEPT !.status = Normalized(Word[e]),
            !.seconds = IF Seconds[e] = NoSeconds THEN @ ELSE Seconds[e],
            !.done = @ \cup {e}]

(* Seeded fault: only a completion settles the lock.                       *)
FirstStepPaidOnly(status) == IF status = "completed" THEN "spend" ELSE "save"

FirstStep(status) ==
  CASE status = "completed" -> "spend" [] status \in Failures -> "release" [] OTHER -> "save"

(* Whose webhook it is.                                                    *)
Sender(door) == IF door = "twilio" THEN "twilio" ELSE "bandwidth"

(* The event is stored and the call looked up by the carrier's id: one     *)
(* whose id is not saved, yet or ever, is unknown, and its event is lost.  *)
Receive(h, c, e, door) ==
  /\ At(h, "idle") /\ <<e, door>> \in Deliveries
  /\ <<c, Sender(door)>> \in dialed /\ <<c, e, door>> \notin seen
  /\ seen' = seen \cup {<<c, e, door>>}
  /\ IF row[c].sid # Sender(door) \/ e \in row[c].done
     THEN UNCHANGED handler
     ELSE LET copy == Heard(row[c], e) IN
          handler' = [handler EXCEPT ![h] =
            [at |-> FirstStep(copy.status), call |-> c, event |-> e, copy |-> copy, paid |-> 0]]
  /\ UNCHANGED <<account, row, starting, broken>>

HearTwilio(h, c, e) == Receive(h, c, e, "twilio")

(* Bandwidth's events come to a webhook for all of them, ...               *)
HearBandwidth(h, c, e) == Receive(h, c, e, "bandwidth")

(* ... and to the one given with the call.                                 *)
HearBandwidthVoice(h, c, e) == Receive(h, c, e, "bandwidth voice")

Due(h) == Cost(handler[h].copy.seconds)
Short(h) == Due(h) - handler[h].paid

(* settleCompletedCall: first from the lock, ...                           *)
SettleFromLock(h) ==
  LET c == handler[h].call
      e == handler[h].event
      n == Least(Estimate, Due(h)) IN
  /\ At(h, "spend")
  /\ IF <<"spend", c, e>> \in keys THEN UNCHANGED account ELSE SpendLock(c, e, n)
  /\ handler' = [handler EXCEPT ![h].paid = n,
                                ![h].at = IF Due(h) > n THEN "extra lock" ELSE "save"]
  /\ UNCHANGED <<row, starting, seen, broken>>

(* ... then from an additional lock ...                                    *)
TakeExtra(h) ==
  LET x == <<handler[h].call, handler[h].event>> IN
  /\ At(h, "extra lock")
  /\ \/ extra[x].status # "none" /\ UNCHANGED account
     \/ /\ extra[x].status = "none" /\ Available >= Short(h)
        /\ locked' = locked + Short(h)
        /\ extra' = [extra EXCEPT ![x] = [status |-> "active", credits |-> Short(h)]]
        /\ UNCHANGED <<balance, lock, other, due, keys, charged>>
  /\ Goto(h, "extra spend")
  /\ UNCHANGED <<row, starting, seen, broken>>

SpendExtra(h) ==
  LET x == <<handler[h].call, handler[h].event>> IN
  /\ At(h, "extra spend")
  /\ \/ extra[x].status = "spent" /\ UNCHANGED account
     \/ /\ extra[x].status = "active"
        /\ balance' = balance - extra[x].credits
        /\ locked' = locked - extra[x].credits
        /\ extra' = [extra EXCEPT ![x].status = "spent"]
        /\ charged' = [charged EXCEPT ![x[1]] = @ + extra[x].credits]
        /\ UNCHANGED <<lock, other, due, keys>>
  /\ handler' = [handler EXCEPT ![h].paid = Due(h), ![h].at = "save"]
  /\ UNCHANGED <<row, starting, seen, broken>>

(* Seeded fault: a shortfall leaves no trace.                              *)
ExtraFailsQuietly(h) ==
  LET x == <<handler[h].call, handler[h].event>> IN
  /\ \/ At(h, "extra lock") /\ (MayFail \/ (extra[x].status = "none" /\ Available < Short(h)))
     \/ At(h, "extra spend") /\ MayFail
  /\ Goto(h, "save")
  /\ UNCHANGED <<account, row, starting, seen, broken>>

(* ... of which any failure leaves an uncollected shortfall.               *)
ExtraFails(h) ==
  LET x == <<handler[h].call, handler[h].event>> IN
  /\ \/ At(h, "extra lock") /\ (MayFail \/ (extra[x].status = "none" /\ Available < Short(h)))
     \/ At(h, "extra spend") /\ MayFail
  /\ handler' = [handler EXCEPT ![h].at = "save", ![h].copy.short = TRUE]
  /\ UNCHANGED <<account, row, starting, seen, broken>>

(* A call that failed gives its lock back and costs nothing.               *)
SettleFailure(h) ==
  LET c == handler[h].call
      key == <<"release", c, handler[h].event>> IN
  /\ At(h, "release")
  /\ IF key \in keys THEN UNCHANGED account ELSE ReleaseLock(c, key)
  /\ Goto(h, "save")
  /\ UNCHANGED <<row, starting, seen, broken>>

(* The lock is not active any more: the ledger throws and the row stays.   *)
LockGone(h) ==
  LET c == handler[h].call
      e == handler[h].event IN
  /\ \/ At(h, "spend") /\ <<"spend", c, e>> \notin keys
     \/ At(h, "release") /\ <<"release", c, e>> \notin keys
  /\ lock[c] # "active"
  /\ Quit(h)
  /\ UNCHANGED <<account, row, starting, seen, broken>>

(* The whole copy is saved over the row as it is by now.                   *)
Save(h) ==
  LET r == handler[h].copy IN
  /\ At(h, "save")
  /\ row' = [row EXCEPT ![handler[h].call] =
       IF r.status = "completed" THEN [r EXCEPT !.spent = handler[h].paid]
       ELSE IF r.status \in Failures THEN [r EXCEPT !.spent = 0] ELSE r]
  /\ Quit(h)
  /\ UNCHANGED <<account, starting, seen, broken>>

Die(h) ==
  /\ MayFail /\ handler[h] # Idle
  /\ broken' = broken \cup {handler[h].call}
  /\ Quit(h)
  /\ UNCHANGED <<account, row, starting, seen>>

-----------------------------------------------------------------------------
StartStep(q) ==
  \/ TakeLock(q) \/ Create(q) \/ Refused(q) \/ Dial(q) \/ DialFails(q) \/ NoCarrier(q)
  \/ SaveCall(q) \/ SaveFails(q) \/ GiveBack(q) \/ SaveFailed(q)

Step(h) ==
  \/ SettleFromLock(h) \/ TakeExtra(h) \/ SpendExtra(h) \/ ExtraFails(h)
  \/ SettleFailure(h) \/ LockGone(h) \/ Save(h)

Next ==
  \/ \E n \in 1..MaxCredits : Buy(n)
  \/ \E o \in Tasks :
       \/ ReleaseOther(o) \/ ListDue(o) \/ ExpireLock(o)
       \/ \E n \in 1..MaxCredits : LockOther(o, n) \/ SpendOther(o, n) \/ RefundOther(o, n)
  \/ \E q \in Starters : StartStep(q) \/ Crash(q) \/ \E c \in Calls : Start(q, c)
  \/ \E h \in Handlers : Step(h) \/ Die(h)
  \/ \E h \in Handlers, c \in Calls, e \in Events :
       HearTwilio(h, c, e) \/ HearBandwidth(h, c, e) \/ HearBandwidthVoice(h, c, e)

Spec == Init /\ [][Next]_vars

(* A request or a handler that is not cut short runs to its end.  Nobody   *)
(* has to call and a carrier has to report nothing.                        *)
FairSpec ==
  /\ Spec
  /\ \A q \in Starters : WF_vars(StartStep(q))
  /\ \A h \in Handlers : WF_vars(Step(h))

-----------------------------------------------------------------------------
(* Correctness.                                                            *)

(* Every variable has the type its column and its uses give it.            *)
TypeOK ==
  /\ balance \in 0..MaxCredits /\ locked \in 0..MaxCredits
  /\ lock \in [Calls -> LockStatuses]
  /\ \A x \in Calls \X Events :
       extra[x].status \in LockStatuses /\ extra[x].credits \in 0..MaxCredits
  /\ \A o \in Tasks : other[o].status \in LockStatuses /\ other[o].credits \in 0..MaxCredits
  /\ due \subseteq Tasks
  /\ \A c \in Calls :
       /\ row[c].status \in CallStatuses \cup {"none"} /\ row[c].sid \in Voice \cup {Nobody}
       /\ row[c].seconds \in Nat /\ row[c].spent \in Nat /\ row[c].done \subseteq Events
  /\ dialed \subseteq Calls \X Voice /\ broken \subseteq Calls
  /\ seen \subseteq Calls \X Events \X Doors
  /\ charged \in [Calls -> Nat]

(* The locked credits are those of the active locks, and are there.        *)
CreditsAccounted == locked = HeldCredits /\ locked <= balance

(* What a call of this many seconds costs: its started minutes, at least   *)
(* one ('61-second calls round up to two full billable minutes').          *)
Price(seconds) ==
  Rate * (CHOOSE m \in 1..(seconds + 1) : 60 * m >= seconds /\ (m > 1 => 60 * (m - 1) < seconds))

Durations == {0} \cup {Seconds[e] : e \in {f \in Events : Seconds[f] # NoSeconds}}

(* A call is charged once: what its user pays is the price of one reported *)
(* duration, or as much of it as had been locked, however many completions *)
(* carriers report and in whatever order they are handled.                 *)
ChargedOnce ==
  \A c \in Calls :
    charged[c] > 0 => \E s \in Durations : charged[c] \in {Price(s), Least(Estimate, Price(s))}

(* A call whose lock was given back is never charged, and one that was     *)
(* charged never gets it back.                                             *)
ChargedOrReturned ==
  \A c \in Calls :
    /\ charged[c] > 0 <=> lock[c] = "spent"
    /\ lock[c] = "released" => ~\E e \in Events : extra[<<c, e>>].status # "none"

(* What the call history shows as spent was spent, and a call shown as     *)
(* completed is paid in full or says that it is not.                       *)
ShownIsCharged ==
  \A c \in Calls :
    /\ row[c].spent <= charged[c]
    /\ row[c].status = "completed" =>
         row[c].spent > 0 /\ (row[c].spent = Price(row[c].seconds) \/ row[c].short)

(* A start that failed, or a final event taken up, leaves no credits       *)
(* locked for the call unless it is cut short: one of two handlers that    *)
(* race settles the lock.                                                  *)
Ending(c) ==
  \/ \E q \in Starters : AskAt(q, "giveback") /\ starter[q].call = c
  \/ \E h \in Handlers : /\ handler[h] # Idle /\ handler[h].call = c
                        /\ handler[h].copy.status \in Failures \cup {"completed"}

EndedIsSettled == \A c \in Calls : Ending(c) ~> lock[c] # "active" \/ c \in broken

(* 'failed webhooks release locked call credits without charging the user' *)
(* of a call reported as not answered: once the event is applied, nothing  *)
(* is locked for the call.                                                 *)
UnansweredIsReleased ==
  \A c \in Calls, e \in Events :
    Word[e] = "no answer" /\ e \in row[c].done => lock[c] # "active"
=============================================================================
