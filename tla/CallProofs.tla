----------------------------- MODULE CallProofs -----------------------------
(***************************************************************************)
(* What CallBilling guarantees for any calls, requests, events, deliveries *)
(* to webhooks, number of handlers and rate.                               *)
(*                                                                         *)
(* Every step is one of a few to the account (AccountSteps).  The locked   *)
(* balance is the total of the active locks, and moves with it             *)
(* (LedgerStep).  The keys of spends and releases tell what became of the  *)
(* lock of a call and which event spent it, so that what was charged is    *)
(* the lock and the additional lock of that event, once each (MoneyStep).  *)
(* What a handler saves it has read from a row or charged itself           *)
(* (HeedStep), hence rows show what was charged (RowsStep).                *)
(***************************************************************************)
EXTENDS CallBilling, FiniteSetTheorems, TLAPS

LockRow == [status : LockStatuses, credits : 0..MaxCredits]

CallRow == [status : CallStatuses \cup {"none"}, sid : Voice \cup {Nobody},
            seconds : Durations, spent : Nat, short : BOOLEAN, done : SUBSET Events]

HandlerRow == [at : {"spend", "extra lock", "extra spend", "release", "save"},
               call : Calls, event : Events, copy : CallRow, paid : Nat]

(* A request is idle or at a step for a call; the carriers it has left are *)
(* any.                                                                    *)
StarterShape(r) ==
  \/ r = Idle
  \/ r \in [at : {"lock", "create", "dial", "save", "giveback", "fail"}, call : Calls,
            sid : Voice \cup {Nobody}, left : {r.left}]

LedgerTypes ==
  /\ balance \in 0..MaxCredits /\ locked \in 0..MaxCredits
  /\ lock \in [Calls -> LockStatuses]
  /\ extra \in [Calls \X Events -> LockRow]
  /\ other \in [Tasks -> LockRow]
  /\ charged \in [Calls -> Nat]

ControlTypes ==
  /\ due \subseteq Tasks
  /\ row \in [Calls -> CallRow]
  /\ starter = [q \in Starters |-> starter[q]]
  /\ \A q \in Starters : StarterShape(starter[q])
  /\ handler \in [Handlers -> {Idle} \cup HandlerRow]
  /\ dialed \subseteq Calls \X Voice /\ broken \subseteq Calls
  /\ seen \subseteq Calls \X Events \X Doors

SpentFor(c, e) == <<"spend", c, e>> \in keys
ReleasedFor(c, e) == <<"release", c, e>> \in keys

(* A key that is recorded says what became of the lock, and one event      *)
(* spends it.                                                              *)
KeysAgree ==
  \A c \in Calls, e \in Events :
    /\ SpentFor(c, e) => lock[c] = "spent"
    /\ ReleasedFor(c, e) => lock[c] = "released"
    /\ \A f \in Events : SpentFor(c, e) /\ SpentFor(c, f) => e = f

(* An additional lock is of the event that spent the call's, and is for    *)
(* what a duration costs above the estimate.                               *)
ExtraBacked ==
  \A c \in Calls, e \in Events :
    LET x == extra[<<c, e>>] IN
    x.status # "none" =>
      /\ SpentFor(c, e) /\ x.status \in {"active", "spent"} /\ x.credits > 0
      /\ \E s \in Durations : x.credits = Cost(s) - Estimate

(* What is charged for a call are its lock and its additional lock, once   *)
(* each.                                                                   *)
ChargedSoFar(c, e) ==
  Estimate + (IF extra[<<c, e>>].status = "spent" THEN extra[<<c, e>>].credits ELSE 0)

ChargesAdd ==
  \A c \in Calls :
    /\ lock[c] # "expired"
    /\ lock[c] # "spent" => charged[c] = 0
    /\ lock[c] = "spent" =>
         \E e \in Events : SpentFor(c, e) /\ charged[c] = ChargedSoFar(c, e)

(* A handler that goes on to an additional lock has spent the call's.      *)
ExtraDue ==
  \A h \in Handlers :
    handler[h].at \in {"extra lock", "extra spend"} =>
      /\ SpentFor(handler[h].call, handler[h].event)
      /\ handler[h].paid = Estimate /\ Due(h) > Estimate

Money == KeysAgree /\ ExtraBacked /\ ChargesAdd /\ ExtraDue

CallInv == LedgerTypes /\ ControlTypes /\ CreditsAccounted /\ Money

-----------------------------------------------------------------------------
(* What a call costs.                                                      *)

(* The started minutes of a call.                                          *)
Minutes(s) == IF s = 0 THEN 1 ELSE (s + 59) \div 60

LEMMA MinutesFit ==
  ASSUME NEW s \in Nat
  PROVE  /\ Minutes(s) \in Nat \ {0} /\ Minutes(s) <= s + 1
         /\ 60 * Minutes(s) >= s /\ (Minutes(s) > 1 => 60 * (Minutes(s) - 1) < s)
<1>1. (s + 59) \div 60 \in Int /\ 60 * ((s + 59) \div 60) <= s + 59
      /\ s < 60 * ((s + 59) \div 60) + 1
  BY Z3
<1> QED
  BY <1>1 DEF Minutes

LEMMA CostIsMinutes ==
  ASSUME NEW s \in Nat
  PROVE  Cost(s) = Minutes(s) * Rate
<1> DEFINE m == (s + 59) \div 60
<1>1. m \in Int /\ 60 * m <= s + 59 /\ s < 60 * m + 1
  BY Z3
<1>2. Ceil(s, 60) = m
  BY DEF Ceil
<1>3. Ceil(60, 60) = 1 /\ Ceil(m * 60, 60) = m
  BY <1>1 DEF Ceil
<1> HIDE DEF m
<1>4. CASE s = 0
  <2>1. Cost(s) = Ceil(60, 60) * Rate
    BY <1>4 DEF Cost
  <2> QED
    BY <1>3, <1>4, <2>1 DEF Minutes
<1>5. CASE s # 0
  <2>1. m * 60 >= 60
    BY <1>1, <1>5
  <2>2. Cost(s) = Ceil(m * 60, 60) * Rate
    BY <1>1, <1>2, <1>5, <2>1 DEF Cost
  <2> QED
    BY <1>3, <1>5, <2>2 DEF Minutes, m
<1> QED
  BY <1>4, <1>5

LEMMA CostIsPrice ==
  ASSUME NEW s \in Nat
  PROVE  Cost(s) = Price(s)
<1> DEFINE Fits(m) == 60 * m >= s /\ (m > 1 => 60 * (m - 1) < s)
<1>1. Minutes(s) \in 1..(s + 1) /\ Fits(Minutes(s))
  BY MinutesFit
<1>2. \A m \in 1..(s + 1) : Fits(m) => m = Minutes(s)
  <2> SUFFICES ASSUME NEW m \in 1..(s + 1), Fits(m)
               PROVE  m = Minutes(s)
    OBVIOUS
  <2> DEFINE k == Minutes(s)
  <2>1. k \in Nat /\ k >= 1 /\ 60 * k >= s /\ (k > 1 => 60 * (k - 1) < s)
    BY MinutesFit
  <2> HIDE DEF k
  <2>2. m \in Nat /\ m >= 1 /\ 60 * m >= s /\ (m > 1 => 60 * (m - 1) < s)
    OBVIOUS
  <2>3. m = k
    BY <2>1, <2>2
  <2> QED
    BY <2>3 DEF k
<1>3. (CHOOSE m \in 1..(s + 1) : Fits(m)) = Minutes(s)
  BY <1>1, <1>2
<1>4. Price(s) = Rate * Minutes(s)
  BY <1>3 DEF Price
<1> QED
  BY <1>4, CostIsMinutes, MinutesFit, CallsAssumption

(* No call costs less than the estimate that is locked for it.             *)
LEMMA CostFacts ==
  /\ Estimate \in Nat \ {0}
  /\ \A s \in Nat : /\ Cost(s) \in Nat /\ Cost(s) >= Estimate
                    /\ Least(Estimate, Cost(s)) = Estimate
<1>1. Estimate = Rate
  BY CallsAssumption DEF Estimate, Ceil
<1>2. ASSUME NEW s \in Nat
      PROVE  Cost(s) \in Nat /\ Cost(s) >= Estimate
  <2> DEFINE m == Minutes(s)
  <2>1. m \in Nat /\ m >= 1 /\ Cost(s) = m * Rate /\ Rate \in Nat
    BY CostIsMinutes, MinutesFit, CallsAssumption
  <2> HIDE DEF m
  <2>2. m * Rate \in Nat /\ m * Rate >= Rate
    BY <2>1
  <2> QED
    BY <1>1, <2>1, <2>2
<1> QED
  BY <1>1, <1>2, CallsAssumption DEF Least

LEMMA DurationsAreNumbers == Durations \subseteq Nat /\ 0 \in Durations
  BY CallsAssumption DEF Durations

-----------------------------------------------------------------------------
(* Totals of locked credits.                                               *)

(* What a row adds to the total.                                           *)
Held(r) == IF r.status = "active" THEN r.credits ELSE 0

(* The elements a row of n credits adds to CreditsIn.                      *)
Column(x, n) == {x} \X (1..n)

LEMMA ColumnSize ==
  ASSUME NEW x, NEW n \in Nat
  PROVE  IsFiniteSet(Column(x, n)) /\ Cardinality(Column(x, n)) = n
<1>1. IsFiniteSet({x}) /\ Cardinality({x}) = 1
  BY FS_Singleton
<1>2. IsFiniteSet(1..n) /\ Cardinality(1..n) = n
  BY FS_Interval
<1> DEFINE S == {x}  T == 1..n
<1>3. IsFiniteSet(S \X T) /\ Cardinality(S \X T) = Cardinality(S) * Cardinality(T)
  <2> HIDE DEF S, T
  <2> QED
    BY <1>1, <1>2, FS_Product DEF S, T
<1> QED
  BY <1>1, <1>2, <1>3 DEF Column

(* The locked credits are finitely many.                                   *)
LEMMA CreditsFinite ==
  ASSUME NEW S, IsFiniteSet(S), NEW g
  PROVE  IsFiniteSet(CreditsIn(S, g)) /\ Cardinality(CreditsIn(S, g)) \in Nat
<1>1. IsFiniteSet(1..MaxCredits)
  BY CallsAssumption, FS_Interval
<1>2. IsFiniteSet(S \X (1..MaxCredits))
  BY <1>1, FS_Product
<1>3. CreditsIn(S, g) \in SUBSET (S \X (1..MaxCredits))
  BY DEF CreditsIn
<1>4. IsFiniteSet(CreditsIn(S, g))
  BY <1>2, <1>3, FS_Subset
<1> QED
  BY <1>4, FS_CardinalityType

(* The total of a table is what one row holds and the total of the others. *)
LEMMA RowAndOthers ==
  ASSUME NEW S, IsFiniteSet(S), NEW x \in S, NEW g, g[x] \in LockRow
  PROVE  Cardinality(CreditsIn(S, g)) = Cardinality(CreditsIn(S \ {x}, g)) + Held(g[x])
<1> DEFINE n == Held(g[x])
           rest == CreditsIn(S \ {x}, g)
<1>1. n \in 0..MaxCredits /\ n \in Nat
  BY CallsAssumption DEF Held, LockRow
<1>2. CreditsIn(S, g) = rest \cup Column(x, n)
  BY <1>1, CallsAssumption DEF CreditsIn, Column, Held, LockRow
<1>3. rest \cap Column(x, n) = {}
  BY DEF CreditsIn, Column
<1>4. IsFiniteSet(S \ {x})
  BY FS_RemoveElement
<1>5. IsFiniteSet(rest) /\ Cardinality(rest) \in Nat
  BY <1>4, CreditsFinite
<1>6. IsFiniteSet(Column(x, n)) /\ Cardinality(Column(x, n)) = n
  BY <1>1, ColumnSize
<1> HIDE DEF n, rest
<1>7. Cardinality(rest \cup Column(x, n)) =
        Cardinality(rest) + Cardinality(Column(x, n)) - Cardinality(rest \cap Column(x, n))
  BY <1>5, <1>6, FS_Union
<1>8. Cardinality(rest \cap Column(x, n)) = 0
  BY <1>3, FS_EmptySet
<1>9. Cardinality(CreditsIn(S, g)) = Cardinality(rest) + n
  BY <1>1, <1>2, <1>5, <1>6, <1>7, <1>8
<1> QED
  BY <1>9 DEF n, rest

(* Two tables that differ in one row.                                      *)
LEMMA OneRow ==
  ASSUME NEW S, IsFiniteSet(S), NEW x \in S,
         NEW g \in [S -> LockRow], NEW f \in [S -> LockRow],
         \A y \in S \ {x} : f[y] = g[y]
  PROVE  Cardinality(CreditsIn(S, f)) =
           Cardinality(CreditsIn(S, g)) + Held(f[x]) - Held(g[x])
<1>1. CreditsIn(S \ {x}, f) = CreditsIn(S \ {x}, g)
  BY DEF CreditsIn
<1>2. /\ Cardinality(CreditsIn(S, f)) = Cardinality(CreditsIn(S \ {x}, f)) + Held(f[x])
      /\ Cardinality(CreditsIn(S, g)) = Cardinality(CreditsIn(S \ {x}, g)) + Held(g[x])
  BY RowAndOthers
<1>3. Held(f[x]) \in Nat /\ Held(g[x]) \in Nat
  BY DEF Held, LockRow
<1>4. Cardinality(CreditsIn(S \ {x}, g)) \in Nat
  BY FS_RemoveElement, CreditsFinite
<1> QED
  BY <1>1, <1>2, <1>3, <1>4

(* The calls whose lock is active are finitely many.                       *)
LEMMA ActiveFinite == IsFiniteSet(ActiveCalls) /\ Cardinality(ActiveCalls) \in Nat
<1>1. IsFiniteSet(ActiveCalls)
  BY CallsAssumption, FS_Subset DEF ActiveCalls
<1> QED
  BY <1>1, FS_CardinalityType

-----------------------------------------------------------------------------
(* What one step may do to the account.                                    *)

SameKeys == \A c \in Calls, e \in Events :
  (SpentFor(c, e)' <=> SpentFor(c, e)) /\ (ReleasedFor(c, e)' <=> ReleasedFor(c, e))

Untouched == UNCHANGED <<balance, locked, lock, extra, other, charged>> /\ SameKeys

Funded ==
  /\ \E n \in Nat : balance' = balance + n /\ balance + n <= MaxCredits
  /\ UNCHANGED <<locked, lock, extra, other, charged>> /\ SameKeys

SpendsCall(c, e) == ~SpentFor(c, e) /\ SpendLock(c, e, Estimate)

ReleasesCall(c) ==
  \E key \in {<<"start", c>>} \cup {<<"release", c, e>> : e \in Events} : ReleaseLock(c, key)

LocksExtra(h) ==
  LET x == <<handler[h].call, handler[h].event>> IN
  /\ At(h, "extra lock") /\ extra[x].status = "none" /\ Available >= Short(h)
  /\ locked' = locked + Short(h)
  /\ extra' = [extra EXCEPT ![x] = [status |-> "active", credits |-> Short(h)]]
  /\ UNCHANGED <<balance, lock, other, keys, charged>>

SpendsExtra(h) ==
  LET x == <<handler[h].call, handler[h].event>> IN
  /\ At(h, "extra spend") /\ extra[x].status = "active"
  /\ balance' = balance - extra[x].credits
  /\ locked' = locked - extra[x].credits
  /\ extra' = [extra EXCEPT ![x].status = "spent"]
  /\ charged' = [charged EXCEPT ![x[1]] = @ + extra[x].credits]
  /\ UNCHANGED <<lock, other, keys>>

LocksOther(o) ==
  /\ other[o] = NoLock
  /\ \E n \in 1..MaxCredits :
       /\ Available >= n /\ locked' = locked + n
       /\ other' = [other EXCEPT ![o] = [status |-> "active", credits |-> n]]
  /\ UNCHANGED <<balance, lock, extra, keys, charged>>

SettlesOther(o) ==
  /\ other[o].status = "active"
  /\ \E n \in 0..other[o].credits, s \in LockStatuses \ {"active"} :
       /\ balance' = balance - n
       /\ other' = [other EXCEPT ![o].status = s]
  /\ locked' = locked - other[o].credits
  /\ UNCHANGED <<lock, extra, keys, charged>>

AccountStep ==
  \/ Untouched \/ Funded
  \/ \E c \in Calls : OpenLock(c) \/ ReleasesCall(c) \/ \E e \in Events : SpendsCall(c, e)
  \/ \E h \in Handlers : handler[h] \in HandlerRow /\ (LocksExtra(h) \/ SpendsExtra(h))
  \/ \E o \in Tasks : LocksOther(o) \/ SettlesOther(o)

(* A request that is not idle, and a handler that is not.                  *)
LEMMA Busy ==
  ASSUME ControlTypes
  PROVE  /\ \A q \in Starters : starter[q].at # "idle" => starter[q].call \in Calls
         /\ \A h \in Handlers : handler[h].at # "idle" => handler[h] \in HandlerRow
BY DEF ControlTypes, StarterShape, Idle

(* Every step of a request, a handler, another service or a job is one of  *)
(* these for the account.                                                  *)
LEMMA AccountSteps == LedgerTypes /\ ControlTypes /\ [Next]_vars => AccountStep
<1> SUFFICES ASSUME LedgerTypes, ControlTypes, [Next]_vars
             PROVE  AccountStep
  OBVIOUS
<1>1. ASSUME UNCHANGED account
      PROVE  AccountStep
  BY <1>1 DEF account, AccountStep, Untouched, SameKeys, SpentFor, ReleasedFor
<1>2. ASSUME NEW n \in 1..MaxCredits, Buy(n)
      PROVE  AccountStep
  BY <1>2 DEF Buy, AccountStep, Funded, SameKeys, SpentFor, ReleasedFor
<1>3. ASSUME NEW o \in Tasks,
             \/ ReleaseOther(o) \/ ListDue(o) \/ ExpireLock(o)
             \/ \E n \in 1..MaxCredits : LockOther(o, n) \/ SpendOther(o, n) \/ RefundOther(o, n)
      PROVE  AccountStep
  <2> USE DEF others, AccountStep
  <2>0. ASSUME other[o].status = "active", NEW n \in Nat, n <= other[o].credits,
               balance' = balance - n, locked' = locked - other[o].credits,
               NEW s \in {"spent", "released", "expired"},
               other' = [other EXCEPT ![o].status = s],
               UNCHANGED <<lock, extra, keys, charged>>
        PROVE  AccountStep
    <3>1. n \in 0..other[o].credits /\ s \in LockStatuses \ {"active"}
      BY <2>0 DEF LedgerTypes, LockRow, LockStatuses
    <3>2. SettlesOther(o)
      BY <2>0, <3>1 DEF SettlesOther
    <3> QED
      BY <3>2
  <2>7. 0 <= other[o].credits /\ balance = balance - 0
    BY DEF LedgerTypes, LockRow
  <2>1. CASE ReleaseOther(o)
    BY <2>0, <2>1, <2>7 DEF ReleaseOther
  <2>2. CASE ListDue(o)
    BY <2>2 DEF ListDue, Untouched, SameKeys, SpentFor, ReleasedFor
  <2>3. CASE ExpireLock(o)
    <3>1. CASE other[o].status = "active"
      BY <2>0, <2>3, <2>7, <3>1 DEF ExpireLock
    <3>2. CASE other[o].status # "active"
      BY <2>3, <3>2 DEF ExpireLock, Untouched, SameKeys, SpentFor, ReleasedFor
    <3> QED
      BY <3>1, <3>2
  <2>4. ASSUME NEW n \in 1..MaxCredits, LockOther(o, n)
        PROVE  AccountStep
    BY <2>4 DEF LockOther, LocksOther
  <2>5. ASSUME NEW n \in 1..MaxCredits, SpendOther(o, n)
        PROVE  AccountStep
    BY <2>0, <2>5 DEF SpendOther
  <2>6. ASSUME NEW n \in 1..MaxCredits, RefundOther(o, n)
        PROVE  AccountStep
    BY <2>6 DEF RefundOther, Funded, SameKeys, SpentFor, ReleasedFor
  <2> QED
    BY <1>3, <2>1, <2>2, <2>3, <2>4, <2>5, <2>6
<1>4. ASSUME NEW q \in Starters, StartStep(q) \/ Crash(q) \/ \E c \in Calls : Start(q, c)
      PROVE  AccountStep
  <2>1. CASE TakeLock(q)
    BY <1>1, <2>1, Busy DEF TakeLock, AskAt, AccountStep
  <2>2. CASE GiveBack(q)
    BY <1>1, <2>2, Busy DEF GiveBack, AskAt, AccountStep, ReleasesCall
  <2>3. CASE \/ Create(q) \/ Refused(q) \/ Dial(q) \/ DialFails(q) \/ NoCarrier(q)
             \/ SaveCall(q) \/ SaveFails(q) \/ SaveFailed(q) \/ Crash(q)
             \/ \E c \in Calls : Start(q, c)
    BY <1>1, <2>3
       DEF Create, Refused, Dial, DialFails, NoCarrier, SaveCall, SaveFails, SaveFailed,
           Crash, Start
  <2> QED
    BY <1>4, <2>1, <2>2, <2>3 DEF StartStep
<1>5. ASSUME NEW h \in Handlers, Step(h) \/ Die(h)
      PROVE  AccountStep
  <2>1. CASE SettleFromLock(h)
    <3>1. handler[h] \in HandlerRow
      BY <2>1, Busy DEF SettleFromLock, At
    <3>2. Least(Estimate, Due(h)) = Estimate
      BY <3>1, CostFacts, DurationsAreNumbers DEF HandlerRow, CallRow, Due
    <3> QED
      BY <1>1, <2>1, <3>1, <3>2
         DEF SettleFromLock, AccountStep, SpendsCall, SpentFor, HandlerRow
  <2>2. CASE TakeExtra(h)
    BY <1>1, <2>2, Busy DEF TakeExtra, At, AccountStep, LocksExtra
  <2>3. CASE SpendExtra(h)
    BY <1>1, <2>3, Busy DEF SpendExtra, At, AccountStep, SpendsExtra
  <2>4. CASE SettleFailure(h)
    <3>1. handler[h] \in HandlerRow
      BY <2>4, Busy DEF SettleFailure, At
    <3> QED
      BY <1>1, <2>4, <3>1 DEF SettleFailure, AccountStep, ReleasesCall, HandlerRow
  <2>5. CASE ExtraFails(h) \/ LockGone(h) \/ Save(h) \/ Die(h)
    BY <1>1, <2>5 DEF ExtraFails, LockGone, Save, Die
  <2> QED
    BY <1>5, <2>1, <2>2, <2>3, <2>4, <2>5 DEF Step
<1>6. ASSUME NEW h \in Handlers, NEW c \in Calls, NEW e \in Events,
             HearTwilio(h, c, e) \/ HearBandwidth(h, c, e) \/ HearBandwidthVoice(h, c, e)
      PROVE  AccountStep
  BY <1>1, <1>6 DEF HearTwilio, HearBandwidth, HearBandwidthVoice, Receive
<1>7. CASE UNCHANGED vars
  BY <1>1, <1>7 DEF vars
<1> QED
  BY <1>2, <1>3, <1>4, <1>5, <1>6, <1>7 DEF Next

-----------------------------------------------------------------------------
(* The account adds up.                                                    *)

LEMMA LockTaken ==
  ASSUME LedgerTypes, NEW c \in Calls, lock[c] # "active",
         lock' = [lock EXCEPT ![c] = "active"]
  PROVE  Cardinality(ActiveCalls') = Cardinality(ActiveCalls) + 1
<1>1. ActiveCalls' = ActiveCalls \cup {c} /\ c \notin ActiveCalls
  BY DEF ActiveCalls, LedgerTypes
<1> QED
  BY <1>1, ActiveFinite, FS_AddElement

LEMMA LockSettled ==
  ASSUME LedgerTypes, NEW c \in Calls, lock[c] = "active", NEW s, s # "active",
         lock' = [lock EXCEPT ![c] = s]
  PROVE  /\ Cardinality(ActiveCalls') = Cardinality(ActiveCalls) - 1
         /\ Cardinality(ActiveCalls) >= 1
<1>1. ActiveCalls' = ActiveCalls \ {c} /\ c \in ActiveCalls
  BY DEF ActiveCalls, LedgerTypes
<1>2. /\ Cardinality(ActiveCalls') = Cardinality(ActiveCalls) - 1
      /\ IsFiniteSet(ActiveCalls')
  BY <1>1, ActiveFinite, FS_RemoveElement
<1>3. Cardinality(ActiveCalls') \in Nat
  BY <1>2, FS_CardinalityType
<1> QED
  BY <1>2, <1>3, ActiveFinite

(* The three totals.                                                       *)
ExtraTotal == Cardinality(CreditsIn(Calls \X Events, extra))
OtherTotal == Cardinality(CreditsIn(Tasks, other))

LEMMA TotalsAreNumbers ==
  ExtraTotal \in Nat /\ OtherTotal \in Nat /\ ExtraTotal' \in Nat /\ OtherTotal' \in Nat
<1>1. IsFiniteSet(Calls \X Events)
  BY CallsAssumption, FS_Product
<1> QED
  BY <1>1, CallsAssumption, CreditsFinite DEF ExtraTotal, OtherTotal

(* An active row comes, or goes.                                           *)
LEMMA ExtraOpens ==
  ASSUME LedgerTypes, NEW x \in Calls \X Events, extra[x].status # "active",
         NEW a \in 0..MaxCredits,
         extra' = [extra EXCEPT ![x] = [status |-> "active", credits |-> a]]
  PROVE  ExtraTotal' = ExtraTotal + a /\ extra' \in [Calls \X Events -> LockRow]
<1>1. /\ extra \in [Calls \X Events -> LockRow] /\ extra' \in [Calls \X Events -> LockRow]
      /\ \A y \in (Calls \X Events) \ {x} : extra'[y] = extra[y]
      /\ extra'[x].status = "active" /\ extra'[x].credits = a
  BY DEF LedgerTypes, LockRow, LockStatuses
<1>2. IsFiniteSet(Calls \X Events)
  BY CallsAssumption, FS_Product
<1>3. ExtraTotal' = ExtraTotal + Held(extra'[x]) - Held(extra[x])
  BY ONLY <1>1, <1>2, x \in Calls \X Events, OneRow DEF ExtraTotal
<1>4. Held(extra'[x]) = a /\ Held(extra[x]) = 0
  BY <1>1 DEF Held
<1> QED
  BY <1>1, <1>3, <1>4, TotalsAreNumbers

LEMMA ExtraSettles ==
  ASSUME LedgerTypes, NEW x \in Calls \X Events, extra[x].status = "active",
         NEW s \in LockStatuses \ {"active"},
         extra' = [extra EXCEPT ![x].status = s]
  PROVE  /\ ExtraTotal' = ExtraTotal - extra[x].credits
         /\ extra' \in [Calls \X Events -> LockRow]
<1>1. extra \in [Calls \X Events -> LockRow] /\ extra[x] \in LockRow /\ extra[x].credits \in Nat
  BY DEF LedgerTypes, LockRow
<1>2. /\ extra' \in [Calls \X Events -> LockRow] /\ extra'[x].status = s
      /\ \A y \in (Calls \X Events) \ {x} : extra'[y] = extra[y]
  BY <1>1 DEF LockRow
<1>3. IsFiniteSet(Calls \X Events)
  BY CallsAssumption, FS_Product
<1>4. ExtraTotal' = ExtraTotal + Held(extra'[x]) - Held(extra[x])
  BY ONLY <1>1, <1>2, <1>3, x \in Calls \X Events, OneRow DEF ExtraTotal
<1>5. Held(extra'[x]) = 0 /\ Held(extra[x]) = extra[x].credits
  BY <1>2 DEF Held
<1> QED
  BY <1>1, <1>2, <1>4, <1>5, TotalsAreNumbers

(* An active row comes, or goes.                                           *)
LEMMA OtherOpens ==
  ASSUME LedgerTypes, NEW o \in Tasks, other[o].status # "active",
         NEW a \in 0..MaxCredits,
         other' = [other EXCEPT ![o] = [status |-> "active", credits |-> a]]
  PROVE  OtherTotal' = OtherTotal + a /\ other' \in [Tasks -> LockRow]
<1>1. /\ other \in [Tasks -> LockRow] /\ other' \in [Tasks -> LockRow]
      /\ \A y \in (Tasks) \ {o} : other'[y] = other[y]
      /\ other'[o].status = "active" /\ other'[o].credits = a
  BY DEF LedgerTypes, LockRow, LockStatuses
<1>2. IsFiniteSet(Tasks)
  BY CallsAssumption
<1>3. OtherTotal' = OtherTotal + Held(other'[o]) - Held(other[o])
  BY ONLY <1>1, <1>2, o \in Tasks, OneRow DEF OtherTotal
<1>4. Held(other'[o]) = a /\ Held(other[o]) = 0
  BY <1>1 DEF Held
<1> QED
  BY <1>1, <1>3, <1>4, TotalsAreNumbers

LEMMA OtherSettles ==
  ASSUME LedgerTypes, NEW o \in Tasks, other[o].status = "active",
         NEW s \in LockStatuses \ {"active"},
         other' = [other EXCEPT ![o].status = s]
  PROVE  /\ OtherTotal' = OtherTotal - other[o].credits
         /\ other' \in [Tasks -> LockRow]
<1>1. other \in [Tasks -> LockRow] /\ other[o] \in LockRow /\ other[o].credits \in Nat
  BY DEF LedgerTypes, LockRow
<1>2. /\ other' \in [Tasks -> LockRow] /\ other'[o].status = s
      /\ \A y \in (Tasks) \ {o} : other'[y] = other[y]
  BY <1>1 DEF LockRow
<1>3. IsFiniteSet(Tasks)
  BY CallsAssumption
<1>4. OtherTotal' = OtherTotal + Held(other'[o]) - Held(other[o])
  BY ONLY <1>1, <1>2, <1>3, o \in Tasks, OneRow DEF OtherTotal
<1>5. Held(other'[o]) = 0 /\ Held(other[o]) = other[o].credits
  BY <1>2 DEF Held
<1> QED
  BY <1>1, <1>2, <1>4, <1>5, TotalsAreNumbers

(* A step that moves the locked balance with the totals, and keeps it      *)
(* within the balance, keeps the account.                                  *)
LEMMA StillAccounted ==
  ASSUME LedgerTypes, CreditsAccounted, NEW d \in Int, locked' = locked + d,
         HeldCredits' = HeldCredits + d, HeldCredits' \in Nat,
         balance' \in Int, balance' <= MaxCredits, locked' <= balance'
  PROVE  balance' \in 0..MaxCredits /\ locked' \in 0..MaxCredits /\ CreditsAccounted'
BY CallsAssumption DEF CreditsAccounted, LedgerTypes

LEMMA HeldIsTotal ==
  /\ HeldCredits = Estimate * Cardinality(ActiveCalls) + ExtraTotal + OtherTotal
  /\ HeldCredits' = Estimate * Cardinality(ActiveCalls') + ExtraTotal' + OtherTotal'
BY DEF HeldCredits, ExtraTotal, OtherTotal

LEMMA LedgerStep ==
  ASSUME CallInv, AccountStep
  PROVE  LedgerTypes' /\ CreditsAccounted'
<1> DEFINE n == Cardinality(ActiveCalls)
<1>0. /\ LedgerTypes /\ CreditsAccounted
      /\ balance \in Nat /\ locked \in Nat /\ MaxCredits \in Nat /\ balance <= MaxCredits
      /\ locked <= balance /\ locked = HeldCredits
      /\ Estimate \in Nat \ {0} /\ n \in Nat
  BY CallsAssumption, CostFacts, ActiveFinite DEF CallInv, LedgerTypes, CreditsAccounted
<1>1. CASE Untouched \/ Funded
  <2>1. UNCHANGED <<locked, lock, extra, other, charged>>
    BY <1>1 DEF Untouched, Funded
  <2>2. HeldCredits' = HeldCredits
    BY <2>1 DEF HeldCredits, ActiveCalls
  <2>3. balance' \in Nat /\ balance' >= balance /\ balance' <= MaxCredits
    BY <1>0, <1>1 DEF Untouched, Funded
  <2> QED
    BY <1>0, <2>1, <2>2, <2>3 DEF LedgerTypes, CreditsAccounted
<1>2. ASSUME NEW c \in Calls, OpenLock(c)
      PROVE  LedgerTypes' /\ CreditsAccounted'
  <2>1. n' = n + 1 /\ ExtraTotal' = ExtraTotal /\ OtherTotal' = OtherTotal
    BY <1>0, <1>2, LockTaken DEF OpenLock, ExtraTotal, OtherTotal
  <2>2. HeldCredits' = HeldCredits + Estimate
    BY <1>0, <2>1, HeldIsTotal, TotalsAreNumbers
  <2> QED
    BY <1>0, <1>2, <2>2, StillAccounted
       DEF OpenLock, Available, LedgerTypes, LockStatuses
<1>3. ASSUME NEW c \in Calls, NEW s \in {"spent", "released"}, lock[c] = "active",
             lock' = [lock EXCEPT ![c] = s], UNCHANGED <<extra, other>>,
             locked' = locked - Estimate
      PROVE  HeldCredits' = HeldCredits - Estimate /\ HeldCredits' \in Nat
  <2>1. n' = n - 1 /\ n >= 1 /\ ExtraTotal' = ExtraTotal /\ OtherTotal' = OtherTotal
    BY <1>0, <1>3, LockSettled DEF ExtraTotal, OtherTotal
  <2> HIDE DEF n
  <2>2. n' \in Nat /\ Estimate * n = Estimate * n' + Estimate /\ Estimate * n' \in Nat
    BY <1>0, <2>1
  <2> QED
    BY <1>0, <2>1, <2>2, HeldIsTotal, TotalsAreNumbers DEF n
<1>4. ASSUME NEW c \in Calls, ReleasesCall(c)
      PROVE  LedgerTypes' /\ CreditsAccounted'
  <2>1. /\ lock[c] = "active" /\ lock' = [lock EXCEPT ![c] = "released"]
        /\ locked' = locked - Estimate /\ UNCHANGED <<balance, extra, other, charged>>
    BY <1>4 DEF ReleasesCall, ReleaseLock
  <2>2. HeldCredits' = HeldCredits - Estimate /\ HeldCredits' \in Nat
    BY <1>3, <2>1
  <2> QED
    BY <1>0, <2>1, <2>2, StillAccounted DEF LedgerTypes, LockStatuses
<1>5. ASSUME NEW c \in Calls, NEW e \in Events, SpendsCall(c, e)
      PROVE  LedgerTypes' /\ CreditsAccounted'
  <2>1. /\ lock[c] = "active" /\ lock' = [lock EXCEPT ![c] = "spent"]
        /\ balance' = balance - Estimate /\ locked' = locked - Estimate
        /\ charged' = [charged EXCEPT ![c] = @ + Estimate] /\ UNCHANGED <<extra, other>>
    BY <1>5 DEF SpendsCall, SpendLock
  <2>2. HeldCredits' = HeldCredits - Estimate /\ HeldCredits' \in Nat
    BY <1>3, <2>1
  <2>3. charged' \in [Calls -> Nat]
    BY <1>0, <2>1 DEF LedgerTypes
  <2> QED
    BY <1>0, <2>1, <2>2, <2>3, StillAccounted DEF LedgerTypes, LockStatuses
<1>6. ASSUME NEW h \in Handlers, handler[h] \in HandlerRow, LocksExtra(h)
      PROVE  LedgerTypes' /\ CreditsAccounted'
  <2> DEFINE x == <<handler[h].call, handler[h].event>>
             r == [status |-> "active", credits |-> Short(h)]
  <2>1. /\ x \in Calls \X Events /\ extra[x].status = "none" /\ Available >= Short(h)
        /\ locked' = locked + Short(h) /\ extra' = [extra EXCEPT ![x] = r]
        /\ UNCHANGED <<balance, lock, other, charged>>
    BY <1>6 DEF LocksExtra, HandlerRow
  <2>2. Short(h) \in Nat
    <3>1. handler[h].paid = Estimate /\ Due(h) > Estimate
      BY <1>6 DEF CallInv, Money, ExtraDue, LocksExtra, At
    <3>2. Due(h) \in Nat
      BY <1>6, CostFacts, DurationsAreNumbers DEF Due, HandlerRow, CallRow
    <3> QED
      BY <1>0, <3>1, <3>2 DEF Short
  <2>3. Short(h) \in 0..MaxCredits
    BY <1>0, <2>1, <2>2 DEF Available
  <2>4. ExtraTotal' = ExtraTotal + Short(h) /\ extra' \in [Calls \X Events -> LockRow]
    BY <1>0, <2>1, <2>3, ExtraOpens
  <2>5. HeldCredits' = HeldCredits + Short(h)
    BY <1>0, <2>1, <2>2, <2>4, HeldIsTotal, TotalsAreNumbers
       DEF ActiveCalls, OtherTotal
  <2> HIDE DEF x, r
  <2> QED
    BY <1>0, <2>1, <2>2, <2>4, <2>5, StillAccounted DEF LedgerTypes, Available
<1>7. ASSUME NEW h \in Handlers, handler[h] \in HandlerRow, SpendsExtra(h)
      PROVE  LedgerTypes' /\ CreditsAccounted'
  <2> DEFINE c == handler[h].call
             x == <<handler[h].call, handler[h].event>>
             a == extra[x].credits
  <2>1. c \in Calls /\ x \in Calls \X Events /\ x[1] = c
    BY <1>7 DEF HandlerRow
  <2>2. /\ extra[x].status = "active" /\ balance' = balance - a /\ locked' = locked - a
        /\ extra' = [extra EXCEPT ![x].status = "spent"]
        /\ charged' = [charged EXCEPT ![c] = @ + a] /\ UNCHANGED <<lock, other>>
    BY <1>7, <2>1 DEF SpendsExtra
  <2>3. a \in Nat
    BY <1>0, <2>1 DEF LedgerTypes, LockRow
  <2> HIDE DEF x, a, c
  <2>4. ExtraTotal' = ExtraTotal - a /\ extra' \in [Calls \X Events -> LockRow]
    BY <1>0, <2>1, <2>2, ExtraSettles DEF a, LockStatuses
  <2>5. n' = n /\ Estimate * n \in Nat
    BY <1>0, <2>2 DEF ActiveCalls
  <2>6. HeldCredits' = HeldCredits - a /\ HeldCredits' \in Nat
    BY <1>0, <2>2, <2>3, <2>4, <2>5, HeldIsTotal, TotalsAreNumbers DEF OtherTotal
  <2>7. charged' \in [Calls -> Nat]
    BY <1>0, <2>1, <2>2, <2>3 DEF LedgerTypes
  <2>8. locked' = locked + (0 - a) /\ balance' \in Int /\ balance' <= MaxCredits
    BY <1>0, <2>2, <2>3
  <2>9. balance' \in 0..MaxCredits /\ locked' \in 0..MaxCredits /\ CreditsAccounted'
    BY <1>0, <2>2, <2>3, <2>6, <2>8, StillAccounted
  <2> QED
    BY <1>0, <2>2, <2>4, <2>7, <2>9 DEF LedgerTypes
<1>8. ASSUME NEW o \in Tasks, LocksOther(o)
      PROVE  LedgerTypes' /\ CreditsAccounted'
  <2>1. PICK a \in 1..MaxCredits :
          /\ Available >= a /\ locked' = locked + a
          /\ other' = [other EXCEPT ![o] = [status |-> "active", credits |-> a]]
    BY <1>8 DEF LocksOther
  <2>2. other[o].status # "active" /\ UNCHANGED <<balance, lock, extra, charged>>
    BY <1>8 DEF LocksOther, NoLock
  <2>3. a \in 0..MaxCredits /\ a \in Nat
    OBVIOUS
  <2>4. OtherTotal' = OtherTotal + a /\ other' \in [Tasks -> LockRow]
    BY <1>0, <2>1, <2>2, <2>3, OtherOpens
  <2>5. n' = n /\ Estimate * n \in Nat
    BY <1>0, <2>2 DEF ActiveCalls
  <2>6. HeldCredits' = HeldCredits + a /\ HeldCredits' \in Nat
    BY <1>0, <2>2, <2>3, <2>4, <2>5, HeldIsTotal, TotalsAreNumbers DEF ExtraTotal
  <2> QED
    BY <1>0, <2>1, <2>2, <2>3, <2>4, <2>6, StillAccounted DEF LedgerTypes, Available
<1>9. ASSUME NEW o \in Tasks, SettlesOther(o)
      PROVE  LedgerTypes' /\ CreditsAccounted'
  <2> DEFINE a == other[o].credits
  <2>1. PICK b \in 0..a, s \in LockStatuses \ {"active"} :
          /\ balance' = balance - b /\ other' = [other EXCEPT ![o].status = s]
    BY <1>9 DEF SettlesOther
  <2>2. /\ a \in Nat /\ other[o].status = "active"
        /\ locked' = locked - a /\ UNCHANGED <<lock, extra, charged>>
    BY <1>0, <1>9 DEF SettlesOther, LedgerTypes, LockRow
  <2> HIDE DEF a
  <2>3. b \in Nat /\ b <= a
    BY <2>2
  <2>4. OtherTotal' = OtherTotal - a /\ other' \in [Tasks -> LockRow]
    BY <1>0, <2>1, <2>2, OtherSettles DEF a
  <2>5. n' = n /\ Estimate * n \in Nat
    BY <1>0, <2>2 DEF ActiveCalls
  <2>6. HeldCredits' = HeldCredits - a /\ HeldCredits' \in Nat
    BY <1>0, <2>2, <2>4, <2>5, HeldIsTotal, TotalsAreNumbers DEF ExtraTotal
  <2>7. locked' = locked + (0 - a) /\ balance' \in Int /\ balance' <= MaxCredits
        /\ locked' <= balance'
    BY <1>0, <2>1, <2>2, <2>3
  <2>8. balance' \in 0..MaxCredits /\ locked' \in 0..MaxCredits /\ CreditsAccounted'
    BY <1>0, <2>2, <2>3, <2>6, <2>7, StillAccounted
  <2> QED
    BY <1>0, <2>2, <2>4, <2>8 DEF LedgerTypes
<1> QED
  BY <1>1, <1>2, <1>4, <1>5, <1>6, <1>7, <1>8, <1>9 DEF AccountStep

-----------------------------------------------------------------------------
(* Requests, handlers and call rows keep their shape.                      *)

StartersShaped ==
  /\ starter = [q \in Starters |-> starter[q]]
  /\ \A q \in Starters : StarterShape(starter[q])

LEMMA StatusesKnown ==
  /\ \A word : StoredStatus(word) \in CallStatuses
  /\ \A word : Normalized(word) \in CallStatuses
BY DEF StoredStatus, Normalized, CallStatuses, Failures

LEMMA HeardShape ==
  ASSUME NEW r \in CallRow, NEW e \in Events
  PROVE  /\ Heard(r, e) \in CallRow
         /\ Heard(r, e).status = Normalized(Word[e])
         /\ Heard(r, e).seconds = IF Seconds[e] = NoSeconds THEN r.seconds ELSE Seconds[e]
         /\ Heard(r, e).done = r.done \cup {e}
         /\ Heard(r, e).spent = r.spent
<1>1. Normalized(Word[e]) \in CallStatuses
  BY StatusesKnown
<1>2. Seconds[e] # NoSeconds => Seconds[e] \in Durations
  BY DEF Durations
<1> QED
  BY <1>1, <1>2 DEF Heard, CallRow

LEMMA AskedShape ==
  ASSUME ControlTypes, NEW q \in Starters, NEW r, StarterShape(r),
         starter' = [starter EXCEPT ![q] = r]
  PROVE  StartersShaped'
BY DEF ControlTypes, StartersShaped

(* The ways a request's record is changed.                                 *)
LEMMA RecordSet ==
  ASSUME NEW r, StarterShape(r), r.at # "idle", NEW v
  PROVE  /\ [r EXCEPT !.at = v] =
              [at |-> v, call |-> r.call, sid |-> r.sid, left |-> r.left]
         /\ [r EXCEPT !.left = v] =
              [at |-> r.at, call |-> r.call, sid |-> r.sid, left |-> v]
         /\ [[r EXCEPT !.at = "save"] EXCEPT !.sid = v] =
              [at |-> "save", call |-> r.call, sid |-> v, left |-> r.left]
<1> DEFINE m == [r EXCEPT !.at = "save"]
<1>1. r \in [at : {r.at}, call : {r.call}, sid : {r.sid}, left : {r.left}]
  BY DEF StarterShape, Idle
<1>2. /\ [r EXCEPT !.at = v] = [at |-> v, call |-> r.call, sid |-> r.sid, left |-> r.left]
      /\ [r EXCEPT !.left = v] = [at |-> r.at, call |-> r.call, sid |-> r.sid, left |-> v]
      /\ m = [at |-> "save", call |-> r.call, sid |-> r.sid, left |-> r.left]
  BY <1>1
<1> HIDE DEF m
<1>3. m \in [at : {"save"}, call : {r.call}, sid : {r.sid}, left : {r.left}]
  BY <1>2
<1>4. [m EXCEPT !.sid = v] = [at |-> "save", call |-> r.call, sid |-> v, left |-> r.left]
  BY <1>3
<1> QED
  BY <1>2, <1>4 DEF m

LEMMA StartStepTypes ==
  ASSUME LedgerTypes, ControlTypes, NEW q \in Starters,
         StartStep(q) \/ Crash(q) \/ \E c \in Calls : Start(q, c)
  PROVE  ControlTypes'
<1> USE DEF AskAt, account, events
<1>0. StarterShape(starter[q])
  BY DEF ControlTypes
<1>1. ASSUME NEW step \in {"lock", "create", "dial", "save", "giveback", "fail"},
             starter[q].at # "idle", AskFor(q, step)
      PROVE  StartersShaped'
  <2> DEFINE r == [at |-> step, call |-> starter[q].call, sid |-> starter[q].sid,
                   left |-> starter[q].left]
  <2>2. StarterShape(r)
    BY <1>0, <1>1 DEF StarterShape, Idle
  <2>3. [starter[q] EXCEPT !.at = step] = r
    BY <1>0, <1>1, RecordSet
  <2>4. starter' = [starter EXCEPT ![q] = r]
    BY <1>1, <2>3 DEF AskFor
  <2> HIDE DEF r
  <2> QED
    BY <2>2, <2>4, AskedShape
<1>2. ASSUME Ask(q, Idle)
      PROVE  StartersShaped'
  BY <1>2, AskedShape DEF Ask, StarterShape
<1>3. ASSUME StartersShaped', UNCHANGED <<due, row, dialed, handler, broken, seen>>
      PROVE  ControlTypes'
  BY <1>3 DEF ControlTypes, StartersShaped
<1>4. ASSUME starter[q].at # "idle"
      PROVE  starter[q].call \in Calls /\ starter[q].sid \in Voice \cup {Nobody}
  BY <1>0, <1>4 DEF StarterShape, Idle
<1>5. CASE TakeLock(q)
  BY <1>1, <1>3, <1>5 DEF TakeLock, OpenLock
<1>6. CASE Create(q)
  <2>1. row' \in [Calls -> CallRow]
    BY <1>4, <1>6 DEF Create, ControlTypes, CallRow, CallStatuses
  <2> QED
    BY <1>1, <1>6, <2>1 DEF Create, ControlTypes, StartersShaped
<1>7. CASE Refused(q) \/ NoCarrier(q) \/ SaveFails(q)
  <2>1. CASE Refused(q)
    BY <1>2, <1>3, <2>1 DEF Refused
  <2>2. CASE NoCarrier(q)
    BY <1>1, <1>3, <2>2 DEF NoCarrier
  <2>3. CASE SaveFails(q)
    BY <1>1, <1>3, <2>3 DEF SaveFails
  <2> QED
    BY <1>7, <2>1, <2>2, <2>3
<1>8. CASE Dial(q)
  <2> DEFINE r == [at |-> "save", call |-> starter[q].call, sid |-> Asked(q),
                   left |-> starter[q].left]
  <2>1. Asked(q) \in Voice /\ starter[q].call \in Calls /\ starter[q].at = "dial"
    BY <1>4, <1>8 DEF Dial, More
  <2>2. starter' = [starter EXCEPT ![q] = r]
    <3>1. [[starter[q] EXCEPT !.at = "save"] EXCEPT !.sid = Asked(q)] = r
      BY <1>0, <2>1, RecordSet
    <3>2. starter' = [starter EXCEPT ![q] = [[starter[q] EXCEPT !.at = "save"]
                                                EXCEPT !.sid = Asked(q)]]
      BY <1>8 DEF Dial, ControlTypes
    <3> QED
      BY <3>1, <3>2
  <2>3. StarterShape(r)
    BY <2>1 DEF StarterShape
  <2> HIDE DEF r
  <2>4. StartersShaped'
    BY <2>2, <2>3, AskedShape
  <2> QED
    BY <1>8, <2>1, <2>4 DEF Dial, ControlTypes, StartersShaped
<1>9. CASE DialFails(q)
  <2> DEFINE r == [at |-> starter[q].at, call |-> starter[q].call, sid |-> starter[q].sid,
                   left |-> Tail(starter[q].left)]
  <2>1. starter[q].call \in Calls /\ starter[q].at = "dial"
    BY <1>4, <1>9 DEF DialFails, More
  <2>3. [starter[q] EXCEPT !.left = Tail(@)] = r
    BY <1>0, <2>1, RecordSet
  <2>4. starter' = [starter EXCEPT ![q] = r]
    BY <1>9, <2>3 DEF DialFails
  <2>5. StarterShape(r)
    BY <1>0, <2>1 DEF StarterShape, Idle
  <2> HIDE DEF r
  <2>6. StartersShaped'
    BY <2>4, <2>5, AskedShape
  <2>7. dialed' \subseteq Calls \X Voice
    BY <1>9, <2>1 DEF DialFails, ControlTypes
  <2> QED
    BY <1>9, <2>6, <2>7 DEF DialFails, ControlTypes, StartersShaped
<1>10. CASE SaveCall(q)
  <2>1. row' \in [Calls -> CallRow]
    BY <1>4, <1>10, StatusesKnown DEF SaveCall, ControlTypes, CallRow
  <2> QED
    BY <1>2, <1>10, <2>1 DEF SaveCall, ControlTypes, StartersShaped
<1>11. CASE GiveBack(q)
  <2>1. broken' \subseteq Calls
    BY <1>4, <1>11 DEF GiveBack, ControlTypes
  <2>2. due' = due
    BY <1>11 DEF GiveBack, ReleaseLock, account
  <2> QED
    BY <1>1, <1>11, <2>1, <2>2 DEF GiveBack, ControlTypes, StartersShaped
<1>12. CASE SaveFailed(q)
  <2>1. row' \in [Calls -> CallRow]
    BY <1>4, <1>12 DEF SaveFailed, ControlTypes, CallRow, CallStatuses, Failures
  <2> QED
    BY <1>2, <1>12, <2>1 DEF SaveFailed, account, ControlTypes, StartersShaped
<1>13. CASE Crash(q)
  <2>1. broken' \subseteq Calls
    BY <1>0, <1>13 DEF Crash, ControlTypes, StarterShape
  <2> QED
    BY <1>2, <1>13, <2>1 DEF Crash, account, ControlTypes, StartersShaped
<1>14. ASSUME NEW c \in Calls, Start(q, c)
       PROVE  ControlTypes'
  <2>1. StartersShaped'
    BY <1>14, AskedShape DEF Start, Ask, StarterShape
  <2> QED
    BY <1>3, <1>14, <2>1 DEF Start, account, events
<1> QED
  BY <1>5, <1>6, <1>7, <1>8, <1>9, <1>10, <1>11, <1>12, <1>13, <1>14
     DEF StartStep

(* The record of a handler as it goes on.                                  *)
LEMMA HandlerSet ==
  ASSUME NEW r \in HandlerRow,
         NEW step \in {"spend", "extra lock", "extra spend", "release", "save"},
         NEW n \in Nat
  PROVE  /\ [r EXCEPT !.at = step] \in HandlerRow
         /\ [r EXCEPT !.paid = n, !.at = step] \in HandlerRow
         /\ [r EXCEPT !.at = step, !.copy.short = TRUE] \in HandlerRow
<1> DEFINE m == [r EXCEPT !.at = step]
           p == [r EXCEPT !.paid = n]
           k == [r.copy EXCEPT !.short = TRUE]
<1>1. m \in HandlerRow /\ p \in HandlerRow /\ k \in CallRow /\ m.copy = r.copy
  BY DEF HandlerRow, CallRow
<1>2. [p EXCEPT !.at = step] \in HandlerRow /\ [m EXCEPT !.copy = k] \in HandlerRow
  <2> HIDE DEF m, p, k
  <2> QED
    BY <1>1 DEF HandlerRow
<1>3. [r EXCEPT !.at = step, !.copy.short = TRUE] = [m EXCEPT !.copy = k]
  BY <1>1
<1> QED
  BY <1>1, <1>2, <1>3

LEMMA StepTypes ==
  ASSUME LedgerTypes, ControlTypes, NEW h \in Handlers, Step(h) \/ Die(h)
  PROVE  ControlTypes'
<1> USE DEF At, starting
<1>1. handler[h] \in HandlerRow
  BY Busy DEF Step, Die, SettleFromLock, TakeExtra, SpendExtra, ExtraFails, SettleFailure,
              LockGone, Save, ControlTypes, Idle
<1>2. Due(h) \in Nat /\ Least(Estimate, Due(h)) \in Nat
  BY <1>1, CostFacts, DurationsAreNumbers DEF Due, HandlerRow, CallRow
<1>3. ASSUME NEW r \in {Idle} \cup HandlerRow, handler' = [handler EXCEPT ![h] = r],
             UNCHANGED <<due, row, dialed, starter, seen>>, broken' \subseteq Calls
      PROVE  ControlTypes'
  BY <1>3 DEF ControlTypes
<1>4. broken \subseteq Calls
  BY DEF ControlTypes
<1>5. CASE SettleFromLock(h)
  <2> DEFINE n == Least(Estimate, Due(h))
             step == IF Due(h) > n THEN "extra lock" ELSE "save"
             r == [handler[h] EXCEPT !.paid = n, !.at = step]
  <2>1. r \in HandlerRow
    BY <1>1, <1>2, HandlerSet
  <2>2. handler' = [handler EXCEPT ![h] = r]
    BY <1>5 DEF SettleFromLock
  <2>3. UNCHANGED <<due, row, dialed, starter, seen, broken>>
    BY <1>5 DEF SettleFromLock, SpendLock, account
  <2> HIDE DEF r
  <2> QED
    BY <1>3, <1>4, <2>1, <2>2, <2>3
<1>6. CASE TakeExtra(h)
  <2> DEFINE r == [handler[h] EXCEPT !.at = "extra spend"]
  <2>1. r \in HandlerRow
    BY <1>1, <1>2, HandlerSet
  <2>2. handler' = [handler EXCEPT ![h] = r]
    BY <1>6 DEF TakeExtra, Goto
  <2>3. UNCHANGED <<due, row, dialed, starter, seen, broken>>
    BY <1>6 DEF TakeExtra, account
  <2> HIDE DEF r
  <2> QED
    BY <1>3, <1>4, <2>1, <2>2, <2>3
<1>7. CASE SpendExtra(h)
  <2> DEFINE r == [handler[h] EXCEPT !.paid = Due(h), !.at = "save"]
  <2>1. r \in HandlerRow
    BY <1>1, <1>2, HandlerSet
  <2>2. handler' = [handler EXCEPT ![h] = r]
    BY <1>7 DEF SpendExtra
  <2>3. UNCHANGED <<due, row, dialed, starter, seen, broken>>
    BY <1>7 DEF SpendExtra, account
  <2> HIDE DEF r
  <2> QED
    BY <1>3, <1>4, <2>1, <2>2, <2>3
<1>8. CASE ExtraFails(h)
  <2> DEFINE r == [handler[h] EXCEPT !.at = "save", !.copy.short = TRUE]
  <2>1. r \in HandlerRow
    BY <1>1, <1>2, HandlerSet
  <2>2. handler' = [handler EXCEPT ![h] = r]
    BY <1>8 DEF ExtraFails
  <2>3. UNCHANGED <<due, row, dialed, starter, seen, broken>>
    BY <1>8 DEF ExtraFails, account
  <2> HIDE DEF r
  <2> QED
    BY <1>3, <1>4, <2>1, <2>2, <2>3
<1>9. CASE SettleFailure(h)
  <2> DEFINE r == [handler[h] EXCEPT !.at = "save"]
  <2>1. r \in HandlerRow
    BY <1>1, <1>2, HandlerSet
  <2>2. handler' = [handler EXCEPT ![h] = r]
    BY <1>9 DEF SettleFailure, Goto
  <2>3. UNCHANGED <<due, row, dialed, starter, seen, broken>>
    BY <1>9 DEF SettleFailure, ReleaseLock, account
  <2> HIDE DEF r
  <2> QED
    BY <1>3, <1>4, <2>1, <2>2, <2>3
<1>10. CASE LockGone(h)
  BY <1>3, <1>4, <1>10 DEF LockGone, Quit, account
<1>11. CASE Save(h)
  <2>1. row' \in [Calls -> CallRow]
    BY <1>1, <1>11 DEF Save, ControlTypes, HandlerRow, CallRow
  <2>2. handler' \in [Handlers -> {Idle} \cup HandlerRow]
    BY <1>11 DEF Save, Quit, ControlTypes
  <2> QED
    BY <1>11, <2>1, <2>2 DEF Save, account, ControlTypes
<1>12. CASE Die(h)
  <2>1. broken' \subseteq Calls
    BY <1>1, <1>12 DEF Die, ControlTypes, HandlerRow
  <2> QED
    BY <1>3, <1>12, <2>1 DEF Die, Quit, account
<1> QED
  BY <1>5, <1>6, <1>7, <1>8, <1>9, <1>10, <1>11, <1>12 DEF Step

LEMMA ReceiveTypes ==
  ASSUME LedgerTypes, ControlTypes, NEW h \in Handlers, NEW c \in Calls, NEW e \in Events,
         NEW door \in Doors, Receive(h, c, e, door)
  PROVE  ControlTypes'
<1>1. seen' \subseteq Calls \X Events \X Doors
  BY DEF Receive, ControlTypes
<1>2. handler' \in [Handlers -> {Idle} \cup HandlerRow]
  <2> DEFINE copy == Heard(row[c], e)
             r == [at |-> FirstStep(copy.status), call |-> c, event |-> e,
                   copy |-> copy, paid |-> 0]
  <2>1. copy \in CallRow
    BY HeardShape DEF ControlTypes
  <2> HIDE DEF copy
  <2>2. r \in HandlerRow
    BY <2>1 DEF HandlerRow, FirstStep
  <2>3. handler' = handler \/ handler' = [handler EXCEPT ![h] = r]
    BY DEF Receive, copy
  <2> HIDE DEF r
  <2> QED
    BY <2>2, <2>3 DEF ControlTypes
<1> QED
  BY <1>1, <1>2 DEF Receive, ControlTypes, account, starting

LEMMA ControlStep == LedgerTypes /\ ControlTypes /\ [Next]_vars => ControlTypes'
<1> SUFFICES ASSUME LedgerTypes, ControlTypes, [Next]_vars
             PROVE  ControlTypes'
  OBVIOUS
<1>1. ASSUME UNCHANGED <<row, dialed, starter, seen, handler, broken>>, due' \subseteq Tasks
      PROVE  ControlTypes'
  BY <1>1 DEF ControlTypes
<1>2. due \subseteq Tasks
  BY DEF ControlTypes
<1>3. ASSUME NEW n \in 1..MaxCredits, Buy(n)
      PROVE  ControlTypes'
  BY <1>1, <1>2, <1>3 DEF Buy
<1>4. ASSUME NEW o \in Tasks,
             \/ ReleaseOther(o) \/ ListDue(o) \/ ExpireLock(o)
             \/ \E n \in 1..MaxCredits : LockOther(o, n) \/ SpendOther(o, n) \/ RefundOther(o, n)
      PROVE  ControlTypes'
  BY <1>1, <1>2, <1>4
     DEF others, ReleaseOther, ListDue, ExpireLock, LockOther, SpendOther, RefundOther
<1>5. ASSUME NEW h \in Handlers, NEW c \in Calls, NEW e \in Events,
             HearTwilio(h, c, e) \/ HearBandwidth(h, c, e) \/ HearBandwidthVoice(h, c, e)
      PROVE  ControlTypes'
  BY <1>5, ReceiveTypes DEF HearTwilio, HearBandwidth, HearBandwidthVoice, Doors
<1>6. CASE UNCHANGED vars
  BY <1>1, <1>2, <1>6 DEF vars, account
<1> QED
  BY <1>3, <1>4, <1>5, <1>6, StartStepTypes, StepTypes DEF Next

-----------------------------------------------------------------------------
(* What is charged for a call.                                             *)

LEMMA MoneyStep ==
  ASSUME CallInv, AccountStep
  PROVE  KeysAgree' /\ ExtraBacked' /\ ChargesAdd'
<1>0. LedgerTypes /\ ControlTypes /\ KeysAgree /\ ExtraBacked /\ ChargesAdd /\ ExtraDue
      /\ Estimate \in Nat \ {0}
  BY CostFacts DEF CallInv, Money
<1>1. ASSUME SameKeys, UNCHANGED <<lock, extra, charged>>
      PROVE  KeysAgree' /\ ExtraBacked' /\ ChargesAdd'
  <2>1. KeysAgree'
    BY <1>0, <1>1 DEF KeysAgree, SameKeys
  <2>2. ExtraBacked'
    BY <1>0, <1>1 DEF ExtraBacked, SameKeys
  <2>3. ChargesAdd'
    BY <1>0, <1>1 DEF ChargesAdd, ChargedSoFar, SameKeys
  <2> QED
    BY <2>1, <2>2, <2>3
<1>2. CASE Untouched \/ Funded \/ \E o \in Tasks : LocksOther(o) \/ SettlesOther(o)
  <2>1. SameKeys /\ UNCHANGED <<lock, extra, charged>>
    BY <1>2 DEF Untouched, Funded, LocksOther, SettlesOther, SameKeys, SpentFor, ReleasedFor
  <2> QED
    BY <1>1, <2>1
<1>3. ASSUME NEW c \in Calls, OpenLock(c)
      PROVE  KeysAgree' /\ ExtraBacked' /\ ChargesAdd'
  <2>1. /\ lock[c] = "none" /\ lock' \in [Calls -> LockStatuses] /\ lock'[c] = "active"
        /\ \A d \in Calls \ {c} : lock'[d] = lock[d]
        /\ UNCHANGED <<extra, keys, charged>>
    BY <1>0, <1>3 DEF OpenLock, LedgerTypes, LockStatuses
  <2>2. KeysAgree'
    BY <1>0, <2>1 DEF KeysAgree, SpentFor, ReleasedFor
  <2>3. ExtraBacked'
    BY <1>0, <2>1 DEF ExtraBacked, SpentFor
  <2>4. ChargesAdd'
    BY <1>0, <2>1 DEF ChargesAdd, ChargedSoFar, SpentFor
  <2> QED
    BY <2>2, <2>3, <2>4
<1>4. ASSUME NEW c \in Calls, ReleasesCall(c)
      PROVE  KeysAgree' /\ ExtraBacked' /\ ChargesAdd'
  <2>1. /\ lock[c] = "active" /\ lock'[c] = "released"
        /\ \A d \in Calls \ {c} : lock'[d] = lock[d]
        /\ UNCHANGED <<extra, charged>>
    BY <1>0, <1>4 DEF ReleasesCall, ReleaseLock, LedgerTypes
  <2>2. \A d \in Calls, e \in Events : /\ SpentFor(d, e)' <=> SpentFor(d, e)
                                       /\ ReleasedFor(d, e)' => ReleasedFor(d, e) \/ d = c
    BY <1>4 DEF ReleasesCall, ReleaseLock, SpentFor, ReleasedFor
  <2>3. KeysAgree'
    BY <1>0, <2>1, <2>2 DEF KeysAgree
  <2>4. ExtraBacked'
    BY <1>0, <2>1, <2>2 DEF ExtraBacked
  <2>5. ChargesAdd'
    BY <1>0, <2>1, <2>2 DEF ChargesAdd, ChargedSoFar
  <2> QED
    BY <2>3, <2>4, <2>5
<1>5. ASSUME NEW c \in Calls, NEW e \in Events, SpendsCall(c, e)
      PROVE  KeysAgree' /\ ExtraBacked' /\ ChargesAdd'
  <2>1. /\ lock[c] = "active" /\ lock'[c] = "spent"
        /\ charged'[c] = charged[c] + Estimate
        /\ \A d \in Calls \ {c} : lock'[d] = lock[d] /\ charged'[d] = charged[d]
        /\ UNCHANGED extra
    BY <1>0, <1>5 DEF SpendsCall, SpendLock, LedgerTypes
  <2>2. \A d \in Calls, f \in Events :
          /\ SpentFor(d, f)' <=> SpentFor(d, f) \/ (d = c /\ f = e)
          /\ ReleasedFor(d, f)' <=> ReleasedFor(d, f)
    BY <1>5 DEF SpendsCall, SpendLock, SpentFor, ReleasedFor
  <2>3. \A f \in Events : ~SpentFor(c, f) /\ ~ReleasedFor(c, f)
    BY <1>0, <2>1 DEF KeysAgree
  <2>4. charged[c] = 0 /\ extra[<<c, e>>].status = "none"
    BY <1>0, <2>1, <2>3 DEF ChargesAdd, ExtraBacked
  <2>5. KeysAgree'
    BY <1>0, <2>1, <2>2, <2>3 DEF KeysAgree
  <2>6. ExtraBacked'
    BY <1>0, <2>1, <2>2 DEF ExtraBacked
  <2>7. charged'[c] = ChargedSoFar(c, e)'
    BY <1>0, <2>1, <2>4 DEF ChargedSoFar
  <2>8. ChargesAdd'
    <3>1. \A d \in Calls, f \in Events : d # c => ChargedSoFar(d, f)' = ChargedSoFar(d, f)
      BY <2>1 DEF ChargedSoFar
    <3> QED
      BY <1>0, <2>1, <2>2, <2>7, <3>1 DEF ChargesAdd
  <2> QED
    BY <2>5, <2>6, <2>8
<1>6. ASSUME NEW h \in Handlers, handler[h] \in HandlerRow, LocksExtra(h)
      PROVE  KeysAgree' /\ ExtraBacked' /\ ChargesAdd'
  <2>0. PICK c \in Calls, e \in Events : c = handler[h].call /\ e = handler[h].event
    BY <1>6 DEF HandlerRow
  <2>3. handler[h].copy.seconds \in Durations /\ Due(h) \in Nat
    BY <1>6, CostFacts, DurationsAreNumbers DEF Due, HandlerRow, CallRow
  <2>2. SpentFor(c, e) /\ handler[h].paid = Estimate /\ Due(h) > Estimate
    BY <1>0, <1>6, <2>0 DEF ExtraDue, LocksExtra, At
  <2>4. PICK a \in Nat : a = Short(h) /\ a > 0 /\ \E s \in Durations : a = Cost(s) - Estimate
    BY <1>0, <2>2, <2>3 DEF Short, Due
  <2>1. /\ extra[<<c, e>>].status = "none"
        /\ extra' = [extra EXCEPT ![<<c, e>>] = [status |-> "active", credits |-> a]]
        /\ UNCHANGED <<lock, keys, charged>>
    BY <1>6, <2>0, <2>4 DEF LocksExtra
  <2>5. /\ extra'[<<c, e>>].status = "active" /\ extra'[<<c, e>>].credits = a
        /\ \A d \in Calls, f \in Events :
             d # c \/ f # e => extra'[<<d, f>>] = extra[<<d, f>>]
    BY <1>0, <2>1 DEF LedgerTypes
  <2>6. KeysAgree'
    BY <1>0, <2>1 DEF KeysAgree, SpentFor, ReleasedFor
  <2>7. ExtraBacked'
    <3> SUFFICES ASSUME NEW d \in Calls, NEW f \in Events, extra'[<<d, f>>].status # "none"
                 PROVE  /\ <<"spend", d, f>> \in keys
                        /\ extra'[<<d, f>>].status \in {"active", "spent"}
                        /\ extra'[<<d, f>>].credits > 0
                        /\ \E s \in Durations : extra'[<<d, f>>].credits = Cost(s) - Estimate
      BY <2>1 DEF ExtraBacked, SpentFor
    <3>1. CASE d = c /\ f = e
      BY <2>2, <2>4, <2>5, <3>1 DEF SpentFor, ExtraBacked
    <3>2. CASE d # c \/ f # e
      <4>1. extra'[<<d, f>>] = extra[<<d, f>>]
        BY <2>5, <3>2
      <4> QED
        BY <1>0, <4>1 DEF ExtraBacked, SpentFor
    <3> QED
      BY <3>1, <3>2
  <2>8. ChargesAdd'
    <3>1. \A d \in Calls, f \in Events : ChargedSoFar(d, f)' = ChargedSoFar(d, f)
      <4> SUFFICES ASSUME NEW d \in Calls, NEW f \in Events
                   PROVE  ChargedSoFar(d, f)' = ChargedSoFar(d, f)
        OBVIOUS
      <4>1. CASE d = c /\ f = e
        BY <2>1, <2>5, <4>1 DEF ChargedSoFar
      <4>2. CASE d # c \/ f # e
        <5>1. extra'[<<d, f>>] = extra[<<d, f>>]
          BY <2>5, <4>2
        <5> QED
          BY <5>1 DEF ChargedSoFar
      <4> QED
        BY <4>1, <4>2
    <3> QED
      BY <1>0, <2>1, <3>1 DEF ChargesAdd, SpentFor
  <2> QED
    BY <2>6, <2>7, <2>8
<1>7. ASSUME NEW h \in Handlers, handler[h] \in HandlerRow, SpendsExtra(h)
      PROVE  KeysAgree' /\ ExtraBacked' /\ ChargesAdd'
  <2>0. PICK c \in Calls, e \in Events : c = handler[h].call /\ e = handler[h].event
    BY <1>7 DEF HandlerRow
  <2>1. PICK a \in Nat : a = extra[<<c, e>>].credits
    BY <1>0 DEF LedgerTypes, LockRow
  <2>2. /\ extra[<<c, e>>].status = "active"
        /\ extra' = [extra EXCEPT ![<<c, e>>].status = "spent"]
        /\ charged' = [charged EXCEPT ![c] = @ + a]
        /\ UNCHANGED <<lock, keys>>
    BY <1>7, <2>0, <2>1 DEF SpendsExtra
  <2>3. /\ extra'[<<c, e>>].status = "spent" /\ extra'[<<c, e>>].credits = a
        /\ \A d \in Calls, f \in Events :
             d # c \/ f # e => extra'[<<d, f>>] = extra[<<d, f>>]
        /\ a \in Nat
    BY <1>0, <2>1, <2>2 DEF LedgerTypes, LockRow
  <2>4. SpentFor(c, e) /\ lock[c] = "spent" /\ charged[c] = Estimate
    <3>1. SpentFor(c, e) /\ lock[c] = "spent"
      BY <1>0, <2>1, <2>2 DEF ExtraBacked, KeysAgree
    <3>2. PICK f \in Events : SpentFor(c, f) /\ charged[c] = ChargedSoFar(c, f)
      BY <1>0, <2>1, <3>1 DEF ChargesAdd
    <3>3. f = e
      BY <1>0, <2>1, <3>1, <3>2 DEF KeysAgree
    <3> QED
      BY <1>0, <2>2, <3>1, <3>2, <3>3 DEF ChargedSoFar
  <2>5. charged'[c] = ChargedSoFar(c, e)'
    BY <1>0, <2>1, <2>2, <2>3, <2>4 DEF ChargedSoFar, LedgerTypes
  <2>6. KeysAgree'
    BY <1>0, <2>2 DEF KeysAgree, SpentFor, ReleasedFor
  <2>7. ExtraBacked'
    <3> SUFFICES ASSUME NEW d \in Calls, NEW f \in Events, extra'[<<d, f>>].status # "none"
                 PROVE  /\ <<"spend", d, f>> \in keys
                        /\ extra'[<<d, f>>].status \in {"active", "spent"}
                        /\ extra'[<<d, f>>].credits > 0
                        /\ \E s \in Durations : extra'[<<d, f>>].credits = Cost(s) - Estimate
      BY <2>2 DEF ExtraBacked, SpentFor
    <3>1. CASE d = c /\ f = e
      BY <1>0, <2>1, <2>2, <2>3, <3>1 DEF SpentFor, ExtraBacked
    <3>2. CASE d # c \/ f # e
      <4>1. extra'[<<d, f>>] = extra[<<d, f>>]
        BY <2>3, <3>2
      <4> QED
        BY <1>0, <4>1 DEF ExtraBacked, SpentFor
    <3> QED
      BY <3>1, <3>2
  <2>8. ChargesAdd'
    <3>1. \A d \in Calls, f \in Events : d # c => ChargedSoFar(d, f)' = ChargedSoFar(d, f)
      BY <2>3 DEF ChargedSoFar
    <3>2. \A d \in Calls : d # c => charged'[d] = charged[d]
      BY <1>0, <2>2 DEF LedgerTypes
    <3> QED
      BY <1>0, <2>1, <2>2, <2>4, <2>5, <3>1, <3>2 DEF ChargesAdd, SpentFor
  <2> QED
    BY <2>6, <2>7, <2>8
<1> QED
  BY <1>2, <1>3, <1>4, <1>5, <1>6, <1>7 DEF AccountStep

(* Keys are never deleted.                                                 *)
LEMMA KeysStay ==
  ASSUME AccountStep, NEW c \in Calls, NEW e \in Events, SpentFor(c, e)
  PROVE  <<"spend", c, e>> \in keys'
BY DEF AccountStep, Untouched, Funded, SameKeys, OpenLock, ReleasesCall, ReleaseLock,
       SpendsCall, SpendLock, LocksExtra, SpendsExtra, LocksOther, SettlesOther, SpentFor

(* What one step may do to a handler.                                      *)
HandlerKept(h) == handler'[h] = handler[h]
HandlerMoved(h) == Step(h) \/ Die(h)
HandlerTook(h) ==
  \E c \in Calls, e \in Events, door \in Doors :
    LET copy == Heard(row[c], e) IN
    /\ Receive(h, c, e, door) /\ e \notin row[c].done
    /\ handler' = [handler EXCEPT ![h] =
         [at |-> FirstStep(copy.status), call |-> c, event |-> e, copy |-> copy, paid |-> 0]]

LEMMA HandlerSteps ==
  ASSUME LedgerTypes, ControlTypes, [Next]_vars, NEW k \in Handlers
  PROVE  HandlerKept(k) \/ HandlerMoved(k) \/ HandlerTook(k)
<1>1. ASSUME UNCHANGED handler
      PROVE  HandlerKept(k)
  BY <1>1 DEF HandlerKept
<1>2. ASSUME NEW n \in 1..MaxCredits, Buy(n)
      PROVE  HandlerKept(k)
  BY <1>1, <1>2 DEF Buy
<1>3. ASSUME NEW o \in Tasks,
             \/ ReleaseOther(o) \/ ListDue(o) \/ ExpireLock(o)
             \/ \E n \in 1..MaxCredits : LockOther(o, n) \/ SpendOther(o, n) \/ RefundOther(o, n)
      PROVE  HandlerKept(k)
  BY <1>1, <1>3
     DEF others, ReleaseOther, ListDue, ExpireLock, LockOther, SpendOther, RefundOther
<1>4. ASSUME NEW q \in Starters, StartStep(q) \/ Crash(q) \/ \E c \in Calls : Start(q, c)
      PROVE  HandlerKept(k)
  <2>1. UNCHANGED handler
    BY <1>4 DEF StartStep, TakeLock, Create, Refused, Dial, DialFails, NoCarrier, SaveCall,
                SaveFails, GiveBack, SaveFailed, Crash, Start, events
  <2> QED
    BY <1>1, <2>1
<1>5. ASSUME NEW h \in Handlers, Step(h) \/ Die(h)
      PROVE  HandlerKept(k) \/ HandlerMoved(k)
  <2>1. h # k => HandlerKept(k)
    BY <1>5 DEF Step, Die, SettleFromLock, TakeExtra, SpendExtra, ExtraFails, SettleFailure,
                LockGone, Save, Goto, Quit, HandlerKept, ControlTypes
  <2> QED
    BY <1>5, <2>1 DEF HandlerMoved
<1>6. ASSUME NEW h \in Handlers, NEW c \in Calls, NEW e \in Events, NEW door \in Doors,
             Receive(h, c, e, door)
      PROVE  HandlerKept(k) \/ HandlerTook(k)
  <2>1. CASE UNCHANGED handler
    BY <1>1, <2>1
  <2>2. CASE ~UNCHANGED handler /\ h # k
    BY <1>6, <2>2 DEF Receive, HandlerKept, ControlTypes
  <2>3. CASE ~UNCHANGED handler /\ h = k
    BY <1>6, <2>3 DEF Receive, HandlerTook
  <2> QED
    BY <2>1, <2>2, <2>3
<1>7. CASE UNCHANGED vars
  BY <1>1, <1>7 DEF vars
<1> QED
  BY <1>2, <1>3, <1>4, <1>5, <1>6, <1>7
     DEF Next, HearTwilio, HearBandwidth, HearBandwidthVoice, Doors

LEMMA ExtraDueStep ==
  ASSUME CallInv, AccountStep, [Next]_vars
  PROVE  ExtraDue'
<1> SUFFICES ASSUME NEW h \in Handlers, handler'[h].at \in {"extra lock", "extra spend"}
             PROVE  /\ <<"spend", handler'[h].call, handler'[h].event>> \in keys'
                    /\ handler'[h].paid = Estimate
                    /\ Cost(handler'[h].copy.seconds) > Estimate
  BY DEF ExtraDue, Due, SpentFor
<1>0. LedgerTypes /\ ControlTypes /\ ExtraDue
  BY DEF CallInv, Money
<1>1. CASE HandlerKept(h)
  <2>1. handler[h] \in HandlerRow
    BY <1>0, <1>1, Busy DEF HandlerKept
  <2> QED
    BY <1>0, <1>1, <2>1, KeysStay DEF HandlerKept, ExtraDue, Due, HandlerRow
<1>2. CASE HandlerTook(h)
  BY <1>0, <1>2 DEF HandlerTook, FirstStep, ControlTypes
<1>3. CASE HandlerMoved(h)
  <2>1. handler[h] \in HandlerRow
    BY <1>0, <1>3, Busy
       DEF HandlerMoved, Step, Die, SettleFromLock, TakeExtra, SpendExtra, ExtraFails,
           SettleFailure, LockGone, Save, ControlTypes, Idle, At
  <2>2. CASE SettleFromLock(h)
    <3>1. Least(Estimate, Due(h)) = Estimate /\ Due(h) \in Nat /\ Estimate \in Nat
      BY <2>1, CostFacts, DurationsAreNumbers DEF HandlerRow, CallRow, Due
    <3>2. /\ handler'[h].call = handler[h].call /\ handler'[h].event = handler[h].event
          /\ handler'[h].copy = handler[h].copy /\ handler'[h].paid = Estimate
          /\ handler'[h].at = IF Due(h) > Estimate THEN "extra lock" ELSE "save"
      BY <1>0, <2>1, <2>2, <3>1 DEF SettleFromLock, ControlTypes, HandlerRow
    <3>3. <<"spend", handler[h].call, handler[h].event>> \in keys'
      BY <2>2 DEF SettleFromLock, SpendLock, SpentFor, account
    <3> QED
      BY <3>2, <3>3 DEF Due
  <2>3. CASE TakeExtra(h)
    <3>1. /\ handler'[h].call = handler[h].call /\ handler'[h].event = handler[h].event
          /\ handler'[h].copy = handler[h].copy /\ handler'[h].paid = handler[h].paid
          /\ handler[h].at = "extra lock"
      BY <1>0, <2>1, <2>3 DEF TakeExtra, Goto, At, ControlTypes, HandlerRow
    <3>2. <<"spend", handler[h].call, handler[h].event>> \in keys'
      BY <1>0, <2>1, <3>1, KeysStay DEF ExtraDue, HandlerRow
    <3> QED
      BY <1>0, <3>1, <3>2 DEF ExtraDue, Due
  <2>4. CASE SpendExtra(h) \/ ExtraFails(h) \/ SettleFailure(h)
    <3>1. handler'[h].at = "save"
      <4>1. CASE SpendExtra(h)
        BY <1>0, <2>1, <4>1 DEF SpendExtra, ControlTypes, HandlerRow
      <4>2. CASE ExtraFails(h)
        BY <1>0, <2>1, <4>2 DEF ExtraFails, ControlTypes, HandlerRow
      <4>3. CASE SettleFailure(h)
        BY <1>0, <2>1, <4>3 DEF SettleFailure, Goto, ControlTypes, HandlerRow
      <4> QED
        BY <2>4, <4>1, <4>2, <4>3
    <3> QED
      BY <3>1
  <2>5. CASE LockGone(h) \/ Save(h) \/ Die(h)
    <3>1. handler'[h] = Idle
      BY <1>0, <2>5 DEF LockGone, Save, Die, Quit, ControlTypes
    <3> QED
      BY <3>1 DEF Idle
  <2> QED
    BY <1>3, <2>2, <2>3, <2>4, <2>5 DEF HandlerMoved, Step
<1> QED
  BY <1>0, <1>1, <1>2, <1>3, HandlerSteps

-----------------------------------------------------------------------------
(* The theorems about credits.                                             *)

LEMMA CallInvInit == Init => CallInv
<1> SUFFICES ASSUME Init
             PROVE  CallInv
  OBVIOUS
<1> USE DEF Init
<1>1. LedgerTypes
  BY CallsAssumption DEF LedgerTypes, LockRow, LockStatuses, NoLock
<1>2. ControlTypes
  BY DurationsAreNumbers
     DEF ControlTypes, CallRow, NoRow, StarterShape, Idle, CallStatuses, Voice, Nobody
<1>3. CreditsAccounted
  <2>1. /\ ActiveCalls = {} /\ CreditsIn(Calls \X Events, extra) = {}
        /\ CreditsIn(Tasks, other) = {}
    BY DEF ActiveCalls, CreditsIn, NoLock
  <2>2. Cardinality({}) = 0 /\ Estimate \in Nat
    BY FS_EmptySet, CostFacts
  <2>3. Cardinality(ActiveCalls) = 0 /\ ExtraTotal = 0 /\ OtherTotal = 0
    BY <2>1, <2>2 DEF ExtraTotal, OtherTotal
  <2>4. HeldCredits = 0
    BY <2>2, <2>3, HeldIsTotal
  <2> QED
    BY <2>4 DEF CreditsAccounted
<1>4. Money
  BY DEF Money, KeysAgree, ExtraBacked, ChargesAdd, ExtraDue, SpentFor, ReleasedFor, NoLock,
         Idle
<1> QED
  BY <1>1, <1>2, <1>3, <1>4 DEF CallInv

LEMMA CallInvStep == CallInv /\ [Next]_vars => CallInv'
<1> SUFFICES ASSUME CallInv, [Next]_vars
             PROVE  CallInv'
  OBVIOUS
<1>1. AccountStep
  BY AccountSteps DEF CallInv
<1>2. LedgerTypes' /\ CreditsAccounted' /\ ControlTypes'
  BY <1>1, LedgerStep, ControlStep DEF CallInv
<1>3. KeysAgree' /\ ExtraBacked' /\ ChargesAdd' /\ ExtraDue'
  BY <1>1, MoneyStep, ExtraDueStep
<1> QED
  BY <1>2, <1>3 DEF CallInv, Money

LEMMA CallInvariant == Spec => []CallInv
BY CallInvInit, CallInvStep, PTL DEF Spec

(* The columns of accounts, locks and calls hold what they are for.        *)
THEOREM CallTypeCorrect == Spec => []TypeOK
<1>1. CallInv => TypeOK
  BY DurationsAreNumbers DEF CallInv, LedgerTypes, ControlTypes, TypeOK, LockRow, CallRow
<1> QED
  BY <1>1, CallInvariant, PTL

(* locked_credit_balance is the sum of the active locks, of calls, of      *)
(* additional debits and of other services, and never more than the        *)
(* balance.                                                                *)
THEOREM CreditsAddUp == Spec => []CreditsAccounted
<1>1. CallInv => CreditsAccounted
  BY DEF CallInv
<1> QED
  BY <1>1, CallInvariant, PTL

(* However many handlers settle a call, it is charged the price of one     *)
(* reported duration or the credits locked for it.                         *)
THEOREM CallsChargedOnce == Spec => []ChargedOnce
<1>1. CallInv => ChargedOnce
  <2> SUFFICES ASSUME CallInv, NEW c \in Calls, charged[c] > 0
               PROVE  \E s \in Durations : charged[c] \in {Price(s), Least(Estimate, Price(s))}
    BY DEF ChargedOnce
  <2>1. PICK e \in Events : SpentFor(c, e) /\ charged[c] = ChargedSoFar(c, e)
    BY DEF CallInv, Money, ChargesAdd
  <2>2. CASE extra[<<c, e>>].status = "spent"
    <3>1. PICK s \in Durations : extra[<<c, e>>].credits = Cost(s) - Estimate
      BY <2>2 DEF CallInv, Money, ExtraBacked
    <3>2. charged[c] = Cost(s) /\ Cost(s) = Price(s)
      BY <2>1, <2>2, <3>1, CostFacts, CostIsPrice, DurationsAreNumbers DEF ChargedSoFar
    <3> QED
      BY <3>2
  <2>3. CASE extra[<<c, e>>].status # "spent"
    <3>1. charged[c] = Estimate
      BY <2>1, <2>3, CostFacts DEF ChargedSoFar
    <3>2. 0 \in Durations /\ Least(Estimate, Price(0)) = Estimate
      BY CostFacts, CostIsPrice, DurationsAreNumbers
    <3> QED
      BY <3>1, <3>2
  <2> QED
    BY <2>2, <2>3
<1> QED
  BY <1>1, CallInvariant, PTL

(* Spending and releasing the lock of a call exclude each other, for good. *)
THEOREM CallsChargedOrReturned == Spec => []ChargedOrReturned
<1>1. CallInv => ChargedOrReturned
  <2> SUFFICES ASSUME CallInv, NEW c \in Calls
               PROVE  /\ charged[c] > 0 <=> lock[c] = "spent"
                      /\ lock[c] = "released" => ~\E e \in Events : extra[<<c, e>>].status # "none"
    BY DEF ChargedOrReturned
  <2>1. lock[c] # "spent" => charged[c] = 0
    BY DEF CallInv, Money, ChargesAdd
  <2>2. lock[c] = "spent" => charged[c] > 0
    <3> SUFFICES ASSUME lock[c] = "spent"
                 PROVE  charged[c] > 0
      OBVIOUS
    <3>1. PICK e \in Events : charged[c] = ChargedSoFar(c, e)
      BY DEF CallInv, Money, ChargesAdd
    <3>2. extra[<<c, e>>].credits \in Nat
      BY DEF CallInv, LedgerTypes, LockRow
    <3> QED
      BY <3>1, <3>2, CostFacts DEF ChargedSoFar
  <2>3. \A e \in Events : extra[<<c, e>>].status # "none" => lock[c] = "spent"
    BY DEF CallInv, Money, ExtraBacked, KeysAgree
  <2>4. charged[c] > 0 <=> lock[c] = "spent"
    BY <2>1, <2>2 DEF CallInv, LedgerTypes
  <2> QED
    BY <2>3, <2>4
<1> QED
  BY <1>1, CallInvariant, PTL

-----------------------------------------------------------------------------
(* What the call history shows.                                            *)

Final == {"completed"} \cup Failures

(* What carriers report: that a call is over or failed is not an answer to *)
(* a request to dial, and an event with a duration is about a call that is *)
(* over or failed.                                                         *)
Reports ==
  /\ "complete" \notin FirstWords
  /\ \A e \in Events : Seconds[e] # NoSeconds => Normalized(Word[e]) \in Final

(* The duration of an event; without one, the call has its default.        *)
Length(e) == IF Seconds[e] = NoSeconds THEN 0 ELSE Seconds[e]

(* The lock of a call is settled, by one of these events if it was spent.  *)
Told(c, es) == lock[c] = "released" \/ \E e \in es : SpentFor(c, e)

ExtraExact ==
  \A c \in Calls, e \in Events :
    extra[<<c, e>>].status # "none" =>
      extra[<<c, e>>].credits = Cost(Length(e)) - Estimate

(* A handler's copy shows what its event says, a duration in it comes from *)
(* the event or from one whose handler settled the call, and what it is    *)
(* about to save was charged.                                              *)
Reads(r) ==
  /\ r.copy.status = Normalized(Word[r.event]) /\ r.event \in r.copy.done
  /\ Seconds[r.event] # NoSeconds => r.copy.seconds = Seconds[r.event]
  /\ Seconds[r.event] = NoSeconds /\ r.copy.seconds # 0 =>
       Told(r.call, r.copy.done \ {r.event})
  /\ r.copy.spent <= charged[r.call]

Settles(r) ==
  /\ r.at \in {"spend", "extra lock", "extra spend"} => r.copy.status = "completed"
  /\ r.at = "release" => r.copy.status \in Failures
  /\ r.at = "save" /\ r.copy.status = "completed" =>
       /\ SpentFor(r.call, r.event) /\ r.paid > 0 /\ r.paid <= charged[r.call]
       /\ r.paid = Cost(r.copy.seconds) \/ r.copy.short
  /\ r.at = "save" /\ r.copy.status \in Failures => lock[r.call] = "released"

(* A row shows what was charged.                                           *)
Shows(c, r) ==
  /\ r.spent <= charged[c]
  /\ r.status = "completed" => r.spent > 0 /\ (r.spent = Cost(r.seconds) \/ r.short)
  /\ r.seconds # 0 => Told(c, r.done)

HandlersHeed == \A h \in Handlers : handler[h] # Idle => Reads(handler[h]) /\ Settles(handler[h])
RowsShow == \A c \in Calls : Shows(c, row[c])

ShownInv == CallInv /\ ExtraExact /\ HandlersHeed /\ RowsShow

(* What is charged stays charged, what is returned stays returned.         *)
LEMMA AccountGrows ==
  ASSUME CallInv, AccountStep, NEW c \in Calls
  PROVE  /\ charged[c] \in Nat /\ charged'[c] \in Int /\ charged[c] <= charged'[c]
         /\ lock[c] = "released" => lock'[c] = "released"
         /\ \A es \in SUBSET Events : Told(c, es) => Told(c, es)'
<1>0. LedgerTypes /\ Estimate \in Nat
  BY CostFacts DEF CallInv
<1>1. charged[c] \in Nat
  BY <1>0 DEF LedgerTypes
<1>2. charged'[c] \in Int /\ charged[c] <= charged'[c]
  <2>1. ASSUME UNCHANGED charged
        PROVE  charged'[c] \in Int /\ charged[c] <= charged'[c]
    BY <1>1, <2>1
  <2>4. CASE Untouched \/ Funded \/ \E o \in Tasks : LocksOther(o) \/ SettlesOther(o)
    BY <2>1, <2>4 DEF Untouched, Funded, LocksOther, SettlesOther
  <2>5. ASSUME NEW d \in Calls, OpenLock(d) \/ ReleasesCall(d)
        PROVE  charged'[c] \in Int /\ charged[c] <= charged'[c]
    BY <2>1, <2>5 DEF OpenLock, ReleasesCall, ReleaseLock
  <2>6. ASSUME NEW h \in Handlers, LocksExtra(h)
        PROVE  charged'[c] \in Int /\ charged[c] <= charged'[c]
    BY <2>1, <2>6 DEF LocksExtra
  <2>2. ASSUME NEW d \in Calls, NEW e \in Events, SpendsCall(d, e)
        PROVE  charged'[c] \in Int /\ charged[c] <= charged'[c]
    BY <1>0, <1>1, <2>2 DEF SpendsCall, SpendLock, LedgerTypes
  <2>3. ASSUME NEW h \in Handlers, handler[h] \in HandlerRow, SpendsExtra(h)
        PROVE  charged'[c] \in Int /\ charged[c] <= charged'[c]
    <3>1. PICK d \in Calls, e \in Events : d = handler[h].call /\ e = handler[h].event
      BY <2>3 DEF HandlerRow
    <3>2. extra[<<d, e>>].credits \in Nat
      BY <1>0 DEF LedgerTypes, LockRow
    <3>3. charged' = [charged EXCEPT ![d] = @ + extra[<<d, e>>].credits]
      BY <2>3, <3>1 DEF SpendsExtra
    <3> QED
      BY <1>0, <1>1, <3>2, <3>3 DEF LedgerTypes
  <2> QED
    BY <2>2, <2>3, <2>4, <2>5, <2>6 DEF AccountStep
<1>3. lock[c] = "released" => lock'[c] = "released"
  BY <1>0 DEF AccountStep, Untouched, Funded, OpenLock, ReleasesCall, ReleaseLock, SpendsCall,
              SpendLock, LocksExtra, SpendsExtra, LocksOther, SettlesOther, LedgerTypes
<1>4. \A es \in SUBSET Events : Told(c, es) => Told(c, es)'
  BY <1>3, KeysStay DEF Told, SpentFor
<1> QED
  BY <1>1, <1>2, <1>3, <1>4

(* A call one of whose events spent its lock was charged at least the      *)
(* estimate.                                                               *)
LEMMA SpentIsCharged ==
  ASSUME CallInv, NEW c \in Calls, NEW e \in Events, SpentFor(c, e)
  PROVE  /\ lock[c] = "spent" /\ charged[c] = ChargedSoFar(c, e) /\ charged[c] >= Estimate
         /\ \A f \in Events : SpentFor(c, f) => f = e
<1>1. lock[c] = "spent" /\ \A f \in Events : SpentFor(c, f) => f = e
  BY DEF CallInv, Money, KeysAgree
<1>2. PICK f \in Events : SpentFor(c, f) /\ charged[c] = ChargedSoFar(c, f)
  BY <1>1 DEF CallInv, Money, ChargesAdd
<1>3. f = e /\ extra[<<c, e>>].credits \in Nat
  BY <1>1, <1>2 DEF CallInv, LedgerTypes, LockRow
<1> QED
  BY <1>1, <1>2, <1>3, CostFacts DEF ChargedSoFar

(* At an additional debit the duration is the event's own.                 *)
LEMMA OwnLength ==
  ASSUME CallInv, NEW r \in HandlerRow, Reads(r), SpentFor(r.call, r.event)
  PROVE  r.copy.seconds = Length(r.event)
<1>1. r.call \in Calls /\ r.event \in Events /\ r.copy.done \subseteq Events
  BY DEF HandlerRow, CallRow
<1>2. ~Told(r.call, r.copy.done \ {r.event})
  BY <1>1, SpentIsCharged DEF Told
<1> QED
  BY <1>2 DEF Reads, Length

(* Steps of others do not take away what a handler relies on.              *)
LEMMA HeedingLasts ==
  ASSUME CallInv, AccountStep, NEW r \in HandlerRow
  PROVE  (Reads(r) => Reads(r)') /\ (Settles(r) => Settles(r)')
<1>1. /\ r.call \in Calls /\ r.event \in Events /\ r.copy.done \subseteq Events
      /\ r.paid \in Nat /\ r.copy.spent \in Nat
  BY DEF HandlerRow, CallRow
<1>2. /\ charged[r.call] \in Nat /\ charged'[r.call] \in Int
      /\ charged[r.call] <= charged'[r.call]
      /\ lock[r.call] = "released" => lock'[r.call] = "released"
      /\ Told(r.call, r.copy.done \ {r.event}) => Told(r.call, r.copy.done \ {r.event})'
      /\ SpentFor(r.call, r.event) => <<"spend", r.call, r.event>> \in keys'
  BY <1>1, AccountGrows, KeysStay
<1>3. Reads(r) => Reads(r)'
  BY <1>1, <1>2 DEF Reads
<1>4. r.paid <= charged[r.call] => r.paid <= charged'[r.call]
  BY <1>1, <1>2
<1>5. Settles(r) => Settles(r)'
  BY <1>2, <1>4, Zenon DEF Settles, SpentFor
<1> QED
  BY <1>3, <1>5

(* An additional lock is taken for the duration of its event.              *)
LEMMA ExtraExactStep ==
  ASSUME CallInv, AccountStep, ExtraExact, HandlersHeed
  PROVE  ExtraExact'
<1>1. CASE UNCHANGED extra
  BY <1>1 DEF ExtraExact
<1>2. ASSUME NEW h \in Handlers, handler[h] \in HandlerRow, LocksExtra(h)
      PROVE  ExtraExact'
  <2>1. PICK c \in Calls, e \in Events : c = handler[h].call /\ e = handler[h].event
    BY <1>2 DEF HandlerRow
  <2>2. SpentFor(c, e) /\ handler[h].paid = Estimate
    BY <1>2, <2>1 DEF CallInv, Money, ExtraDue, LocksExtra, At
  <2>3. Reads(handler[h])
    <3>1. handler[h].at = "extra lock"
      BY <1>2 DEF LocksExtra, At
    <3>2. Idle.at = "idle"
      BY DEF Idle
    <3>3. handler[h] # Idle
      BY <3>1, <3>2
    <3> QED
      BY <3>3 DEF HandlersHeed
  <2>4. handler[h].copy.seconds = Length(e)
    BY <1>2, <2>1, <2>2, <2>3, OwnLength
  <2>5. PICK a : a = Cost(Length(e)) - Estimate
    OBVIOUS
  <2>6. extra' = [extra EXCEPT ![<<c, e>>] = [status |-> "active", credits |-> a]]
    BY <1>2, <2>1, <2>2, <2>4, <2>5 DEF LocksExtra, Short, Due
  <2>7. /\ extra'[<<c, e>>].credits = a
        /\ \A d \in Calls, f \in Events :
             d # c \/ f # e => extra'[<<d, f>>] = extra[<<d, f>>]
    BY <2>6 DEF CallInv, LedgerTypes
  <2> SUFFICES ASSUME NEW d \in Calls, NEW f \in Events, extra'[<<d, f>>].status # "none"
               PROVE  extra'[<<d, f>>].credits = Cost(Length(f)) - Estimate
    BY DEF ExtraExact
  <2>8. CASE d = c /\ f = e
    BY <2>5, <2>7, <2>8
  <2>9. CASE d # c \/ f # e
    <3>1. extra'[<<d, f>>] = extra[<<d, f>>]
      BY <2>7, <2>9
    <3> QED
      BY <3>1 DEF ExtraExact
  <2> QED
    BY <2>8, <2>9
<1>3. ASSUME NEW h \in Handlers, handler[h] \in HandlerRow, SpendsExtra(h)
      PROVE  ExtraExact'
  <2>1. PICK c \in Calls, e \in Events : c = handler[h].call /\ e = handler[h].event
    BY <1>3 DEF HandlerRow
  <2>2. /\ extra[<<c, e>>].status = "active"
        /\ extra' = [extra EXCEPT ![<<c, e>>].status = "spent"]
    BY <1>3, <2>1 DEF SpendsExtra
  <2>3. \A d \in Calls, f \in Events :
          /\ extra'[<<d, f>>].credits = extra[<<d, f>>].credits
          /\ extra'[<<d, f>>].status # "none" => extra[<<d, f>>].status # "none"
    BY <2>2 DEF CallInv, LedgerTypes, LockRow
  <2> QED
    BY <2>3 DEF ExtraExact
<1>4. CASE Untouched \/ Funded \/ \E o \in Tasks : LocksOther(o) \/ SettlesOther(o)
  BY <1>1, <1>4 DEF Untouched, Funded, LocksOther, SettlesOther
<1>5. ASSUME NEW d \in Calls, OpenLock(d) \/ ReleasesCall(d) \/ \E e \in Events : SpendsCall(d, e)
      PROVE  UNCHANGED extra
  BY <1>5 DEF OpenLock, ReleasesCall, ReleaseLock, SpendsCall, SpendLock
<1> QED
  BY <1>1, <1>2, <1>3, <1>4, <1>5 DEF AccountStep

(* A handler that takes up an event reads a row that shows what was        *)
(* charged.                                                                *)
LEMMA TakenHeeds ==
  ASSUME CallInv, RowsShow, NEW h \in Handlers, HandlerTook(h)
  PROVE  Reads(handler[h])' /\ Settles(handler[h])'
<1>1. PICK c \in Calls, e \in Events, door \in Doors :
        /\ Receive(h, c, e, door) /\ e \notin row[c].done
        /\ handler' = [handler EXCEPT ![h] =
             [at |-> FirstStep(Heard(row[c], e).status), call |-> c, event |-> e,
              copy |-> Heard(row[c], e), paid |-> 0]]
  BY DEF HandlerTook
<1>2. PICK copy : copy = Heard(row[c], e)
  OBVIOUS
<1>3. PICK r : r = [at |-> FirstStep(copy.status), call |-> c, event |-> e,
                    copy |-> copy, paid |-> 0]
  OBVIOUS
<1>4. handler'[h] = r
  BY <1>1, <1>2, <1>3 DEF CallInv, ControlTypes
<1>5. row[c] \in CallRow /\ Shows(c, row[c])
  BY DEF CallInv, ControlTypes, RowsShow
<1>6. /\ copy.status = Normalized(Word[e])
      /\ copy.seconds = IF Seconds[e] = NoSeconds THEN row[c].seconds ELSE Seconds[e]
      /\ copy.done = row[c].done \cup {e} /\ copy.spent = row[c].spent
  BY <1>2, <1>5, HeardShape
<1>7. copy.done \ {e} = row[c].done
  BY <1>1, <1>6
<1>8. UNCHANGED <<lock, keys, charged>>
  BY <1>1 DEF Receive, account
<1>9. Reads(r)
  BY <1>3, <1>5, <1>6, <1>7 DEF Reads, Shows
<1>10. Settles(r)
  BY <1>3 DEF Settles, FirstStep, Failures
<1>11. Reads(r)' /\ Settles(r)'
  BY <1>8, <1>9, <1>10 DEF Reads, Settles, Told, SpentFor
<1> QED
  BY <1>4, <1>11 DEF Reads, Settles

(* A handler goes on to what it may do next, and to save what was charged. *)
LEMMA MovedHeeds ==
  ASSUME CallInv, AccountStep, ExtraExact, NEW h \in Handlers,
         NEW r \in HandlerRow, r = handler[h], Reads(r), Settles(r),
         Step(h) \/ Die(h), handler'[h] # Idle
  PROVE  Reads(handler[h])' /\ Settles(handler[h])'
<1>0. LedgerTypes /\ ControlTypes /\ ExtraDue /\ KeysAgree
  BY DEF CallInv, Money
<1>1. PICK c \in Calls, e \in Events : c = r.call /\ e = r.event
  BY DEF HandlerRow
<1>2. r.copy \in CallRow /\ Due(h) = Cost(r.copy.seconds) /\ Due(h) \in Nat
      /\ Due(h) >= Estimate /\ Least(Estimate, Due(h)) = Estimate /\ Estimate \in Nat \ {0}
  BY CostFacts, DurationsAreNumbers DEF HandlerRow, CallRow, Due
<1>3. Reads(r)'
  BY HeedingLasts
<1>4. ASSUME NEW n, n.call = c, n.event = e, n.copy = r.copy
      PROVE  Reads(n)'
  BY <1>1, <1>3, <1>4 DEF Reads
<1>5. ASSUME NEW n, handler'[h] = n, Reads(n)', Settles(n)'
      PROVE  Reads(handler[h])' /\ Settles(handler[h])'
  BY <1>5 DEF Reads, Settles
<1>6. charged[c] \in Nat
  BY <1>0 DEF LedgerTypes
<1>7. CASE SettleFromLock(h)
  <2>1. PICK n : n = [r EXCEPT !.paid = Estimate,
                               !.at = IF Due(h) > Estimate THEN "extra lock" ELSE "save"]
    OBVIOUS
  <2>2. handler'[h] = n
    BY <1>0, <1>2, <1>7, <2>1 DEF SettleFromLock, ControlTypes
  <2>3. /\ n.call = c /\ n.event = e /\ n.copy = r.copy /\ n.paid = Estimate
        /\ n.at = IF Due(h) > Estimate THEN "extra lock" ELSE "save"
    BY <1>1, <2>1 DEF HandlerRow
  <2>4. n.copy.status = "completed"
    BY <1>7, <2>3 DEF Settles, SettleFromLock, At
  <2>5. <<"spend", c, e>> \in keys' /\ Estimate <= charged'[c]
    <3>1. CASE SpentFor(c, e)
      BY <1>1, <1>7, <3>1, SpentIsCharged DEF SettleFromLock, account, SpentFor
    <3>2. CASE ~SpentFor(c, e)
      <4>1. SpendLock(c, e, Estimate)
        BY <1>1, <1>2, <1>7, <3>2 DEF SettleFromLock, SpentFor
      <4> QED
        BY <1>0, <1>2, <1>6, <4>1 DEF SpendLock, LedgerTypes
    <3> QED
      BY <3>1, <3>2
  <2>6. n.at = "save" => n.paid = Cost(n.copy.seconds)
    <3>1. n.at = "save" => ~(Due(h) > Estimate)
      BY <2>3
    <3>2. n.paid = Estimate /\ n.copy = r.copy
      BY <2>3
    <3> QED
      BY ONLY <1>2, <3>1, <3>2
  <2>7. Settles(n)'
    <3>1. n.paid > 0
      <4>1. n.paid = Estimate
        BY <2>3
      <4> QED
        BY ONLY <1>2, <4>1
    <3> QED
      BY <2>3, <2>4, <2>5, <2>6, <3>1 DEF Settles, SpentFor, Failures
  <2> QED
    BY <1>4, <1>5, <2>2, <2>3, <2>7
<1>8. CASE TakeExtra(h)
  <2>1. PICK n : n = [r EXCEPT !.at = "extra spend"]
    OBVIOUS
  <2>2. handler'[h] = n
    BY <1>0, <1>8, <2>1 DEF TakeExtra, Goto, ControlTypes
  <2>3. n.call = c /\ n.event = e /\ n.copy = r.copy /\ n.at = "extra spend"
    BY <1>1, <2>1 DEF HandlerRow
  <2>4. n.copy.status = "completed"
    BY <1>8, <2>3 DEF Settles, TakeExtra, At
  <2>5. Settles(n)'
    BY <2>3, <2>4 DEF Settles
  <2> QED
    BY <1>4, <1>5, <2>2, <2>3, <2>5
<1>9. ASSUME r.at \in {"extra lock", "extra spend"}
      PROVE  /\ SpentFor(c, e) /\ r.copy.status = "completed" /\ r.paid = Estimate
             /\ charged[c] = ChargedSoFar(c, e) /\ charged[c] >= Estimate
             /\ r.copy.seconds = Length(e)
  <2>1. SpentFor(c, e) /\ r.paid = Estimate
    BY <1>0, <1>1, <1>9 DEF ExtraDue
  <2> QED
    BY <1>1, <1>9, <2>1, SpentIsCharged, OwnLength DEF Settles
<1>10. CASE SpendExtra(h)
  <2>0. r.at = "extra spend"
    BY <1>10 DEF SpendExtra, At
  <2>1. PICK n : n = [r EXCEPT !.paid = Due(h), !.at = "save"]
    OBVIOUS
  <2>2. handler'[h] = n
    BY <1>0, <1>10, <2>1 DEF SpendExtra, ControlTypes
  <2>3. /\ n.call = c /\ n.event = e /\ n.copy = r.copy /\ n.paid = Due(h)
        /\ n.at = "save"
    BY <1>1, <2>1 DEF HandlerRow
  <2>4. SpentFor(c, e) /\ keys' = keys
    BY <1>9, <1>10, <2>0 DEF SpendExtra, account
  <2>5. charged'[c] = Due(h)
    <3>1. extra[<<c, e>>].credits \in Nat
      BY <1>0 DEF LedgerTypes, LockRow
    <3>2. CASE extra[<<c, e>>].status = "spent"
      <4>1. charged' = charged
        BY <1>1, <1>10, <3>2 DEF SpendExtra, account
      <4>2. extra[<<c, e>>].credits = Due(h) - Estimate
        BY <1>2, <1>9, <2>0, <3>2 DEF ExtraExact
      <4>3. charged[c] = ChargedSoFar(c, e)
            /\ ChargedSoFar(c, e) = Estimate + extra[<<c, e>>].credits
        BY <1>9, <2>0, <3>2 DEF ChargedSoFar
      <4> QED
        BY ONLY <1>2, <3>1, <4>1, <4>2, <4>3
    <3>3. CASE extra[<<c, e>>].status # "spent"
      <4>1. /\ extra[<<c, e>>].status = "active"
            /\ charged' = [charged EXCEPT ![c] = @ + extra[<<c, e>>].credits]
        BY <1>1, <1>10, <3>3 DEF SpendExtra
      <4>2. extra[<<c, e>>].credits = Due(h) - Estimate
        BY <1>2, <1>9, <2>0, <4>1 DEF ExtraExact
      <4>3. charged[c] = Estimate
        <5>1. charged[c] = ChargedSoFar(c, e) /\ ChargedSoFar(c, e) = Estimate + 0
          BY <1>9, <2>0, <3>3 DEF ChargedSoFar
        <5> QED
          BY ONLY <1>2, <5>1
      <4>4. charged'[c] = Estimate + extra[<<c, e>>].credits
        BY <1>0, <4>1, <4>3 DEF LedgerTypes
      <4> QED
        BY ONLY <1>2, <3>1, <4>2, <4>4
    <3> QED
      BY <3>2, <3>3
  <2>6. Settles(n)'
    <3>1. n.paid > 0 /\ n.paid <= charged'[c] /\ n.paid = Cost(n.copy.seconds)
      BY <1>2, <2>3, <2>5
    <3>2. n.copy.status = "completed" /\ <<"spend", c, e>> \in keys'
      BY <1>9, <2>0, <2>3, <2>4 DEF SpentFor
    <3> QED
      BY <2>3, <3>1, <3>2 DEF Settles, SpentFor, Failures
  <2> QED
    BY <1>4, <1>5, <2>2, <2>3, <2>6
<1>11. CASE ExtraFails(h)
  <2>0. r.at \in {"extra lock", "extra spend"} /\ UNCHANGED <<charged, keys>>
    BY <1>11 DEF ExtraFails, At, account
  <2>1. PICK n : n = [r EXCEPT !.at = "save", !.copy.short = TRUE]
    OBVIOUS
  <2>2. handler'[h] = n
    BY <1>0, <1>11, <2>1 DEF ExtraFails, ControlTypes
  <2>3. /\ n.call = c /\ n.event = e /\ n.paid = r.paid /\ n.at = "save"
        /\ n.copy = [r.copy EXCEPT !.short = TRUE]
    BY <1>1, <2>1 DEF HandlerRow
  <2>4. /\ n.copy.short = TRUE /\ n.copy.status = r.copy.status /\ n.copy.done = r.copy.done
        /\ n.copy.seconds = r.copy.seconds /\ n.copy.spent = r.copy.spent
    BY <1>2, <2>3 DEF CallRow
  <2>5. Reads(n)'
    BY <1>1, <1>3, <2>3, <2>4 DEF Reads
  <2>6. n.paid > 0 /\ n.paid <= charged'[c] /\ <<"spend", c, e>> \in keys'
    <3>1. n.paid = Estimate /\ charged[c] >= Estimate /\ charged' = charged
      BY <1>9, <2>0, <2>3
    <3>2. <<"spend", c, e>> \in keys'
      BY <1>9, <2>0 DEF SpentFor
    <3> QED
      BY ONLY <1>2, <1>6, <3>1, <3>2
  <2>7. Settles(n)'
    BY <1>9, <2>0, <2>3, <2>4, <2>6 DEF Settles, SpentFor, Failures
  <2> QED
    BY <1>5, <2>2, <2>5, <2>7
<1>12. CASE SettleFailure(h)
  <2>1. PICK n : n = [r EXCEPT !.at = "save"]
    OBVIOUS
  <2>2. handler'[h] = n
    BY <1>0, <1>12, <2>1 DEF SettleFailure, Goto, ControlTypes
  <2>3. n.call = c /\ n.event = e /\ n.copy = r.copy /\ n.at = "save"
    BY <1>1, <2>1 DEF HandlerRow
  <2>4. n.copy.status \in Failures
    BY <1>12, <2>3 DEF Settles, SettleFailure, At
  <2>5. lock'[c] = "released"
    BY <1>0, <1>1, <1>12
       DEF SettleFailure, ReleaseLock, KeysAgree, ReleasedFor, account, LedgerTypes
  <2>6. Settles(n)'
    BY <2>3, <2>4, <2>5 DEF Settles, Failures
  <2> QED
    BY <1>4, <1>5, <2>2, <2>3, <2>6
<1>13. CASE LockGone(h) \/ Save(h) \/ Die(h)
  BY <1>0, <1>13 DEF LockGone, Save, Die, Quit, ControlTypes
<1> QED
  BY <1>7, <1>8, <1>10, <1>11, <1>12, <1>13 DEF Step

LEMMA HeedStep ==
  ASSUME ShownInv, AccountStep, [Next]_vars
  PROVE  HandlersHeed'
<1> SUFFICES ASSUME NEW h \in Handlers, handler'[h] # Idle
             PROVE  Reads(handler[h])' /\ Settles(handler[h])'
  BY DEF HandlersHeed
<1>0. CallInv /\ LedgerTypes /\ ControlTypes /\ ExtraExact /\ HandlersHeed /\ RowsShow
  BY DEF ShownInv, CallInv
<1>1. ASSUME handler[h] # Idle
      PROVE  \E r \in HandlerRow : r = handler[h] /\ Reads(r) /\ Settles(r)
  BY <1>0, <1>1 DEF HandlersHeed, ControlTypes
<1>2. CASE HandlerKept(h)
  <2>1. PICK r \in HandlerRow : r = handler[h] /\ Reads(r) /\ Settles(r)
    BY <1>1, <1>2 DEF HandlerKept
  <2>2. Reads(r)' /\ Settles(r)'
    BY <1>0, <2>1, HeedingLasts
  <2> QED
    BY <1>2, <2>1, <2>2 DEF HandlerKept, Reads, Settles
<1>3. CASE HandlerMoved(h)
  <2>1. handler[h] # Idle
    <3>1. Idle.at = "idle"
      BY DEF Idle
    <3> QED
      BY <1>3, <3>1 DEF HandlerMoved, Step, Die, SettleFromLock, TakeExtra, SpendExtra,
                        ExtraFails, SettleFailure, LockGone, Save, At
  <2>2. PICK r \in HandlerRow : r = handler[h] /\ Reads(r) /\ Settles(r)
    BY <1>1, <2>1
  <2> QED
    BY <1>0, <1>3, <2>2, MovedHeeds DEF HandlerMoved
<1>4. CASE HandlerTook(h)
  BY <1>0, <1>4, TakenHeeds
<1> QED
  BY <1>0, <1>2, <1>3, <1>4, HandlerSteps

(* What one step may do to the row of a call.                              *)
RowKept(c) == row'[c] = row[c]
RowStarted(c) ==
  /\ row'[c].status # "completed" /\ row'[c].seconds = row[c].seconds
  /\ row'[c].spent = row[c].spent /\ row'[c].done = row[c].done
RowSaved(c) == \E h \in Handlers : Save(h) /\ handler[h] \in HandlerRow /\ handler[h].call = c

LEMMA RowSteps ==
  ASSUME Reports, LedgerTypes, ControlTypes, [Next]_vars, NEW c \in Calls
  PROVE  RowKept(c) \/ RowStarted(c) \/ RowSaved(c)
<1>1. ASSUME UNCHANGED row
      PROVE  RowKept(c)
  BY <1>1 DEF RowKept
<1>2. ASSUME NEW n \in 1..MaxCredits, Buy(n)
      PROVE  RowKept(c)
  BY <1>1, <1>2 DEF Buy
<1>3. ASSUME NEW o \in Tasks,
             \/ ReleaseOther(o) \/ ListDue(o) \/ ExpireLock(o)
             \/ \E n \in 1..MaxCredits : LockOther(o, n) \/ SpendOther(o, n) \/ RefundOther(o, n)
      PROVE  RowKept(c)
  BY <1>1, <1>3
     DEF others, ReleaseOther, ListDue, ExpireLock, LockOther, SpendOther, RefundOther
<1>4. ASSUME NEW q \in Starters, StartStep(q) \/ Crash(q) \/ \E d \in Calls : Start(q, d)
      PROVE  RowKept(c) \/ RowStarted(c)
  <2>1. row[c] \in CallRow
    BY DEF ControlTypes
  <2>2. CASE \/ TakeLock(q) \/ Refused(q) \/ Dial(q) \/ DialFails(q) \/ NoCarrier(q)
             \/ SaveFails(q) \/ GiveBack(q) \/ Crash(q) \/ \E d \in Calls : Start(q, d)
    <3>1. UNCHANGED row
      BY <2>2 DEF TakeLock, Refused, Dial, DialFails, NoCarrier, SaveFails, GiveBack, Crash,
                  Start
    <3> QED
      BY <1>1, <3>1
  <2>3. CASE Create(q)
    BY <2>1, <2>3 DEF Create, RowKept, RowStarted, ControlTypes, CallRow
  <2>4. CASE SaveCall(q)
    <3>1. PICK word \in FirstWords :
            row' = [row EXCEPT ![starter[q].call].sid = starter[q].sid,
                               ![starter[q].call].status = StoredStatus(word)]
      BY <2>4 DEF SaveCall
    <3>2. StoredStatus(word) # "completed"
      BY DEF Reports, StoredStatus
    <3> QED
      BY <2>1, <3>1, <3>2 DEF RowKept, RowStarted, ControlTypes, CallRow
  <2>5. CASE SaveFailed(q)
    BY <2>1, <2>5 DEF SaveFailed, RowKept, RowStarted, ControlTypes, CallRow
  <2> QED
    BY <1>4, <2>2, <2>3, <2>4, <2>5 DEF StartStep
<1>5. ASSUME NEW h \in Handlers, Step(h) \/ Die(h)
      PROVE  RowKept(c) \/ RowSaved(c)
  <2>1. CASE Save(h)
    <3>1. handler[h] \in HandlerRow
      BY <2>1, Busy DEF Save, At
    <3>2. handler[h].call # c => RowKept(c)
      BY <2>1 DEF Save, RowKept, ControlTypes
    <3> QED
      BY <2>1, <3>1, <3>2 DEF RowSaved
  <2>2. CASE \/ SettleFromLock(h) \/ TakeExtra(h) \/ SpendExtra(h) \/ ExtraFails(h)
             \/ SettleFailure(h) \/ LockGone(h) \/ Die(h)
    <3>1. UNCHANGED row
      BY <2>2 DEF SettleFromLock, TakeExtra, SpendExtra, ExtraFails, SettleFailure, LockGone,
                  Die
    <3> QED
      BY <1>1, <3>1
  <2> QED
    BY <1>5, <2>1, <2>2 DEF Step
<1>6. ASSUME NEW h \in Handlers, NEW d \in Calls, NEW e \in Events,
             HearTwilio(h, d, e) \/ HearBandwidth(h, d, e) \/ HearBandwidthVoice(h, d, e)
      PROVE  RowKept(c)
  BY <1>1, <1>6 DEF HearTwilio, HearBandwidth, HearBandwidthVoice, Receive
<1>7. CASE UNCHANGED vars
  BY <1>1, <1>7 DEF vars
<1> QED
  BY <1>2, <1>3, <1>4, <1>5, <1>6, <1>7 DEF Next

(* What a handler saves was charged.                                       *)
LEMMA SavedShows ==
  ASSUME Reports, CallInv, NEW h \in Handlers, NEW r \in HandlerRow, r = handler[h],
         Reads(r), Settles(r), Save(h)
  PROVE  Shows(r.call, row[r.call])'
<1>1. PICK c \in Calls, e \in Events : c = r.call /\ e = r.event
  BY DEF HandlerRow
<1>2. r.at = "save" /\ UNCHANGED <<lock, keys, charged>>
  BY DEF Save, At, account
<1>3. r.copy \in CallRow /\ e \in r.copy.done /\ charged[c] \in Nat
  BY <1>1 DEF HandlerRow, CallInv, LedgerTypes, Reads
<1>4. PICK n : n = row'[c]
  OBVIOUS
<1>5. n = IF r.copy.status = "completed" THEN [r.copy EXCEPT !.spent = r.paid]
          ELSE IF r.copy.status \in Failures THEN [r.copy EXCEPT !.spent = 0] ELSE r.copy
  BY <1>1, <1>4 DEF Save, CallInv, ControlTypes
<1>6. /\ n.status = r.copy.status /\ n.seconds = r.copy.seconds /\ n.done = r.copy.done
      /\ n.short = r.copy.short
      /\ n.spent = IF r.copy.status = "completed" THEN r.paid
                   ELSE IF r.copy.status \in Failures THEN 0 ELSE r.copy.spent
  BY <1>3, <1>5 DEF CallRow
<1>7. n.spent <= charged[c]
  BY <1>1, <1>2, <1>3, <1>6 DEF Reads, Settles
<1>8. n.status = "completed" => n.spent > 0 /\ (n.spent = Cost(n.seconds) \/ n.short)
  BY <1>2, <1>6, Zenon DEF Settles
<1>9. n.seconds # 0 => Told(c, n.done)
  <2> SUFFICES ASSUME n.seconds # 0
               PROVE  Told(c, n.done)
    OBVIOUS
  <2>1. CASE Seconds[e] = NoSeconds
    BY <1>1, <1>6, <2>1 DEF Reads, Told
  <2>2. CASE Seconds[e] # NoSeconds
    <3>1. r.copy.status \in Final
      BY <1>1, <2>2 DEF Reads, Reports
    <3>2. SpentFor(c, e) \/ lock[c] = "released"
      BY <1>1, <1>2, <3>1 DEF Settles, Final
    <3> QED
      BY <1>3, <1>6, <3>2 DEF Told
  <2> QED
    BY <2>1, <2>2
<1>10. Shows(c, n)
  BY <1>7, <1>8, <1>9, Zenon DEF Shows
<1>11. Shows(c, n)'
  BY <1>2, <1>10 DEF Shows, Told, SpentFor
<1> QED
  BY <1>1, <1>4, <1>11 DEF Shows, Told

LEMMA RowsStep ==
  ASSUME Reports, ShownInv, AccountStep, [Next]_vars
  PROVE  RowsShow'
<1> SUFFICES ASSUME NEW c \in Calls
             PROVE  Shows(c, row[c])'
  BY DEF RowsShow
<1>0. CallInv /\ LedgerTypes /\ ControlTypes /\ HandlersHeed /\ row[c] \in CallRow
  BY DEF ShownInv, CallInv, ControlTypes
<1>1. PICK r \in CallRow : r = row[c] /\ Shows(c, r)
  BY <1>0 DEF ShownInv, RowsShow
<1>2. r.done \in SUBSET Events /\ r.spent \in Nat
  BY DEF CallRow
<1>3. Shows(c, r)'
  <2>1. /\ charged[c] \in Nat /\ charged'[c] \in Int /\ charged[c] <= charged'[c]
        /\ Told(c, r.done) => Told(c, r.done)'
    BY <1>0, <1>2, AccountGrows
  <2>2. r.spent <= charged[c] => r.spent <= charged'[c]
    BY <1>2, <2>1
  <2> QED
    BY <1>1, <2>1, <2>2, Zenon DEF Shows
<1>4. CASE RowKept(c)
  <2>1. row'[c] = r
    BY <1>1, <1>4 DEF RowKept
  <2> QED
    BY <1>3, <2>1 DEF Shows, Told
<1>5. CASE RowStarted(c)
  <2>1. /\ row'[c].status # "completed" /\ row'[c].seconds = r.seconds
        /\ row'[c].spent = r.spent /\ row'[c].done = r.done
    BY <1>1, <1>5 DEF RowStarted
  <2> QED
    BY <1>3, <2>1 DEF Shows, Told
<1>6. CASE RowSaved(c)
  <2>1. PICK h \in Handlers : Save(h) /\ handler[h] \in HandlerRow /\ handler[h].call = c
    BY <1>6 DEF RowSaved
  <2>2. PICK p \in HandlerRow : p = handler[h] /\ p.call = c
    BY <2>1
  <2>3. Idle.at = "idle" /\ handler[h].at = "save"
    BY <2>1 DEF Idle, Save, At
  <2>4. Reads(p) /\ Settles(p)
    <3>1. handler[h] # Idle
      BY <2>3
    <3> QED
      BY <1>0, <2>2, <3>1 DEF HandlersHeed
  <2>5. Shows(p.call, row[p.call])'
    BY <1>0, <2>1, <2>2, <2>4, SavedShows
  <2> QED
    BY <2>2, <2>5
<1> QED
  BY <1>0, <1>4, <1>5, <1>6, RowSteps

LEMMA ShownInvInit == Init => ShownInv
<1> SUFFICES ASSUME Init
             PROVE  ShownInv
  OBVIOUS
<1> USE DEF Init
<1>1. ExtraExact
  BY DEF ExtraExact, NoLock
<1>2. HandlersHeed
  BY DEF HandlersHeed
<1>3. RowsShow
  BY DEF RowsShow, Shows, NoRow
<1> QED
  BY <1>1, <1>2, <1>3, CallInvInit DEF ShownInv

(* Where carriers report as Reports says, the history of a call shows no   *)
(* more than was charged for it, and a completed call is shown as paid for *)
(* its duration or as short.                                               *)
THEOREM ShownIsPaid ==
  ASSUME Reports
  PROVE  Spec => []ShownIsCharged
<1>1. ShownInv /\ [Next]_vars => ShownInv'
  <2> SUFFICES ASSUME ShownInv, [Next]_vars
               PROVE  ShownInv'
    OBVIOUS
  <2>1. CallInv /\ CallInv' /\ AccountStep
    BY AccountSteps, CallInvStep DEF ShownInv, CallInv
  <2>2. ExtraExact' /\ HandlersHeed' /\ RowsShow'
    BY <2>1, ExtraExactStep, HeedStep, RowsStep DEF ShownInv
  <2> QED
    BY <2>1, <2>2 DEF ShownInv
<1>2. ShownInv => ShownIsCharged
  <2> SUFFICES ASSUME ShownInv, NEW c \in Calls
               PROVE  /\ row[c].spent <= charged[c]
                      /\ row[c].status = "completed" =>
                           row[c].spent > 0 /\ (row[c].spent = Price(row[c].seconds) \/ row[c].short)
    BY DEF ShownIsCharged
  <2>1. Shows(c, row[c])
    BY DEF ShownInv, RowsShow
  <2>2. row[c].seconds \in Nat
    BY DurationsAreNumbers DEF ShownInv, CallInv, ControlTypes, CallRow
  <2>3. Cost(row[c].seconds) = Price(row[c].seconds)
    BY <2>2, CostIsPrice
  <2> QED
    BY <2>1, <2>3, Zenon DEF Shows
<1> QED
  BY <1>1, <1>2, ShownInvInit, PTL DEF Spec
=============================================================================
