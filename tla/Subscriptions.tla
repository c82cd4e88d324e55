---------------------------- MODULE Subscriptions ----------------------------
(***************************************************************************)
(* What a customer has subscribed to, kept in subscriptions and            *)
(* subscription_entitlements.                                              *)
(*                                                                         *)
(* Store subscriptions come through RevenueCat: an event, or the user's    *)
(* own request to refresh, makes the service FETCH the customer's state    *)
(* and write all of it in one transaction.  Web subscriptions come from    *)
(* Paddle: an event CARRIES the state of one subscription, which is saved  *)
(* first; then the entitlements are rebuilt from all of the user's rows,   *)
(* in separate reads and writes.  Both gateways repeat an event until it   *)
(* is answered with success, and events come in any order.                 *)
(*                                                                         *)
(* Left out: events about nobody we know, which are answered and leave no  *)
(* rows; dates, prices and names; what a plan is called.                   *)
(***************************************************************************)
EXTENDS Integers, Sequences, FiniteSets

CONSTANTS Users,        \* customers
          Entitlements, \* the entitlements on sale
          States,       \* the states a customer may be in at RevenueCat
          MaxChanges,   \* bound: how often a customer's state changes in the store
          Requests,     \* RevenueCat webhooks and refreshes handled at a time
          Refreshers,   \* bound: those of them that may be refreshes
          Subs,         \* Paddle subscriptions
          Owner,        \* [Subs -> Users]
          Grants,       \* [Subs -> SUBSET Entitlements]: by its product
          Told,         \* [Subs -> the states Paddle reports of it, one after the other]
          Hooks,        \* Paddle webhooks handled at a time
          MaxFailures,  \* bound: handlers that fail
          Gateways      \* bound: whose events come in one behaviour; they share no state

ASSUME SubscriptionsAssumption ==
  /\ Refreshers \subseteq Requests /\ Owner \in [Subs -> Users] /\ Grants \in [Subs -> SUBSET Entitlements]
  /\ MaxChanges \in Nat /\ MaxFailures \in Nat
  /\ Gateways \subseteq SUBSET {"revenuecat", "paddle"}

VARIABLES gateways,  \* the gateways of this behaviour
          store,     \* per user: the states of the customer at RevenueCat, one after the other
          request,   \* the RevenueCat handlers
          known,     \* revenuecat_events
          processed, \* ... those marked processed
          record,    \* per user: the subscriptions row of RevenueCat
          active,    \* per user: RevenueCat's subscription_entitlements that are active
          asOf,      \* history: the state of the customer these rows were written from
          torn,      \* history: the users whose rows were last written by overlapping syncs
          hook,      \* the Paddle handlers
          paddle,    \* paddle_events: "new", "stored", "recorded" (in webhook_dedup), "processed"
          rows,      \* per subscription: its subscriptions rows
          granted,   \* per user: Paddle's subscription_entitlements that are active
          rebuilt,   \* history: the events whose rebuild was written
          loose,     \* history: the users whose last rebuild overlapped, or was cut short
          failures   \* history: handlers that failed, up to MaxFailures

storeVars == <<store, request, known, processed, record, active, asOf, torn>>
paddleVars == <<hook, paddle, rows, granted, rebuilt, loose>>
vars == <<gateways, storeVars, paddleVars, failures>>

-----------------------------------------------------------------------------
(* Data.                                                                   *)

(* A state of a customer: what is active, and the event that made it so,   *)
(* with the entitlements the event names.                                  *)
Kinds == {"RENEWAL", "TRIAL", "CANCELLATION", "EXPIRATION", "BILLING_ISSUE",
          "SUBSCRIPTION_PAUSED", "TRANSFER"}

ASSUME StatesAssumption ==
  States \subseteq [kind : Kinds, names : SUBSET Entitlements, active : SUBSET Entitlements]

(* resolveSubscriptionStatus.                                              *)
StatusOf(kind, has) ==
  CASE kind = "CANCELLATION" -> "canceled"
    [] kind = "EXPIRATION" -> "expired"
    [] kind = "BILLING_ISSUE" -> "grace_period"
    [] kind = "SUBSCRIPTION_PAUSED" -> "paused"
    [] kind = "TRANSFER" -> "transferred"
    [] kind = "TRIAL" -> "trialing"
    [] OTHER -> IF has THEN "active" ELSE "unknown"

(* The event about a user's n-th state; a refresh has none.                *)
Event(u, n) == <<u, n>>
Refresh(u) == <<u, 0>>
Started(u) == {n \in 1..MaxChanges : n <= Len(store[u])}

NoRecord == [status |-> "none", isActive |-> FALSE]
Idle == [at |-> "idle"]

(* Every change is followed by an event.                                   *)
Change(u) ==
  /\ Len(store[u]) < MaxChanges
  /\ \E s \in States : store' = [store EXCEPT ![u] = Append(@, s)]
  /\ UNCHANGED <<request, known, processed, record, active, asOf, torn, paddleVars, failures>>

-----------------------------------------------------------------------------
(* RevenueCat: handleWebhook, refreshCustomerForUser, syncCustomerInternal.*)

Goto(r, step) == request' = [request EXCEPT ![r].at = step]
End(r) == request' = [request EXCEPT ![r] = Idle]
UserOf(r) == request[r].event[1]
frame == <<store, paddleVars, failures>>

(* Seeded fault: an event that was seen before is taken for done.          *)
ReceiveOnce(r, u, n) ==
  /\ request[r] = Idle /\ n \in Started(u) /\ Event(u, n) \notin known
  /\ request' = [request EXCEPT ![r] = [at |-> "note", event |-> Event(u, n)]]
  /\ UNCHANGED <<known, processed, record, active, asOf, torn, frame>>

(* An event that is processed is a duplicate; one that is only known is    *)
(* taken up again.                                                         *)
Receive(r, u, n) ==
  /\ request[r] = Idle /\ n \in Started(u) /\ Event(u, n) \notin processed
  /\ request' = [request EXCEPT ![r] =
       [at |-> IF Event(u, n) \in known THEN "fetch" ELSE "note", event |-> Event(u, n)]]
  /\ UNCHANGED <<known, processed, record, active, asOf, torn, frame>>

AskToRefresh(r, u) ==
  /\ request[r] = Idle /\ r \in Refreshers
  /\ request' = [request EXCEPT ![r] = [at |-> "fetch", event |-> Refresh(u)]]
  /\ UNCHANGED <<known, processed, record, active, asOf, torn, frame>>

(* Seeded fault: the event is stored as processed.                         *)
NoteDone(r) ==
  /\ request[r].at = "note"
  /\ IF request[r].event \in known THEN End(r) ELSE Goto(r, "fetch")
  /\ known' = known \cup {request[r].event}
  /\ processed' = processed \cup {request[r].event}
  /\ UNCHANGED <<record, active, asOf, torn, frame>>

(* event_id is unique: of two handlers that found nothing one fails.       *)
Note(r) ==
  /\ request[r].at = "note"
  /\ IF request[r].event \in known THEN End(r) ELSE Goto(r, "fetch")
  /\ known' = known \cup {request[r].event}
  /\ UNCHANGED <<processed, record, active, asOf, torn, frame>>

(* fetchActiveEntitlements: the state as it is now.                        *)
Fetch(r) ==
  /\ request[r].at = "fetch"
  /\ request' = [request EXCEPT ![r] =
       [at |-> "read", event |-> @.event, of |-> Len(store[UserOf(r)]), alone |-> TRUE]]
  /\ UNCHANGED <<known, processed, record, active, asOf, torn, frame>>

(* The transaction reads the rows ...                                      *)
Read(r) ==
  /\ request[r].at = "read"
  /\ request' = [request EXCEPT ![r] =
       [at |-> "write", event |-> @.event, of |-> @.of, alone |-> @.alone,
        saw |-> active[UserOf(r)]]]
  /\ UNCHANGED <<known, processed, record, active, asOf, torn, frame>>

(* What the writer goes on to, and the others, overlapped if they asked    *)
(* for the same user and have not committed.                               *)
Committed(r, u) ==
  [q \in Requests |->
    IF q = r THEN IF request[r].event = Refresh(u) THEN Idle
                  ELSE [at |-> "mark", event |-> request[r].event]
    ELSE IF request[q].at \in {"read", "write"} /\ UserOf(q) = u
         THEN [request[q] EXCEPT !.alone = FALSE] ELSE request[q]]

(* What the customer had when it was asked for, if there was anything.     *)
Fetched(r) == IF request[r].of = 0 THEN {} ELSE store[UserOf(r)][request[r].of].active

(* The event that is handled; a refresh has none.                          *)
EventOf(r) == IF request[r].event[2] = 0 THEN [kind |-> "none", names |-> {}]
              ELSE store[UserOf(r)][request[r].event[2]]

(* The row counts as active if something the event names is.               *)
Has(r) == IF EventOf(r).names = {} THEN Fetched(r) # {}
                                   ELSE EventOf(r).names \cap Fetched(r) # {}

(* ... and saves each; a save writes a column only where it differs from   *)
(* what it read of the row, at the start or as late as now.                *)
Write(r) ==
  /\ request[r].at = "write"
  /\ LET u == UserOf(r) IN
     /\ \E early \in SUBSET Entitlements :
          active' = [active EXCEPT ![u] =
            {e \in Entitlements : IF e \in early /\ (e \in Fetched(r)) = (e \in request[r].saw)
                                  THEN e \in @ ELSE e \in Fetched(r)}]
     /\ record' = [record EXCEPT ![u] =
          [status |-> StatusOf(EventOf(r).kind, Has(r)), isActive |-> Has(r)]]
     /\ asOf' = [asOf EXCEPT ![u] = request[r].of]
     /\ torn' = IF request[r].alone THEN torn \ {u} ELSE torn \cup {u}
     /\ request' = Committed(r, u)
  /\ UNCHANGED <<known, processed, frame>>

Mark(r) ==
  /\ request[r].at = "mark"
  /\ processed' = processed \cup {request[r].event}
  /\ End(r)
  /\ UNCHANGED <<known, record, active, asOf, torn, frame>>

(* The store cannot be asked, a write fails or the process stops.          *)
Fail(r) ==
  /\ request[r] # Idle /\ failures < MaxFailures
  /\ End(r)
  /\ failures' = failures + 1
  /\ UNCHANGED <<store, known, processed, record, active, asOf, torn, paddleVars>>

RequestStep(r) == Note(r) \/ Fetch(r) \/ Read(r) \/ Write(r) \/ Mark(r)

-----------------------------------------------------------------------------
(* Paddle: handlePaddleWebhook, syncSubscriptionEvent and                  *)
(* rebuildPaddleEntitlements.                                              *)

(* mapPaddleSubscriptionStatus.                                            *)
Mapped == [active |-> "active", trialing |-> "trialing", past_due |-> "grace_period",
           paused |-> "paused", canceled |-> "canceled", expired |-> "expired"]
Words == DOMAIN Mapped

ASSUME ToldAssumption == Told \in [Subs -> Seq(Words)]

(* subscriptionStillActive: a cancelled one until its paid time runs out.  *)
StillActive(status, paidFor) ==
  \/ status \in {"active", "trialing", "grace_period"}
  \/ status = "canceled" /\ paidFor

PaddleEvents == UNION {{s} \X DOMAIN Told[s] : s \in Subs}
SubOf(h) == hook[h].event[1]
BuyerOf(h) == Owner[SubOf(h)]
OnHook(h, step) == hook' = [hook EXCEPT ![h].at = step]
Hang(h) == hook' = [hook EXCEPT ![h] = Idle]
SetEvent(e, at) == paddle' = [paddle EXCEPT ![e] = at]
pframe == <<storeVars, failures>>

ReceiveHook(h, e) ==
  /\ hook[h] = Idle /\ paddle[e] # "processed"
  /\ hook' = [hook EXCEPT ![h] = [at |-> IF paddle[e] = "new" THEN "note" ELSE "dedup",
                                  event |-> e]]
  /\ UNCHANGED <<paddle, rows, granted, rebuilt, loose, pframe>>

NoteHook(h) ==
  /\ hook[h].at = "note"
  /\ LET e == hook[h].event IN
     IF paddle[e] = "new" THEN SetEvent(e, "stored") /\ OnHook(h, "dedup")
                          ELSE UNCHANGED paddle /\ Hang(h)
  /\ UNCHANGED <<rows, granted, rebuilt, loose, pframe>>

(* recordWebhookOnce: an event that was taken up once is a duplicate, also *)
(* when that time it failed.                                               *)
Dedup(h) ==
  /\ hook[h].at = "dedup"
  /\ LET e == hook[h].event IN
     IF paddle[e] = "stored" THEN SetEvent(e, "recorded") /\ OnHook(h, "find")
                             ELSE UNCHANGED paddle /\ Hang(h)
  /\ UNCHANGED <<rows, granted, rebuilt, loose, pframe>>

(* Any row of the subscription, or 0.                                      *)
Find(h) ==
  /\ hook[h].at = "find"
  /\ \E i \in IF rows[SubOf(h)] = <<>> THEN {0} ELSE DOMAIN rows[SubOf(h)] :
       hook' = [hook EXCEPT ![h] = [at |-> "save", event |-> @.event, row |-> i]]
  /\ UNCHANGED <<paddle, rows, granted, rebuilt, loose, pframe>>

(* The others that rebuild for this user have read rows that are no more.  *)
Disturbed(h, mine) ==
  [g \in Hooks |->
    IF g = h THEN mine
    ELSE IF hook[g].at = "rebuild" /\ BuyerOf(g) = BuyerOf(h)
         THEN [hook[g] EXCEPT !.alone = FALSE] ELSE hook[g]]

(* provider_reference is not unique.  The time a cancelled subscription    *)
(* was paid for may have run out by now.                                   *)
Save(h) ==
  /\ hook[h].at = "save"
  /\ LET s == SubOf(h)
         status == Mapped[Told[s][hook[h].event[2]]]
     IN \E paidFor \in BOOLEAN :
          LET row == [status |-> status, isActive |-> StillActive(status, paidFor)] IN
          rows' = [rows EXCEPT ![s] = IF hook[h].row = 0 THEN Append(@, row)
                                      ELSE [@ EXCEPT ![hook[h].row] = row]]
  /\ hook' = Disturbed(h, [at |-> "subs", event |-> hook[h].event])
  /\ UNCHANGED <<paddle, granted, rebuilt, loose, pframe>>

(* subscriptionGrantsEntitlement, over all rows of the user.               *)
Backed(u) ==
  UNION {Grants[s] : s \in {t \in Subs : Owner[t] = u /\ \E i \in DOMAIN rows[t] : rows[t][i].isActive}}

(* buildSnapshot, hasAnyActiveEntitlement: one active row of either        *)
(* gateway is enough.                                                      *)
Shown(u) == active[u] \cup granted[u]

(* Seeded fault: only the subscription the event is about counts.          *)
ReadOwn(h) ==
  /\ hook[h].at = "subs"
  /\ hook' = [hook EXCEPT ![h] =
       [at |-> "rebuild", event |-> @.event, todo |-> Entitlements, alone |-> TRUE,
        backed |-> Backed(BuyerOf(h)) \cap Grants[SubOf(h)]]]
  /\ UNCHANGED <<paddle, rows, granted, rebuilt, loose, pframe>>

ReadAll(h) ==
  /\ hook[h].at = "subs"
  /\ hook' = [hook EXCEPT ![h] =
       [at |-> "rebuild", event |-> @.event, todo |-> Entitlements, alone |-> TRUE,
        backed |-> Backed(BuyerOf(h))]]
  /\ UNCHANGED <<paddle, rows, granted, rebuilt, loose, pframe>>

(* The entitlements are saved one by one.                                  *)
Rebuild(h) ==
  /\ hook[h].at = "rebuild"
  /\ LET u == BuyerOf(h) IN
     \E e \in hook[h].todo :
       /\ granted' = [granted EXCEPT ![u] = IF e \in hook[h].backed THEN @ \cup {e} ELSE @ \ {e}]
       /\ IF hook[h].todo = {e}
          THEN /\ hook' = Disturbed(h, [at |-> "mark", event |-> hook[h].event])
               /\ rebuilt' = rebuilt \cup {hook[h].event}
               /\ loose' = IF hook[h].alone THEN loose \ {u} ELSE loose \cup {u}
          ELSE /\ hook' = Disturbed(h, [hook[h] EXCEPT !.todo = @ \ {e}])
               /\ UNCHANGED <<rebuilt, loose>>
  /\ UNCHANGED <<paddle, rows, pframe>>

MarkHook(h) ==
  /\ hook[h].at = "mark"
  /\ SetEvent(hook[h].event, "processed")
  /\ Hang(h)
  /\ UNCHANGED <<rows, granted, rebuilt, loose, pframe>>

FailHook(h) ==
  /\ hook[h] # Idle /\ failures < MaxFailures
  /\ Hang(h)
  /\ loose' = IF hook[h].at \in {"subs", "rebuild"} THEN loose \cup {BuyerOf(h)} ELSE loose
  /\ failures' = failures + 1
  /\ UNCHANGED <<storeVars, paddle, rows, granted, rebuilt>>

HookStep(h) ==
  \/ NoteHook(h) \/ Dedup(h) \/ Find(h) \/ Save(h) \/ ReadAll(h)
  \/ Rebuild(h) \/ MarkHook(h)

-----------------------------------------------------------------------------
Init ==
  /\ gateways \in Gateways
  /\ store = [u \in Users |-> <<>>] /\ request = [r \in Requests |-> Idle]
  /\ known = {} /\ processed = {}
  /\ record = [u \in Users |-> NoRecord] /\ active = [u \in Users |-> {}]
  /\ asOf = [u \in Users |-> 0] /\ torn = {}
  /\ hook = [h \in Hooks |-> Idle]
  /\ paddle = [e \in PaddleEvents |-> "new"]
  /\ rows = [s \in Subs |-> <<>>] /\ granted = [u \in Users |-> {}]
  /\ rebuilt = {} /\ loose = {}
  /\ failures = 0

StoreNext ==
  \/ \E u \in Users : Change(u)
  \/ \E r \in Requests :
       \/ RequestStep(r) \/ Fail(r)
       \/ \E u \in Users : AskToRefresh(r, u) \/ \E n \in Started(u) : Receive(r, u, n)

PaddleNext ==
  \E h \in Hooks : HookStep(h) \/ FailHook(h) \/ \E e \in PaddleEvents : ReceiveHook(h, e)

Next ==
  /\ UNCHANGED gateways
  /\ \/ "revenuecat" \in gateways /\ StoreNext
     \/ "paddle" \in gateways /\ PaddleNext

(* RevenueCat repeats an event that was not answered with success, and     *)
(* there is a request to be had for it; a request goes on.                 *)
Fairness ==
  /\ \A u \in Users : \A n \in 1..MaxChanges :
       SF_vars(n \in Started(u) /\ \E r \in Requests : Receive(r, u, n) /\ UNCHANGED gateways)
  /\ \A r \in Requests : WF_vars(RequestStep(r) /\ UNCHANGED gateways)

Spec == Init /\ [][Next]_vars /\ Fairness

-----------------------------------------------------------------------------
(* Correctness.                                                            *)

Statuses == {"none", "active", "trialing", "grace_period", "canceled", "expired", "paused",
             "transferred", "unknown"}

TypeOK ==
  /\ store \in [Users -> Seq(States)]
  /\ processed \subseteq known
  /\ record \in [Users -> [status : Statuses, isActive : BOOLEAN]]
  /\ active \in [Users -> SUBSET Entitlements] /\ granted \in [Users -> SUBSET Entitlements]
  /\ \A s \in Subs : \A i \in DOMAIN rows[s] : rows[s][i].status \in Statuses
  /\ failures \in 0..MaxFailures

(* An event marked processed took effect, whatever failed, was repeated or *)
(* came late.  RevenueCat's rows show the customer as of that event or     *)
(* later, unless two syncs that overlapped wrote them; Paddle's            *)
(* entitlements were rebuilt after the row was saved.                      *)
ProcessedIsApplied ==
  /\ \A u \in Users : \A n \in Started(u) :
       Event(u, n) \in processed /\ u \notin torn =>
         /\ asOf[u] >= n /\ active[u] = store[u][asOf[u]].active
         /\ record[u].isActive => active[u] # {}
  /\ \A e \in PaddleEvents : paddle[e] = "processed" => e \in rebuilt

(* Beyond what RevenueCat's rows grant, a user is shown what all the       *)
(* user's active Paddle subscriptions grant, also when one of several      *)
(* ends, unless a handler is on its way, the last one failed on its way,   *)
(* or two of them overlapped.                                              *)
GrantsAreBacked ==
  \A u \in Users :
    \/ u \in loose
    \/ \E h \in Hooks : hook[h].at \in {"subs", "rebuild"} /\ BuyerOf(h) = u
    \/ Shown(u) \ active[u] = Backed(u) \ active[u]

(* Every change at RevenueCat is taken over in the end, although handlers  *)
(* fail after they noted the event: repeating it is not mistaken for a     *)
(* duplicate.                                                              *)
EventsAreApplied ==
  \A u \in Users : \A n \in 1..MaxChanges :
    n \in Started(u) ~> Event(u, n) \in processed
=============================================================================
