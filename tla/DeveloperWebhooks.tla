-------------------------- MODULE DeveloperWebhooks --------------------------
(***************************************************************************)
(* The delivery of events to the webhooks of developers (ApiPlatformSer-   *)
(* vice).  An event is queued once per subscribed webhook.  Every minute,  *)
(* and in every API instance, a run of the job lists the deliveries that   *)
(* are due and works through its list: it claims a delivery, posts it and  *)
(* writes the outcome.  Runs overlap, and each goes by the attempt count   *)
(* of the list it took.                                                    *)
(*                                                                         *)
(* The page of 100 deliveries is left out.                                 *)
(***************************************************************************)
EXTENDS Integers, FiniteSets

CONSTANTS Hooks,         \* developer_webhooks
          Events,        \* what can be told: the idempotency keys of events
          Subscribers,   \* [Events -> SUBSET Hooks]: those of the event's user
          Runs,          \* runs of the job at one time
          MaxAttempts,   \* MAX_DELIVERY_ATTEMPTS
          WritesMayFail  \* whether database writes may fail

ASSUME WebhooksAssumption ==
  /\ Subscribers \in [Events -> SUBSET Hooks]
  /\ MaxAttempts \in Nat \ {0} /\ WritesMayFail \in BOOLEAN

VARIABLES hooks,    \* the webhooks that are not deleted
          delivery, \* developer_webhook_deliveries
          run,      \* the runs of the job
          posts     \* history: whether the endpoint took a delivery, and how often it was
          \* posted, counted up to MaxAttempts

hookvars == <<hooks, delivery, run, posts>>

-----------------------------------------------------------------------------
(* Data.                                                                   *)

Deliveries == {d \in Events \X Hooks : d[2] \in Subscribers[d[1]]}
DeliveryStatuses == {"none", "pending", "delivering", "delivered", "failed", "deleted"}
NoDelivery == [status |-> "none", attempts |-> 0, due |-> FALSE]
Fresh == [status |-> "pending", attempts |-> 0, due |-> TRUE]

(* What a run read of a delivery.                                          *)
Picks == [of : Deliveries, attempts : 0..(MaxAttempts - 1)]

(* A run is at its list, or at a step of the delivery it claimed.          *)
AtList(todo) == [at |-> "list", todo |-> todo, now |-> {}]
Busy == {"post", "took", "count", "refused"}

InitHooks ==
  /\ hooks = Hooks
  /\ delivery = [d \in Deliveries |-> NoDelivery]
  /\ run = [r \in Runs |-> AtList({})]
  /\ posts = [d \in Deliveries |-> [took |-> FALSE, times |-> 0]]

-----------------------------------------------------------------------------
(* enqueueDeveloperWebhookEvent, for the webhooks hs it gets to.  They are *)
(* inserted one by one; one that has the event already is passed over, any *)
(* other failure ends the loop and is swallowed by the caller.             *)
QueueFor(e, hs) ==
  delivery' = [d \in Deliveries |->
    IF d[1] = e /\ d[2] \in hs /\ delivery[d].status = "none" THEN Fresh ELSE delivery[d]]

Subscribed(e) == Subscribers[e] \cap hooks

(* deleteWebhook: its deliveries go with it (ON DELETE CASCADE).           *)
DeleteHook(h) ==
  /\ h \in hooks
  /\ hooks' = hooks \ {h}
  /\ delivery' = [d \in Deliveries |->
       IF d[2] = h /\ delivery[d].status # "none"
       THEN [delivery[d] EXCEPT !.status = "deleted"] ELSE delivery[d]]
  /\ UNCHANGED <<run, posts>>

-----------------------------------------------------------------------------
(* processDueDeveloperWebhookDeliveries and deliverWebhook.                *)

At(r, step) == run' = [run EXCEPT ![r].at = step]
Leave(r) == run' = [run EXCEPT ![r] = AtList(run[r].todo)]

(* An update by id changes nothing when the row is gone.                   *)
Write(d, row) ==
  delivery' = IF delivery[d].status = "deleted" THEN delivery
              ELSE [delivery EXCEPT ![d] = row]

Due == {d \in Deliveries : delivery[d].status = "pending" /\ delivery[d].due}

List(r) ==
  /\ run[r] = AtList({}) /\ Due # {}
  /\ run' = [run EXCEPT ![r] =
       AtList({[of |-> d, attempts |-> delivery[d].attempts] : d \in Due})]
  /\ UNCHANGED <<hooks, delivery, posts>>

(* Seeded fault: a listed delivery is taken without looking at it again.   *)
ClaimListed(r) ==
  /\ run[r].at = "list"
  /\ \E p \in run[r].todo :
       /\ delivery' = [delivery EXCEPT ![p.of].status = "delivering"]
       /\ run' = [run EXCEPT ![r] = [at |-> "post", todo |-> @.todo \ {p}, now |-> {p}]]
  /\ UNCHANGED <<hooks, posts>>

(* One conditional update: only a delivery that is still pending is ours.  *)
Claim(r) ==
  /\ run[r].at = "list"
  /\ \E p \in run[r].todo :
       IF delivery[p.of].status = "pending"
       THEN /\ delivery' = [delivery EXCEPT ![p.of].status = "delivering"]
            /\ run' = [run EXCEPT ![r] = [at |-> "post", todo |-> @.todo \ {p}, now |-> {p}]]
       ELSE /\ run' = [run EXCEPT ![r].todo = @ \ {p}]
            /\ UNCHANGED delivery
  /\ UNCHANGED <<hooks, posts>>

Posted(n, took) ==
  [took |-> took, times |-> IF n.times < MaxAttempts THEN n.times + 1 ELSE n.times]

(* The endpoint answers 2xx; or with anything else, or not in time, or its *)
(* answer is lost after it took the event.                                 *)
Post(r) ==
  /\ run[r].at = "post"
  /\ \E p \in run[r].now :
       IF p.of[2] \in hooks
       THEN \/ At(r, "took") /\ posts' = [posts EXCEPT ![p.of] = Posted(@, TRUE)]
            \/ At(r, "refused") /\ posts' = [posts EXCEPT ![p.of] = Posted(@, @.took)]
       ELSE Leave(r) /\ UNCHANGED posts
  /\ UNCHANGED <<hooks, delivery>>

MarkDelivered(r) ==
  /\ run[r].at = "took"
  /\ \E p \in run[r].now :
       Write(p.of, [status |-> "delivered", attempts |-> p.attempts + 1, due |-> FALSE])
  /\ At(r, "count")
  /\ UNCHANGED <<hooks, posts>>

(* The counters of the webhook are updated in the same try block.          *)
Count(r) ==
  /\ run[r].at = "count"
  /\ Leave(r)
  /\ UNCHANGED <<hooks, delivery, posts>>

(* A write that fails after the endpoint took the event is handled like a  *)
(* refusal, also when the row says delivered already.                      *)
DeliveredWriteFails(r) ==
  /\ WritesMayFail /\ run[r].at \in {"took", "count"}
  /\ At(r, "refused")
  /\ UNCHANGED <<hooks, delivery, posts>>

Outcome(attempts) ==
  [status |-> IF attempts >= MaxAttempts THEN "failed" ELSE "pending",
   attempts |-> attempts, due |-> FALSE]

(* Seeded fault: the attempt is counted a second time.                     *)
MarkRefusedTwice(r) ==
  /\ run[r].at = "refused"
  /\ \E p \in run[r].now : Write(p.of, Outcome(p.attempts + 2))
  /\ Leave(r)
  /\ UNCHANGED <<hooks, posts>>

MarkRefused(r) ==
  /\ run[r].at = "refused"
  /\ \E p \in run[r].now : Write(p.of, Outcome(p.attempts + 1))
  /\ Leave(r)
  /\ UNCHANGED <<hooks, posts>>

(* A read or write about a claimed delivery fails, or the process stops:   *)
(* the delivery stays claimed, and no job looks for it.                    *)
Abandon(r) ==
  /\ run[r].at \in Busy
  /\ \/ WritesMayFail /\ run[r].at \in {"post", "refused"} /\ Leave(r)
     \/ run' = [run EXCEPT ![r] = AtList({})]
  /\ UNCHANGED <<hooks, delivery, posts>>

(* Seeded fault: a delivery refused once has no next attempt.             *)
BackOffForEver(d) ==
  /\ delivery[d].status = "pending" /\ ~delivery[d].due /\ delivery[d].attempts = 0
  /\ delivery' = [delivery EXCEPT ![d].due = TRUE]
  /\ UNCHANGED <<hooks, run, posts>>

(* The back-off, min(3600, 2^attempts * 30) seconds, is over.              *)
BackOffEnds(d) ==
  /\ delivery[d].status = "pending" /\ ~delivery[d].due
  /\ delivery' = [delivery EXCEPT ![d].due = TRUE]
  /\ UNCHANGED <<hooks, run, posts>>

RunStep(r) ==
  List(r) \/ Claim(r) \/ Post(r) \/ MarkDelivered(r) \/ Count(r) \/ MarkRefused(r)

-----------------------------------------------------------------------------
(* Correctness.                                                            *)

HooksTypeOK ==
  /\ hooks \subseteq Hooks
  /\ delivery \in [Deliveries -> [status : DeliveryStatuses, attempts : 0..MaxAttempts,
                                  due : BOOLEAN]]
  /\ run \in [Runs -> [at : {"list"} \cup Busy, todo : SUBSET Picks, now : SUBSET Picks]]
  /\ posts \in [Deliveries -> [took : BOOLEAN, times : 0..MaxAttempts]]

Holding(r, d) == \E p \in run[r].now : p.of = d

(* 'This prevents duplicate sends when more than one API instance is       *)
(* running': of all overlapping runs that listed a delivery, one works on  *)
(* it, and only while the row says so.                                     *)
OneAtATime ==
  \A d \in Deliveries : \A r \in Runs :
    Holding(r, d) =>
      /\ \/ delivery[d].status \in {"delivering", "deleted"}
         \/ delivery[d].status = "delivered" /\ run[r].at \in {"count", "refused"}
      /\ \A q \in Runs \ {r} : ~Holding(q, d)

(* A row never claims more than happened: one marked delivered was taken   *)
(* by its endpoint, one given up was posted as often as is promised, what- *)
(* ever stale counts the runs write.                                       *)
SettledIsTrue ==
  \A d \in Deliveries :
    /\ delivery[d].status = "delivered" => posts[d].took
    /\ delivery[d].status = "failed" => posts[d].times = MaxAttempts

(* A queued delivery is delivered, given up or deleted, unless a run       *)
(* stopped while it held it.                                               *)
QueuedIsSettled ==
  \A d \in Deliveries :
    delivery[d].status = "pending" ~>
      \/ delivery[d].status \in {"delivered", "failed", "deleted"}
      \/ delivery[d].status = "delivering" /\ ~\E r \in Runs : Holding(r, d)
=============================================================================
