------------------------------ MODULE Messaging ------------------------------
(***************************************************************************)
(* Text messages (MessagesService, and the message part of WebhooksSer-    *)
(* vice): a user sends one over the first carrier that takes it, a carrier *)
(* calls back with one that arrived or with the fate of one it took, a     *)
(* user reads one.  What happened is told to the user's webhooks.          *)
(*                                                                         *)
(* Every handler is a sequence of separate reads, calls and writes.  Left  *)
(* out: the settlement of a verification that an inbound text starts (see  *)
(* NumberLifecycle), the counters of a number, pushes to connected clients.*)
(***************************************************************************)
EXTENDS DeveloperWebhooks, CarrierRoutes

CONSTANTS Sends,     \* requests to send
          Country, Preferred, Media, \* functions of Sends
          Answered,  \* [Sends -> the fate the answer of a carrier that takes the text tells]
          Arrivals,  \* callbacks about a text for one of our numbers
          Text,      \* [Arrivals -> the carrier's id of the text]
          Callback,  \* [Arrivals -> the id the callback is deduplicated by]
          Receipts,  \* callbacks about the fate of a text we sent
          About,     \* [Receipts -> Sends]
          Fate,      \* [Receipts -> Fates]
          Users,     \* users who read texts
          Together   \* bound: who acts in one behaviour, webhooks to delete included

Handlers == Sends \cup Arrivals \cup Receipts
Fates == {"queued", "sent", "delivered", "failed", "received"}

(* A message row is known by the handler that stored it.                   *)
Messages == Sends \cup Arrivals

SentEvent(x) == <<"message.sent", x>>
ReceivedEvent(x) == <<"message.received", x>>
StatusEvent(x, status) == <<"message.status", x, status>>

ASSUME MessagingAssumption ==
  /\ Sends \cap Arrivals = {} /\ Receipts \cap (Sends \cup Arrivals) = {}
  /\ Preferred \in [Sends -> Carriers \cup {AnyCarrier}] /\ Media \in [Sends -> BOOLEAN]
  /\ Answered \in [Sends -> Fates]
  /\ DOMAIN Country = Sends /\ DOMAIN Text = Arrivals /\ DOMAIN Callback = Arrivals
  /\ About \in [Receipts -> Sends] /\ Fate \in [Receipts -> Fates]
  /\ Together \subseteq SUBSET (Handlers \cup Users \cup Runs \cup Hooks)
  /\ Events = {SentEvent(s) : s \in Sends} \cup {ReceivedEvent(a) : a \in Arrivals}
              \cup {StatusEvent(About[r], Fate[r]) : r \in Receipts}

VARIABLES active,  \* who acts in this behaviour
          handler, \* where each of them is
          left,    \* per send: the carriers still to be tried
          took,    \* the texts a carrier took: {<<send, carrier>>}
          message, \* messages: status, the carrier's id, and whether it was analysed
          seen,    \* webhook_dedup
          reader,  \* per user: markRead, and what it read
          untold   \* history: events that failed to be queued

mvars == <<active, handler, left, took, message, seen, reader, untold>>
vars == <<hookvars, mvars>>

-----------------------------------------------------------------------------
(* Data.                                                                   *)

Id(s, c) == <<s, c>>
NoId == <<>>
NoMessage == [status |-> "none", id |-> NoId, analysed |-> FALSE]
Stored == {x \in Messages : message[x].status # "none"}

InitMessages ==
  /\ active \in Together
  /\ handler = [h \in Handlers |-> "idle"]
  /\ left = [s \in Sends |-> <<>>]
  /\ took = {}
  /\ message = [x \in Messages |-> NoMessage]
  /\ seen = {}
  /\ reader = [u \in Users |-> [at |-> "idle", of |-> "none", saw |-> NoMessage]]
  /\ untold = {}

Init == InitHooks /\ InitMessages

Step(h, next) == handler' = [handler EXCEPT ![h] = next]
Goes(h, from, next) == handler[h] = from /\ Step(h, next)

(* The last write of a handler.  A failure to queue is swallowed.          *)
Announce(h, e, next) ==
  /\ Goes(h, "announce", next)
  /\ \/ QueueFor(e, Subscribed(e)) /\ UNCHANGED untold
     \/ /\ WritesMayFail /\ untold' = untold \cup {e}
        /\ \E hs \in SUBSET Subscribed(e) : QueueFor(e, hs)
  /\ UNCHANGED <<hooks, run, posts, active, left, took, message, seen, reader>>

-----------------------------------------------------------------------------
(* send.                                                                   *)

(* The subscription, the sender's number and the text pass, or the request *)
(* is refused.                                                             *)
Admit(s) ==
  /\ s \in active
  /\ \/ Goes(s, "idle", "try") /\ left' = [left EXCEPT ![s] = Route(Country[s], Preferred[s])]
     \/ Goes(s, "idle", "done") /\ UNCHANGED left
  /\ UNCHANGED <<hookvars, active, took, message, seen, reader, untold>>

(* A carrier takes the text; takes it and its answer is lost; or refuses.  *)
TryCarrier(s) ==
  /\ left[s] # <<>>
  /\ LET c == Head(left[s]) IN
     \/ /\ CanText(c, Media[s]) /\ Goes(s, "try", "save")
        /\ took' = took \cup {Id(s, c)}
        /\ UNCHANGED left
     \/ /\ handler[s] = "try"
        /\ took' \in {took} \cup (IF CanText(c, Media[s]) THEN {took \cup {Id(s, c)}} ELSE {})
        /\ left' = [left EXCEPT ![s] = Tail(@)]
        /\ UNCHANGED handler
  /\ UNCHANGED <<hookvars, active, message, seen, reader, untold>>

NoCarrier(s) ==
  /\ left[s] = <<>> /\ Goes(s, "try", "done")
  /\ UNCHANGED <<hookvars, active, left, took, message, seen, reader, untold>>

SaveSent(s) ==
  /\ Goes(s, "save", "announce")
  /\ message' = [message EXCEPT ![s] = [status |-> Answered[s], id |-> Id(s, Head(left[s])),
                                        analysed |-> FALSE]]
  /\ UNCHANGED <<hookvars, active, left, took, seen, reader, untold>>

AnnounceSent(s) == Announce(s, SentEvent(s), "done")

-----------------------------------------------------------------------------
(* An inbound text: handleInboundSms, handleBandwidthWebhook, and          *)
(* recordInbound, which both call.                                         *)

LookUp(a) ==
  /\ a \in active
  /\ Goes(a, "idle", IF Callback[a] \in seen THEN "done" ELSE "mark")
  /\ UNCHANGED <<hookvars, active, left, took, message, seen, reader, untold>>

(* Seeded fault: event_id is not unique.                                   *)
MarkAnyway(a) ==
  /\ Goes(a, "mark", "find")
  /\ seen' = seen \cup {Callback[a]}
  /\ UNCHANGED <<hookvars, active, left, took, message, reader, untold>>

(* event_id is unique: of two handlers that found nothing one fails.       *)
MarkSeen(a) ==
  /\ Goes(a, "mark", IF Callback[a] \in seen THEN "done" ELSE "find")
  /\ seen' = seen \cup {Callback[a]}
  /\ UNCHANGED <<hookvars, active, left, took, message, reader, untold>>

(* The number is not ours, or the text is stored already.                  *)
FindReceived(a) ==
  /\ \/ Goes(a, "find", "done")
     \/ Goes(a, "find", IF \E x \in Stored : message[x].id = Text[a] THEN "analyse" ELSE "save")
  /\ UNCHANGED <<hookvars, active, left, took, message, seen, reader, untold>>

(* The carrier's id of a text is not unique among the rows.                *)
SaveReceived(a) ==
  /\ Goes(a, "save", "announce")
  /\ message' = [message EXCEPT ![a] = [status |-> "received", id |-> Text[a],
                                        analysed |-> FALSE]]
  /\ UNCHANGED <<hookvars, active, left, took, seen, reader, untold>>

AnnounceReceived(a) == Announce(a, ReceivedEvent(a), "analyse")

(* What the classification found, one-time code included, is written to    *)
(* the row; classification may have failed.                                *)
Analyse(a) ==
  /\ Goes(a, "analyse", "done")
  /\ \/ \E x \in IF a \in Stored THEN {a} ELSE {y \in Stored : message[y].id = Text[a]} :
          message' = [message EXCEPT ![x].analysed = TRUE]
     \/ UNCHANGED message
  /\ UNCHANGED <<hookvars, active, left, took, seen, reader, untold>>

(* markRead reads the row, and saves all of what it read.                  *)
ReadRow(u, a) ==
  /\ u \in active /\ reader[u].at = "idle" /\ message[a].status = "received"
  /\ reader' = [reader EXCEPT ![u] = [at |-> "save", of |-> a, saw |-> message[a]]]
  /\ UNCHANGED <<hookvars, active, handler, left, took, message, seen, untold>>

MarkRead(u) ==
  /\ reader[u].at = "save"
  /\ message' = [message EXCEPT ![reader[u].of] = [reader[u].saw EXCEPT !.status = "read"]]
  /\ reader' = [reader EXCEPT ![u].at = "done"]
  /\ UNCHANGED <<hookvars, active, handler, left, took, seen, untold>>

-----------------------------------------------------------------------------
(* updateDeliveryStatus: only Twilio's receipts reach it.                  *)

ReceiptId(r) == Id(About[r], "twilio")

(* A receipt may come before the row is stored, and is dropped then.       *)
ReadStatus(r) ==
  /\ r \in active /\ ReceiptId(r) \in took /\ handler[r] = "idle"
  /\ LET found == {x \in Stored : message[x].id = ReceiptId(r)} IN
     IF \E x \in found : message[x].status # Fate[r]
     THEN Step(r, "save")
     ELSE Step(r, "done")
  /\ UNCHANGED <<hookvars, active, left, took, message, seen, reader, untold>>

SaveStatus(r) ==
  /\ Goes(r, "save", "announce")
  /\ message' = [message EXCEPT ![About[r]].status = Fate[r]]
  /\ UNCHANGED <<hookvars, active, left, took, seen, reader, untold>>

(* Seeded fault: the event of a status does not name it.                   *)
AnnounceFirst(r) == Announce(r, StatusEvent(About[r], "sent"), "done")

AnnounceStatus(r) == Announce(r, StatusEvent(About[r], Fate[r]), "done")

-----------------------------------------------------------------------------
(* A write of a handler fails, or its process stops.                       *)
Stop(h) ==
  /\ handler[h] \notin {"idle", "done"}
  /\ Step(h, "done")
  /\ untold' = IF handler[h] # "announce" THEN untold
               ELSE untold \cup {IF h \in Sends THEN SentEvent(h)
                                 ELSE IF h \in Arrivals THEN ReceivedEvent(h)
                                 ELSE StatusEvent(About[h], Fate[h])}
  /\ UNCHANGED <<hookvars, active, left, took, message, seen, reader>>

MessageStep ==
  \/ \E s \in Sends : Admit(s) \/ TryCarrier(s) \/ NoCarrier(s) \/ SaveSent(s) \/ AnnounceSent(s)
  \/ \E a \in Arrivals : LookUp(a) \/ MarkSeen(a) \/ FindReceived(a) \/ SaveReceived(a)
                         \/ AnnounceReceived(a) \/ Analyse(a)
  \/ \E u \in Users : MarkRead(u) \/ \E a \in Arrivals : ReadRow(u, a)
  \/ \E r \in Receipts : ReadStatus(r) \/ SaveStatus(r) \/ AnnounceStatus(r)
  \/ \E h \in Handlers : Stop(h)

(* The webhooks and the runs of the job of this behaviour.                 *)
WebhookStep ==
  /\ \/ \E r \in Runs \cap active : RunStep(r) \/ DeliveredWriteFails(r) \/ Abandon(r)
     \/ \E d \in Deliveries : BackOffEnds(d)
     \/ \E h \in Hooks \cap active : DeleteHook(h)
  /\ UNCHANGED mvars

Next == WebhookStep \/ MessageStep

(* The job runs every minute.  Nothing else is promised.                   *)
Fairness ==
  /\ WF_vars((\E r \in Runs \cap active : RunStep(r)) /\ UNCHANGED mvars)
  /\ WF_vars((\E d \in Deliveries : BackOffEnds(d)) /\ UNCHANGED mvars)

Spec == Init /\ [][Next]_vars /\ Fairness

-----------------------------------------------------------------------------
(* Correctness.                                                            *)

Places == {"idle", "try", "mark", "find", "save", "announce", "analyse", "done"}

TypeOK ==
  /\ HooksTypeOK
  /\ active \in Together
  /\ handler \in [Handlers -> Places]
  /\ took \subseteq Sends \X Conversation
  /\ \A x \in Messages :
       message[x].status \in {"none", "received", "read"} \cup Fates
  /\ seen \subseteq {Callback[a] : a \in Arrivals}
  /\ untold \subseteq Events

(* Callbacks that carry one id, redelivered or handled side by side, leave *)
(* one message, and at most one event tells of it.                         *)
ReceivedOnce ==
  \A a, b \in Arrivals :
    a # b /\ Callback[a] = Callback[b] =>
      /\ ~({a, b} \subseteq Stored)
      /\ \A d, e \in Deliveries :
           d[1] = ReceivedEvent(a) /\ e[1] = ReceivedEvent(b) =>
             delivery[d].status = "none" \/ delivery[e].status = "none"

(* Every status a receipt gives a message, other than the one it is stored *)
(* with, reaches each webhook that asked for it: once its handlers         *)
(* are through and the queueing did not fail, there is a delivery for it,  *)
(* whatever the message was told to be before.                             *)
StatusIsTold ==
  \A s \in Sends :
    LET e == <<"message.status", s, message[s].status>> IN
    /\ message[s].status # Answered[s]
    /\ \E r \in Receipts : About[r] = s /\ Fate[r] = message[s].status
    /\ e \notin untold
    => \/ \E r \in Receipts : About[r] = s /\ Fate[r] = message[s].status
                              /\ handler[r] = "announce"
       \/ \A h \in Subscribers[e] \cap hooks : delivery[<<e, h>>].status # "none"
=============================================================================
