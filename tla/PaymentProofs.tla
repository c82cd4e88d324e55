--------------------------- MODULE PaymentProofs ---------------------------
(***************************************************************************)
(* Proofs about PaymentSettlement: its type invariant, that no wallet is   *)
(* credited more often than it was paid for, that a completed session was  *)
(* delivered, and that a credit without its row is seen by an operator.    *)
(*                                                                         *)
(* The credits rest on the dedup table alone.  A handler on its way to a   *)
(* credit holds an event id nobody else holds and nobody will get again,   *)
(* and has verified a payment of that id.  So a finished payment is        *)
(* consumed at most once: when its event id is recorded and no handler is  *)
(* still on its way with it.  The last two rest on a count: of a session,  *)
(* credits exceed rows by no more than the handlers between the two.       *)
(***************************************************************************)
EXTENDS PaymentSettlement, FiniteSetTheorems, TLAPS

(* Handlers that may still credit, and the id of the event they handle.    *)
Upcoming == {"fulfil", "verify", "claim", "credit"}
OnItsWay(h) == handler[h].at \in Upcoming
IdOf(h) == EventId(handler[h].pay, handler[h].word)

Consumed(s) ==
  {p \in Paid(s) : /\ EventId(p, "finished") \in recorded
                   /\ \A h \in Handlers : OnItsWay(h) => IdOf(h) # EventId(p, "finished")}

(* Only sessions whose checkout was opened are paid, and those have a      *)
(* gateway for good.                                                       *)
Opened ==
  /\ \A s \in Sessions : status[s] # "none" => gateway[s] # "none"
  /\ \A s \in ready : status[s] # "none"
  /\ \A p \in Payments : told[p] # {} => For[p] \in ready
  /\ \A h \in Handlers : handler[h] # Idle =>
       handler[h].word \in told[handler[h].pay]
  /\ \A h \in Handlers : handler[h].at = "write" => handler[h].seen # "none"

(* Handlers on their way have recorded ids, different ones, of finished    *)
(* events, and those past the verification a payment made in full.         *)
HandledOnce ==
  /\ \A h \in Handlers : OnItsWay(h) => IdOf(h) \in recorded /\ handler[h].word = "finished"
  /\ \A g, h \in Handlers : OnItsWay(g) /\ OnItsWay(h) /\ g # h => IdOf(g) # IdOf(h)
  /\ \A h \in Handlers : handler[h].at \in {"claim", "credit"} => handler[h].pay \in exact

CreditsConsumed == \A s \in Sessions : credits[s] <= Cardinality(Consumed(s))

SettlementInv == TypeOK /\ Opened /\ HandledOnce /\ CreditsConsumed

-----------------------------------------------------------------------------
(* The steps a handler goes through between its reads and writes.          *)
Stages == {"fulfil", "verify", "claim", "credit", "entry", "complete", "mark"}

(* A handler that goes to another stage keeps its event, and its type.     *)
LEMMA StageChange ==
  ASSUME NEW r \in Handler, r.at \in Stages, NEW step \in Stages
  PROVE  /\ [r EXCEPT !.at = step] \in Handler
         /\ [r EXCEPT !.at = step].at = step
         /\ [r EXCEPT !.at = step].pay = r.pay
         /\ [r EXCEPT !.at = step].word = r.word
<1>1. r \in [at : Stages, pay : Payments, word : Words]
  BY DEF Handler, Idle, Stages
<1> QED
  BY <1>1 DEF Handler, Stages

(* What the type invariant says of a handler that is not idle.             *)
LEMMA HandlerFields ==
  ASSUME TypeOK, NEW h \in Handlers, handler[h] # Idle
  PROVE  /\ handler[h] \in Handler
         /\ handler[h].pay \in Payments /\ handler[h].word \in Words
         /\ handler[h].at \in Stages \cup {"write"}
         /\ handler[h].at = "write" => handler[h].seen \in Statuses \ {"completed"}
         /\ Of(h) \in Sessions
<1>1. handler[h] \in Handler
  BY DEF TypeOK
<1>2. \/ handler[h] \in [at : Stages, pay : Payments, word : Words]
      \/ handler[h] \in [at : {"write"}, pay : Payments, word : Words,
                         seen : Statuses \ {"completed"}]
  BY <1>1 DEF Handler, Stages
<1>3. handler[h].pay \in Payments
  BY <1>2
<1>4. Of(h) \in Sessions
  BY <1>3, PaymentsAssumption DEF Of
<1> QED
  BY <1>1, <1>2, <1>3, <1>4 DEF Stages

LEMMA InitTyped == Init => TypeOK
  BY DEF Init, TypeOK, Handler, Statuses, Flags, Idle

(* An event id is a pair of a payment or a session and a word.             *)
LEMMA EventIdTyped ==
  ASSUME TypeOK, NEW p \in Payments, NEW w \in Words, For[p] \in ready
  PROVE  EventId(p, w) \in (Payments \cup Sessions) \X (Words \cup {"any"})
<1>1. For[p] \in Sessions
  BY PaymentsAssumption
<1>2. Gate(p) \in Gateways
  BY <1>1 DEF TypeOK, Gate
<1> QED
  BY <1>1, <1>2 DEF EventId, Gateways, Words

(* Ids depend on the gateway of the payment's session only.                *)
LEMMA SameId ==
  ASSUME NEW p, NEW w, gateway'[For[p]] = gateway[For[p]]
  PROVE  EventId(p, w)' = EventId(p, w)
  BY DEF EventId, Gate

LEMMA SameWay ==
  ASSUME UNCHANGED <<handler, gateway>>, NEW h
  PROVE  (OnItsWay(h)' <=> OnItsWay(h)) /\ IdOf(h)' = IdOf(h)
<1>1. OnItsWay(h)' <=> OnItsWay(h)
  BY DEF OnItsWay
<1>2. IdOf(h)' = IdOf(h)
  BY DEF IdOf, EventId, Gate
<1> QED
  BY <1>1, <1>2

-----------------------------------------------------------------------------
(* What a step of a handler does to the handler.                           *)
Advance(h, r) ==
  /\ r \in Handler
  /\ handler' = [handler EXCEPT ![h] = r]
  /\ r # Idle => /\ handler[h] # Idle
                 /\ r.pay = handler[h].pay /\ r.word = handler[h].word
  /\ r.at \in Upcoming => OnItsWay(h)
  /\ r.at = "claim" => handler[h].pay \in exact
  /\ r.at = "credit" => handler[h].at = "claim"
  /\ r.at = "write" => handler[h] # Idle /\ r.seen = status[Of(h)]

(* ... to the sessions, none of which it opens or makes new again ...      *)
StatusKept ==
  /\ status' \in [Sessions -> Statuses]
  /\ \A s \in Sessions : status'[s] = "none" <=> status[s] = "none"

(* ... and to the ledger.                                                  *)
CreditOnce(h) ==
  /\ entries' \in [Sessions -> Nat]
  /\ \/ credits' = credits
     \/ /\ handler[h].at = "credit" /\ handler'[h].at = "entry"
        /\ credits' = [credits EXCEPT ![Of(h)] = @ + 1]

Bystanders ==
  /\ UNCHANGED <<frame, recorded>>
  /\ acked' \subseteq Payments \X Words
  /\ lost' \subseteq Sessions /\ reviewed' \subseteq Sessions

LEMMA Finishes ==
  ASSUME TypeOK, NEW h \in Handlers, handler[h] # Idle, Goto(h, Idle)
  PROVE  Advance(h, Idle) /\ handler'[h] = Idle
  BY DEF TypeOK, Advance, Goto, Idle, Handler, Upcoming

LEMMA Proceeds ==
  ASSUME TypeOK, NEW h \in Handlers, handler[h].at \in Stages,
         NEW step \in Stages, Proceed(h, step),
         step \in Upcoming => OnItsWay(h),
         step = "claim" => handler[h].pay \in exact,
         step = "credit" => handler[h].at = "claim"
  PROVE  \E r : Advance(h, r) /\ r.at = step /\ handler'[h].at = step
<1> DEFINE r == [handler[h] EXCEPT !.at = step]
<1>1. handler[h] \in Handler /\ handler \in [Handlers -> Handler]
  BY DEF TypeOK
<1>2. handler[h] # Idle
  BY DEF Idle, Stages
<1>3. /\ r \in Handler /\ r.at = step
      /\ r.pay = handler[h].pay /\ r.word = handler[h].word
  BY <1>1, StageChange
<1>4. handler' = [handler EXCEPT ![h] = r]
  BY DEF Proceed
<1>5. step # "write"
  BY DEF Stages
<1> HIDE DEF r
<1>6. Advance(h, r)
  BY <1>2, <1>3, <1>4, <1>5 DEF Advance
<1>7. handler'[h] = r
  BY <1>1, <1>4
<1> QED
  BY <1>3, <1>6, <1>7

LEMMA StatusSet ==
  ASSUME TypeOK, NEW s \in Sessions, status[s] # "none",
         NEW v \in Statuses, v # "none", SetStatus(s, v)
  PROVE  StatusKept
  BY DEF TypeOK, SetStatus, StatusKept

LEMMA StatusSame ==
  ASSUME TypeOK, UNCHANGED status
  PROVE  StatusKept
  BY DEF TypeOK, StatusKept

(* Every step of a handler, and its death, in those terms.                 *)
LEMMA HandlerStep ==
  ASSUME TypeOK, Opened, NEW h \in Handlers, Step(h) \/ Die(h)
  PROVE  /\ Bystanders /\ StatusKept /\ CreditOnce(h)
         /\ \E r : Advance(h, r)
<1>1. handler[h] # Idle
  BY DEF Step, Die, At, Idle, Fulfil, Refuse, Verify, Claim, Credit, Enter, Complete,
         EffectFails, Fulfilling, MarkRead, MarkWrite
<1>2. /\ handler[h] \in Handler
      /\ handler[h].pay \in Payments /\ handler[h].word \in Words
      /\ handler[h].at \in Stages \cup {"write"}
      /\ handler[h].at = "write" => handler[h].seen \in Statuses \ {"completed"}
      /\ Of(h) \in Sessions
  BY <1>1, HandlerFields
<1>3. /\ acked \subseteq Payments \X Words
      /\ lost \subseteq Sessions /\ reviewed \subseteq Sessions
      /\ entries \in [Sessions -> Nat]
      /\ status \in [Sessions -> Statuses]
      /\ handler \in [Handlers -> Handler]
  BY DEF TypeOK
<1>4. ASSUME Finish(h)
      PROVE  Advance(h, Idle) /\ handler'[h] = Idle /\ acked' \subseteq Payments \X Words
  BY <1>1, <1>2, <1>3, <1>4, Finishes DEF Finish, Ack
<1>5. ASSUME NEW v \in Statuses, v # "none", SetStatus(Of(h), v)
      PROVE  StatusKept
  <2>1. status[Of(h)] # "none"
    BY <1>1, <1>2 DEF Opened, Of
  <2> QED
    BY <1>2, <1>5, <2>1, StatusSet
<1>6. CASE Fulfil(h)
  <2>1. StatusKept /\ CreditOnce(h)
    BY <1>3, <1>6, StatusSame DEF Fulfil, CreditOnce, ledger
  <2>2. CASE Finish(h)
    BY <1>3, <1>4, <1>6, <2>1, <2>2 DEF Fulfil, Bystanders, history
  <2>3. CASE Proceed(h, "verify") /\ UNCHANGED acked
    <3>1. \E r : Advance(h, r)
      BY <1>6, <2>3, Proceeds DEF Fulfil, At, Stages, OnItsWay, Upcoming
    <3> QED
      BY <1>3, <1>6, <2>1, <2>3, <3>1 DEF Fulfil, Bystanders, history
  <2> QED
    BY <1>6, <2>2, <2>3 DEF Fulfil
<1>7. CASE \E flag \in {"verification_failed", "reconciliation_failed"} : Refuse(h, flag)
  <2>1. StatusKept
    BY <1>5, <1>7 DEF Refuse, Statuses, Flags
  <2> QED
    BY <1>3, <1>4, <1>7, <2>1 DEF Refuse, Bystanders, CreditOnce, ledger, history
<1>8. CASE Verify(h)
  <2>1. \E r : Advance(h, r)
    BY <1>8, Proceeds DEF Verify, At, Stages, OnItsWay, Upcoming
  <2> QED
    BY <1>3, <1>8, <2>1, StatusSame DEF Verify, Bystanders, CreditOnce, ledger, history
<1>9. CASE Claim(h)
  <2>1. CreditOnce(h)
    BY <1>3, <1>9 DEF Claim, CreditOnce, ledger
  <2>2. CASE Finish(h) /\ UNCHANGED status
    BY <1>3, <1>4, <1>9, <2>1, <2>2, StatusSame DEF Claim, Bystanders, history
  <2>3. ASSUME SetStatus(Of(h), "processing"), UNCHANGED acked,
               NEW step \in {"credit", "complete"}, Proceed(h, step)
        PROVE  Bystanders /\ StatusKept /\ \E r : Advance(h, r)
    <3>1. \E r : Advance(h, r)
      BY <1>9, <2>3, Proceeds DEF Claim, At, Stages, OnItsWay, Upcoming
    <3>2. StatusKept
      BY <1>5, <2>3 DEF Statuses
    <3> QED
      BY <1>3, <1>9, <2>3, <3>1, <3>2 DEF Claim, Bystanders, history
  <2> QED
    BY <1>9, <2>1, <2>2, <2>3 DEF Claim
<1>10. CASE Credit(h)
  <2>1. (\E r : Advance(h, r)) /\ handler'[h].at = "entry"
    BY <1>10, Proceeds DEF Credit, At, Stages, Upcoming
  <2> QED
    BY <1>3, <1>10, <2>1, StatusSame DEF Credit, At, Bystanders, CreditOnce, history
<1>11. CASE Enter(h)
  <2>1. \E r : Advance(h, r)
    BY <1>11, Proceeds DEF Enter, At, Stages, Upcoming
  <2>2. CreditOnce(h)
    BY <1>2, <1>3, <1>11 DEF Enter, CreditOnce
  <2> QED
    BY <1>3, <1>11, <2>1, <2>2, StatusSame DEF Enter, Bystanders, history
<1>12. CASE Complete(h)
  <2>1. StatusKept
    BY <1>5, <1>12 DEF Complete, Statuses
  <2> QED
    BY <1>3, <1>4, <1>12, <2>1 DEF Complete, Bystanders, CreditOnce, ledger, history
<1>13. CASE EffectFails(h)
  <2>1. StatusKept
    BY <1>5, <1>13 DEF EffectFails, Statuses, Flags
  <2> QED
    BY <1>2, <1>3, <1>4, <1>13, <2>1 DEF EffectFails, Bystanders, CreditOnce, ledger
<1>14. CASE MarkRead(h)
  <2>1. StatusKept /\ CreditOnce(h)
    BY <1>3, <1>14, StatusSame DEF MarkRead, CreditOnce, ledger
  <2>2. CASE Finish(h)
    BY <1>3, <1>4, <1>14, <2>1, <2>2 DEF MarkRead, Bystanders, history
  <2>3. CASE status[Of(h)] # "completed"
    <3> DEFINE r == [at |-> "write", pay |-> handler[h].pay, word |-> handler[h].word,
                     seen |-> status[Of(h)]]
    <3>1. r \in Handler
      BY <1>2, <1>3, <2>3 DEF Handler
    <3>2. Goto(h, r) /\ UNCHANGED acked
      BY <1>14, <2>3 DEF MarkRead
    <3>3. Advance(h, r)
      BY <1>1, <3>1, <3>2 DEF Advance, Goto, Upcoming
    <3> QED
      BY <1>3, <1>14, <2>1, <3>2, <3>3 DEF MarkRead, Bystanders, history
  <2> QED
    BY <1>14, <2>2, <2>3 DEF MarkRead
<1>15. CASE MarkWrite(h)
  <2>1. handler[h].seen \in Statuses /\ handler[h].seen # "none"
    BY <1>2, <1>15 DEF MarkWrite, At, Opened
  <2>2. StatusKept
    BY <1>5, <1>15, <2>1 DEF MarkWrite, Statuses
  <2> QED
    BY <1>3, <1>4, <1>15, <2>2 DEF MarkWrite, Bystanders, CreditOnce, ledger, history
<1>16. CASE Die(h)
  <2>1. Advance(h, Idle)
    BY <1>1, <1>16, Finishes DEF Die
  <2> QED
    BY <1>2, <1>3, <1>16, <2>1, StatusSame DEF Die, Bystanders, CreditOnce, ledger
<1> QED
  BY <1>6, <1>7, <1>8, <1>9, <1>10, <1>11, <1>12, <1>13, <1>14, <1>15, <1>16 DEF Step

-----------------------------------------------------------------------------
(* Steps that leave the handlers to themselves.                            *)
Outside ==
  \/ \E s \in Sessions, g \in Open : Initialize(s, g)
  \/ \E s \in Sessions : CheckoutReady(s) \/ CheckoutFails(s)
  \/ \E p \in Payments, w \in Words : Report(p, w)

(* Nothing that a handler or an id depends on is taken back by them.       *)
LEMMA OutsideStep ==
  ASSUME TypeOK, Opened, Outside
  PROVE  /\ UNCHANGED hooks
         /\ ready \subseteq ready' /\ exact \subseteq exact'
         /\ \A p \in Payments : told[p] \subseteq told'[p]
         /\ \A s \in ready : gateway'[s] = gateway[s]
         /\ TypeOK' /\ Opened'
<1>1. CASE \E s \in Sessions, g \in Open : Initialize(s, g)
  <2>1. PICK s \in Sessions, g \in Open : Initialize(s, g)
    BY <1>1
  <2>2. s \notin ready /\ g \in Gateways
    BY <2>1, PaymentsAssumption DEF Initialize, Opened
  <2>3. UNCHANGED <<ready, told, exact, recorded, acked, handler, credits, entries, lost, reviewed>>
    BY <2>1 DEF Initialize, hooks, ledger, history
  <2>4. /\ status' = [status EXCEPT ![s] = "pending"]
        /\ gateway' = [gateway EXCEPT ![s] = g]
    BY <2>1 DEF Initialize, SetStatus
  <2>5. TypeOK'
    BY <2>2, <2>3, <2>4 DEF TypeOK, Statuses, Gateways
  <2>6. Opened'
    BY <2>2, <2>3, <2>4 DEF TypeOK, Opened, Gateways
  <2> QED
    BY <2>2, <2>3, <2>4, <2>5, <2>6 DEF TypeOK, hooks, ledger, history
<1>2. CASE \E s \in Sessions : CheckoutReady(s)
  <2>1. PICK s \in Sessions : CheckoutReady(s)
    BY <1>2
  <2>2. /\ UNCHANGED <<status, gateway, told, exact, recorded, acked, handler>>
        /\ UNCHANGED <<credits, entries, lost, reviewed>>
        /\ status[s] = "pending" /\ ready' = ready \cup {s}
    BY <2>1 DEF CheckoutReady, rows, hooks, ledger, history
  <2>3. gateway[s] # "none"
    BY <2>1, <2>2 DEF Opened
  <2> QED
    BY <2>2, <2>3 DEF TypeOK, Opened, hooks, ledger, history
<1>3. CASE \E s \in Sessions : CheckoutFails(s)
  <2>1. PICK s \in Sessions : CheckoutFails(s)
    BY <1>3
  <2>2. /\ UNCHANGED <<gateway, ready, told, exact, recorded, acked, handler>>
        /\ UNCHANGED <<credits, entries, lost, reviewed>>
        /\ status' = [status EXCEPT ![s] = "initialization_failed"]
    BY <2>1 DEF CheckoutFails, SetStatus, hooks, ledger, history
  <2>3. status[s] # "none"
    BY <2>1 DEF CheckoutFails
  <2>4. TypeOK'
    BY <2>2 DEF TypeOK, Statuses
  <2>5. Opened'
    BY <2>2, <2>3 DEF TypeOK, Opened
  <2> QED
    BY <2>2, <2>4, <2>5 DEF hooks, ledger, history
<1>4. CASE \E p \in Payments, w \in Words : Report(p, w)
  <2>1. PICK p \in Payments, w \in Words : Report(p, w)
    BY <1>4
  <2>2. /\ UNCHANGED <<status, gateway, ready, recorded, acked, handler>>
        /\ UNCHANGED <<credits, entries, lost, reviewed>>
        /\ For[p] \in ready
        /\ told' = [told EXCEPT ![p] = @ \cup {w}]
        /\ exact' = exact \/ (w = "finished" /\ exact' = exact \cup {p})
    BY <2>1 DEF Report, rows, hooks, ledger, history
  <2>3. told \in [Payments -> SUBSET Words] /\ handler \in [Handlers -> Handler]
    BY DEF TypeOK
  <2>4. /\ told' \in [Payments -> SUBSET Words]
        /\ \A q \in Payments : told[q] \subseteq told'[q]
        /\ \A q \in Payments : q # p => told'[q] = told[q]
        /\ w \in told'[p]
    BY <2>2, <2>3
  <2>5. TypeOK'
    BY <2>2, <2>4 DEF TypeOK
  <2>6. Opened'
    <3>1. ASSUME NEW h \in Handlers, handler[h] # Idle
          PROVE  handler[h].word \in told'[handler[h].pay]
      BY <2>4, <3>1, HandlerFields DEF Opened
    <3> QED
      BY <2>2, <2>4, <3>1 DEF Opened
  <2> QED
    BY <2>2, <2>4, <2>5, <2>6 DEF hooks, ledger, history
<1> QED
  BY <1>1, <1>2, <1>3, <1>4 DEF Outside

(* A delivery is handled under an id nobody has had before.                *)
LEMMA ReceiveStep ==
  ASSUME TypeOK, Opened, NEW h \in Handlers, NEW p \in Payments, NEW w \in Words,
         Receive(h, p, w)
  PROVE  /\ UNCHANGED <<frame, status, ledger, history>>
         /\ recorded' = recorded \cup {EventId(p, w)}
         /\ \/ handler' = handler
            \/ \E r \in Handler :
                 /\ handler' = [handler EXCEPT ![h] = r]
                 /\ r.pay = p /\ r.word = w /\ r.at \in {"fulfil", "mark"}
                 /\ r.at = "fulfil" => w = "finished"
                 /\ EventId(p, w) \notin recorded
         /\ TypeOK' /\ Opened'
<1>1. /\ UNCHANGED <<status, gateway, ready, told, exact, credits, entries, lost, reviewed>>
      /\ recorded' = recorded \cup {EventId(p, w)}
      /\ w \in told[p]
  BY DEF Receive, frame, ledger, history
<1>2. For[p] \in ready
  BY <1>1 DEF Opened
<1>3. handler \in [Handlers -> Handler] /\ acked \subseteq Payments \X Words
  BY DEF TypeOK
<1>4. CASE handler' = handler /\ Ack(p, w)
  <2>1. acked' \subseteq Payments \X Words
    BY <1>3, <1>4 DEF Ack
  <2>2. TypeOK'
    BY <1>1, <1>2, <1>4, <2>1, EventIdTyped DEF TypeOK
  <2>3. Opened'
    BY <1>1, <1>4 DEF Opened
  <2> QED
    BY <1>1, <1>4, <2>2, <2>3 DEF frame, ledger, history
<1>5. CASE /\ EventId(p, w) \notin recorded /\ Verdict(p, w) # "ignore"
           /\ Goto(h, [at |-> Verdict(p, w), pay |-> p, word |-> w])
           /\ UNCHANGED acked
  <2> DEFINE r == [at |-> Verdict(p, w), pay |-> p, word |-> w]
  <2>1. r.at \in {"fulfil", "mark"} /\ (r.at = "fulfil" => w = "finished")
    BY <1>5 DEF Verdict
  <2>2. r \in Handler
    BY <2>1 DEF Handler
  <2>3. handler' = [handler EXCEPT ![h] = r]
    BY <1>5 DEF Goto
  <2>4. r.pay = p /\ r.word = w
    OBVIOUS
  <2> HIDE DEF r
  <2>5. TypeOK'
    BY <1>1, <1>2, <1>3, <1>5, <2>2, <2>3, EventIdTyped DEF TypeOK
  <2>6. /\ handler'[h] = r
        /\ \A g \in Handlers : g # h => handler'[g] = handler[g]
    BY <1>3, <2>3
  <2>7. Opened'
    BY <1>1, <2>1, <2>4, <2>6 DEF Opened
  <2> QED
    BY <1>1, <1>5, <2>1, <2>2, <2>3, <2>4, <2>5, <2>7 DEF frame, ledger, history
<1> QED
  BY <1>4, <1>5 DEF Receive

(* A handler's own step keeps its type and the sessions open.              *)
LEMMA HandlerTyped ==
  ASSUME TypeOK, Opened, NEW h \in Handlers, Step(h) \/ Die(h)
  PROVE  TypeOK' /\ Opened'
<1>1. Bystanders /\ StatusKept /\ CreditOnce(h)
  BY HandlerStep
<1>2. PICK r : Advance(h, r)
  BY HandlerStep
<1>3. /\ UNCHANGED <<gateway, ready, told, exact, recorded>>
      /\ acked' \subseteq Payments \X Words
      /\ lost' \subseteq Sessions /\ reviewed' \subseteq Sessions
      /\ entries' \in [Sessions -> Nat]
  BY <1>1 DEF Bystanders, frame, CreditOnce
<1>4. handler \in [Handlers -> Handler] /\ credits \in [Sessions -> Nat]
  BY DEF TypeOK
<1>5. /\ handler' \in [Handlers -> Handler] /\ handler'[h] = r
      /\ \A g \in Handlers : g # h => handler'[g] = handler[g]
  BY <1>2, <1>4 DEF Advance
<1>6. credits' \in [Sessions -> Nat]
  BY <1>1, <1>4 DEF CreditOnce
<1>7. TypeOK'
  BY <1>1, <1>3, <1>5, <1>6 DEF TypeOK, StatusKept
<1>8. ASSUME r # Idle
      PROVE  r.word \in told[r.pay] /\ (r.at = "write" => r.seen # "none")
  <2>1. /\ handler[h] # Idle /\ r.pay = handler[h].pay /\ r.word = handler[h].word
        /\ r.at = "write" => r.seen = status[Of(h)]
    BY <1>2, <1>8 DEF Advance
  <2>2. handler[h].pay \in Payments /\ handler[h].word \in told[handler[h].pay]
    BY <2>1, HandlerFields DEF Opened
  <2>3. status[Of(h)] # "none"
    BY <2>2 DEF Opened, Of
  <2> QED
    BY <2>1, <2>2, <2>3
<1>9. \A g \in Handlers : handler'[g] # Idle =>
        /\ handler'[g].word \in told[handler'[g].pay]
        /\ handler'[g].at = "write" => handler'[g].seen # "none"
  BY <1>5, <1>8 DEF Opened, Idle
<1>10. \A g \in Handlers : handler'[g].at = "write" => handler'[g] # Idle
  BY DEF Idle
<1>11. /\ \A s \in Sessions : status'[s] # "none" => gateway'[s] # "none"
       /\ \A s \in ready : status'[s] # "none"
  BY <1>1, <1>3 DEF StatusKept, Opened, TypeOK
<1> QED
  BY <1>3, <1>7, <1>9, <1>10, <1>11 DEF Opened

-----------------------------------------------------------------------------
(* Every step is a handler's, a delivery or outside.                       *)
LEMMA Cases ==
  ASSUME Next
  PROVE  \/ Outside
         \/ \E h \in Handlers : Step(h) \/ Die(h)
         \/ \E h \in Handlers, p \in Payments, w \in Words : Receive(h, p, w)
  BY DEF Next, Outside

LEMMA TypedStep ==
  ASSUME TypeOK, Opened, [Next]_vars
  PROVE  TypeOK' /\ Opened'
<1>1. CASE UNCHANGED vars
  BY <1>1 DEF TypeOK, Opened, vars, rows, ledger, history
<1>2. CASE Outside
  BY <1>2, OutsideStep
<1>3. CASE \E h \in Handlers : Step(h) \/ Die(h)
  BY <1>3, HandlerTyped
<1>4. CASE \E h \in Handlers, p \in Payments, w \in Words : Receive(h, p, w)
  BY <1>4, ReceiveStep
<1> QED
  BY <1>1, <1>2, <1>3, <1>4, Cases

LEMMA InitOpened == Init => Opened
  BY DEF Init, Opened, Idle

(* The type invariant of the settlement of payments holds for any number   *)
(* of sessions, payments and concurrent webhooks: fulfillPayment and       *)
(* markPaymentStatusFromWebhook only ever write statuses of the service.   *)
THEOREM PaymentTypeCorrect == Spec => []TypeOK
<1>1. Init => TypeOK /\ Opened
  BY InitTyped, InitOpened
<1>2. TypeOK /\ Opened /\ [Next]_vars => (TypeOK /\ Opened)'
  BY TypedStep
<1> QED
  BY <1>1, <1>2, PTL DEF Spec

-----------------------------------------------------------------------------
(* A handler on its way handles an event that was told, so its id stays.   *)
LEMMA OnItsWayOpen ==
  ASSUME TypeOK, Opened, NEW h \in Handlers, OnItsWay(h)
  PROVE  /\ handler[h] # Idle /\ handler[h].pay \in Payments
         /\ For[handler[h].pay] \in ready
<1>1. handler[h] # Idle
  BY DEF OnItsWay, Upcoming, Idle
<1> QED
  BY <1>1, HandlerFields DEF Opened

(* The ways the handlers, the ids and the payments change in one step.     *)
LEMMA HandledStep ==
  ASSUME TypeOK, Opened, HandledOnce, [Next]_vars
  PROVE  HandledOnce'
<1>1. CASE UNCHANGED <<handler, recorded, gateway, exact>>
  BY <1>1, SameWay DEF HandledOnce
<1>2. CASE Outside
  <2>1. /\ UNCHANGED <<recorded, handler>> /\ exact \subseteq exact'
        /\ \A s \in ready : gateway'[s] = gateway[s]
    BY <1>2, OutsideStep DEF hooks
  <2>2. ASSUME NEW h \in Handlers, OnItsWay(h)
        PROVE  IdOf(h)' = IdOf(h)
    <3>1. gateway'[For[handler[h].pay]] = gateway[For[handler[h].pay]]
      BY <2>1, <2>2, OnItsWayOpen
    <3> QED
      BY <2>1, <3>1 DEF IdOf, EventId, Gate
  <2>3. \A h \in Handlers : OnItsWay(h)' <=> OnItsWay(h)
    BY <2>1 DEF OnItsWay
  <2> QED
    BY <2>1, <2>2, <2>3 DEF HandledOnce
<1>3. ASSUME NEW h \in Handlers, Step(h) \/ Die(h)
      PROVE  HandledOnce'
  <2>1. UNCHANGED <<gateway, exact, recorded>>
    BY <1>3, HandlerStep DEF Bystanders, frame
  <2>2. PICK r : Advance(h, r)
    BY <1>3, HandlerStep
  <2>3. /\ handler'[h] = r
        /\ \A g \in Handlers : g # h => handler'[g] = handler[g]
    BY <2>2 DEF Advance, TypeOK
  <2>4. \A g \in Handlers : OnItsWay(g)' =>
          OnItsWay(g) /\ handler'[g].word = handler[g].word /\ handler'[g].pay = handler[g].pay
    BY <2>2, <2>3 DEF Advance, OnItsWay, Upcoming, Idle
  <2>5. \A g \in Handlers : OnItsWay(g)' => IdOf(g)' = IdOf(g)
    BY <2>1, <2>4 DEF IdOf, EventId, Gate
  <2>6. \A g \in Handlers : handler'[g].at \in {"claim", "credit"} => handler'[g].pay \in exact
    BY <2>2, <2>3 DEF Advance, HandledOnce, Idle
  <2> QED
    BY <2>1, <2>4, <2>5, <2>6 DEF HandledOnce
<1>4. ASSUME NEW h \in Handlers, NEW p \in Payments, NEW w \in Words, Receive(h, p, w)
      PROVE  HandledOnce'
  <2>1. UNCHANGED <<gateway, exact>> /\ recorded' = recorded \cup {EventId(p, w)}
    BY <1>4, ReceiveStep DEF frame
  <2>2. CASE handler' = handler
    BY <2>1, <2>2, SameWay DEF HandledOnce
  <2>3. ASSUME NEW r \in Handler,
               /\ handler' = [handler EXCEPT ![h] = r]
               /\ r.pay = p /\ r.word = w /\ r.at \in {"fulfil", "mark"}
               /\ r.at = "fulfil" => w = "finished"
               /\ EventId(p, w) \notin recorded
        PROVE  HandledOnce'
    <3>1. /\ handler'[h] = r
          /\ \A g \in Handlers : g # h => handler'[g] = handler[g]
      BY <2>3 DEF TypeOK
    <3>2. /\ IdOf(h)' = EventId(p, w)
          /\ \A g \in Handlers : g # h => IdOf(g)' = IdOf(g)
      BY <2>1, <2>3, <3>1 DEF IdOf, EventId, Gate
    <3>3. /\ OnItsWay(h)' => w = "finished"
          /\ \A g \in Handlers : g # h => (OnItsWay(g)' <=> OnItsWay(g))
      BY <2>3, <3>1 DEF OnItsWay, Upcoming
    <3>4. \A g \in Handlers : OnItsWay(g)' => IdOf(g)' \in recorded' /\ handler'[g].word = "finished"
      BY <2>1, <2>3, <3>1, <3>2, <3>3 DEF HandledOnce
    <3>5. \A f, g \in Handlers : OnItsWay(f)' /\ OnItsWay(g)' /\ f # g => IdOf(f)' # IdOf(g)'
      BY <2>3, <3>2, <3>3 DEF HandledOnce
    <3>6. \A g \in Handlers : handler'[g].at \in {"claim", "credit"} => handler'[g].pay \in exact'
      BY <2>1, <2>3, <3>1 DEF HandledOnce
    <3> QED
      BY <3>4, <3>5, <3>6 DEF HandledOnce
  <2> QED
    BY <1>4, <2>2, <2>3, ReceiveStep
<1> QED
  BY <1>1, <1>2, <1>3, <1>4, Cases DEF vars, rows

-----------------------------------------------------------------------------
LEMMA ConsumedFinite ==
  ASSUME TypeOK, NEW s \in Sessions
  PROVE  /\ IsFiniteSet(Consumed(s)) /\ IsFiniteSet(Paid(s))
         /\ Cardinality(Consumed(s)) \in Nat
         /\ Cardinality(Consumed(s)) <= Cardinality(Paid(s))
<1>1. Paid(s) \subseteq Payments /\ Consumed(s) \subseteq Paid(s)
  BY DEF TypeOK, Paid, Consumed
<1> QED
  BY <1>1, FS_Subset, FS_CardinalityType, PaymentsAssumption

(* A payment once consumed stays so: its id is recorded, and no handler    *)
(* sets out on its way with a recorded id.                                 *)
LEMMA ConsumedGrows ==
  ASSUME TypeOK, Opened, HandledOnce, [Next]_vars, NEW s \in Sessions
  PROVE  Consumed(s) \subseteq Consumed(s)'
<1>1. SUFFICES ASSUME NEW q \in Consumed(s)
               PROVE  q \in Consumed(s)'
  OBVIOUS
<1> DEFINE id == EventId(q, "finished")
<1>2. /\ q \in exact /\ For[q] = s /\ q \in Payments /\ id \in recorded
      /\ \A h \in Handlers : OnItsWay(h) => IdOf(h) # id
      /\ For[q] \in ready
  BY <1>1 DEF Consumed, Paid, TypeOK, Opened
<1>3. SUFFICES /\ q \in exact' /\ id' = id /\ id \in recorded'
               /\ \A h \in Handlers : OnItsWay(h)' => IdOf(h)' # id
  BY <1>2 DEF Consumed, Paid
<1>4. CASE UNCHANGED <<handler, recorded, gateway, exact>>
  BY <1>2, <1>4 DEF OnItsWay, IdOf, EventId, Gate
<1>5. CASE Outside
  <2>1. /\ UNCHANGED <<recorded, handler>> /\ exact \subseteq exact'
        /\ \A t \in ready : gateway'[t] = gateway[t]
    BY <1>5, OutsideStep DEF hooks
  <2>2. id' = id
    BY <1>2, <2>1 DEF EventId, Gate
  <2>3. ASSUME NEW h \in Handlers, OnItsWay(h)'
        PROVE  IdOf(h)' # id
    <3>1. OnItsWay(h)
      BY <2>1, <2>3 DEF OnItsWay
    <3>2. gateway'[For[handler[h].pay]] = gateway[For[handler[h].pay]]
      BY <2>1, <3>1, OnItsWayOpen
    <3>3. IdOf(h)' = IdOf(h)
      BY <2>1, <3>2 DEF IdOf, EventId, Gate
    <3> QED
      BY <1>2, <3>1, <3>3
  <2> QED
    BY <1>2, <2>1, <2>2, <2>3
<1>6. ASSUME NEW h \in Handlers, Step(h) \/ Die(h)
      PROVE  /\ q \in exact' /\ id' = id /\ id \in recorded'
             /\ \A g \in Handlers : OnItsWay(g)' => IdOf(g)' # id
  <2>1. UNCHANGED <<gateway, exact, recorded>>
    BY <1>6, HandlerStep DEF Bystanders, frame
  <2>2. PICK r : Advance(h, r)
    BY <1>6, HandlerStep
  <2>3. \A g \in Handlers : OnItsWay(g)' =>
          OnItsWay(g) /\ handler'[g].word = handler[g].word /\ handler'[g].pay = handler[g].pay
    BY <2>2 DEF Advance, TypeOK, OnItsWay, Upcoming, Idle
  <2>4. \A g \in Handlers : OnItsWay(g)' => IdOf(g)' = IdOf(g)
    BY <2>1, <2>3 DEF IdOf, EventId, Gate
  <2>5. id' = id
    BY <2>1 DEF EventId, Gate
  <2> QED
    BY <1>2, <2>1, <2>3, <2>4, <2>5
<1>7. ASSUME NEW h \in Handlers, NEW p \in Payments, NEW w \in Words, Receive(h, p, w)
      PROVE  /\ q \in exact' /\ id' = id /\ id \in recorded'
             /\ \A g \in Handlers : OnItsWay(g)' => IdOf(g)' # id
  <2>1. UNCHANGED <<gateway, exact>> /\ recorded' = recorded \cup {EventId(p, w)}
    BY <1>7, ReceiveStep DEF frame
  <2>2. id' = id
    BY <2>1 DEF EventId, Gate
  <2>3. CASE handler' = handler
    BY <1>2, <2>1, <2>2, <2>3, SameWay
  <2>4. ASSUME NEW r \in Handler,
               /\ handler' = [handler EXCEPT ![h] = r]
               /\ r.pay = p /\ r.word = w /\ EventId(p, w) \notin recorded
        PROVE  \A g \in Handlers : OnItsWay(g)' => IdOf(g)' # id
    <3>1. /\ handler'[h] = r
          /\ \A g \in Handlers : g # h => handler'[g] = handler[g]
      BY <2>4 DEF TypeOK
    <3>2. /\ IdOf(h)' = EventId(p, w)
          /\ \A g \in Handlers : g # h => IdOf(g)' = IdOf(g)
      BY <2>1, <2>4, <3>1 DEF IdOf, EventId, Gate
    <3>3. \A g \in Handlers : g # h => (OnItsWay(g)' <=> OnItsWay(g))
      BY <3>1 DEF OnItsWay
    <3> QED
      BY <1>2, <2>4, <3>2, <3>3
  <2> QED
    BY <1>2, <1>7, <2>1, <2>2, <2>3, <2>4, ReceiveStep
<1> QED
  BY <1>4, <1>5, <1>6, <1>7, Cases DEF vars, rows

-----------------------------------------------------------------------------
(* A credit consumes the payment its handler has verified.                 *)
LEMMA CreditConsumes ==
  ASSUME TypeOK, Opened, HandledOnce, NEW h \in Handlers, Credit(h),
         NEW s, s = Of(h), NEW q, q = handler[h].pay
  PROVE  Cardinality(Consumed(s)) + 1 <= Cardinality(Consumed(s)')
<1>1. OnItsWay(h) /\ handler[h].at = "credit"
  BY DEF Credit, At, OnItsWay, Upcoming
<1>2. q \in Payments /\ s \in Sessions /\ s = For[q]
  BY <1>1, HandlerFields, OnItsWayOpen DEF Of
<1>3. q \in exact /\ IdOf(h) \in recorded /\ IdOf(h) = EventId(q, "finished")
  BY <1>1 DEF HandledOnce, IdOf
<1>4. q \notin Consumed(s)
  BY <1>1, <1>3 DEF Consumed
<1>5. /\ UNCHANGED <<gateway, exact, recorded>> /\ handler'[h].at = "entry"
      /\ \A g \in Handlers : g # h => handler'[g] = handler[g]
  <2>1. handler[h] \in Handler /\ handler \in [Handlers -> Handler]
    BY DEF TypeOK
  <2>2. handler' = [handler EXCEPT ![h] = [handler[h] EXCEPT !.at = "entry"]]
    BY DEF Credit, Proceed
  <2>3. [handler[h] EXCEPT !.at = "entry"].at = "entry"
    BY <1>1, <2>1, StageChange DEF Stages
  <2> QED
    BY <2>1, <2>2, <2>3 DEF Credit, frame
<1>6. \A g \in Handlers : OnItsWay(g)' => g # h /\ OnItsWay(g) /\ IdOf(g)' = IdOf(g)
  BY <1>5 DEF OnItsWay, Upcoming, IdOf, EventId, Gate
<1>7. EventId(q, "finished")' = EventId(q, "finished")
  BY <1>5 DEF EventId, Gate
<1>8. \A g \in Handlers : OnItsWay(g)' => IdOf(g)' # EventId(q, "finished")
  BY <1>1, <1>3, <1>6 DEF HandledOnce
<1>9. q \in Consumed(s)'
  BY <1>2, <1>3, <1>5, <1>7, <1>8 DEF Consumed, Paid
<1>10. Next
  BY DEF Next, Step
<1>11. Consumed(s) \cup {q} \subseteq Consumed(s)'
  BY <1>2, <1>9, <1>10, ConsumedGrows
<1>12. IsFiniteSet(Consumed(s)')
  <2>1. TypeOK'
    BY <1>10, TypedStep
  <2>2. Consumed(s)' \subseteq Payments
    BY <2>1 DEF Consumed, Paid, TypeOK
  <2> QED
    BY <2>2, FS_Subset, PaymentsAssumption
<1>13. Cardinality(Consumed(s) \cup {q}) = Cardinality(Consumed(s)) + 1
  BY <1>2, <1>4, ConsumedFinite, FS_AddElement
<1>14. Cardinality(Consumed(s) \cup {q}) <= Cardinality(Consumed(s)')
  BY <1>11, <1>12, FS_Subset
<1> QED
  BY <1>13, <1>14

LEMMA ConsumedStep ==
  ASSUME SettlementInv, [Next]_vars
  PROVE  CreditsConsumed'
<1> USE DEF SettlementInv
<1>1. TypeOK'
  BY TypedStep
<1>2. SUFFICES ASSUME NEW s \in Sessions
               PROVE  credits'[s] <= Cardinality(Consumed(s)')
  BY DEF CreditsConsumed
<1>3. /\ Cardinality(Consumed(s)) \in Nat /\ Cardinality(Consumed(s)') \in Nat
      /\ Cardinality(Consumed(s)) <= Cardinality(Consumed(s)')
  <2>1. Consumed(s) \subseteq Consumed(s)'
    BY ConsumedGrows
  <2>2. Consumed(s)' \subseteq Payments
    BY <1>1 DEF Consumed, Paid, TypeOK
  <2>3. IsFiniteSet(Consumed(s)')
    BY <2>2, FS_Subset, PaymentsAssumption
  <2> QED
    BY <2>1, <2>3, FS_Subset, FS_CardinalityType, ConsumedFinite
<1>4. credits[s] <= Cardinality(Consumed(s)) /\ credits \in [Sessions -> Nat]
  BY DEF CreditsConsumed, TypeOK
<1>5. CASE credits'[s] = credits[s]
  BY <1>3, <1>4, <1>5
<1>6. ASSUME NEW h \in Handlers, Step(h) \/ Die(h), credits'[s] # credits[s]
      PROVE  credits'[s] <= Cardinality(Consumed(s)')
  <2>1. /\ handler[h].at = "credit" /\ handler'[h].at = "entry"
        /\ credits' = [credits EXCEPT ![Of(h)] = @ + 1]
    BY <1>6, HandlerStep DEF CreditOnce
  <2>2. credits'[s] = credits[s] + 1 /\ s = Of(h)
    BY <1>4, <1>6, <2>1
  <2>3. Credit(h)
    BY <1>4, <1>6, <2>1, <2>2 DEF Step, Die, At, Fulfil, Refuse, Verify, Claim, Enter, Complete,
       EffectFails, MarkRead, MarkWrite, ledger
  <2>4. Cardinality(Consumed(s)) + 1 <= Cardinality(Consumed(s)')
    BY <2>2, <2>3, CreditConsumes
  <2> QED
    BY <1>3, <1>4, <2>2, <2>4
<1>7. CASE UNCHANGED vars
  BY <1>5, <1>7 DEF vars, ledger
<1>8. CASE Outside
  BY <1>5, <1>8, OutsideStep DEF hooks, ledger
<1>9. CASE \E h \in Handlers, p \in Payments, w \in Words : Receive(h, p, w)
  BY <1>5, <1>9, ReceiveStep DEF ledger
<1> QED
  BY <1>5, <1>6, <1>7, <1>8, <1>9, Cases

LEMMA InitSettlement == Init => SettlementInv
<1> SUFFICES ASSUME Init PROVE SettlementInv
  OBVIOUS
<1>1. TypeOK /\ Opened
  BY InitTyped, InitOpened
<1>2. HandledOnce
  BY DEF Init, HandledOnce, OnItsWay, Upcoming, Idle
<1>3. CreditsConsumed
  <2>1. \A s \in Sessions : credits[s] = 0 /\ Cardinality(Consumed(s)) \in Nat
    BY <1>1, ConsumedFinite DEF Init
  <2> QED
    BY <2>1 DEF CreditsConsumed
<1> QED
  BY <1>1, <1>2, <1>3 DEF SettlementInv

LEMMA SettlementInductive ==
  SettlementInv /\ [Next]_vars => SettlementInv'
  BY TypedStep, HandledStep, ConsumedStep DEF SettlementInv

LEMMA ConsumedArePaid == SettlementInv => CreditsArePaid
<1> SUFFICES ASSUME SettlementInv, NEW s \in Sessions
             PROVE  credits[s] <= Cardinality(Paid(s))
  BY DEF CreditsArePaid
<1>1. TypeOK /\ credits[s] <= Cardinality(Consumed(s)) /\ credits[s] \in Nat
  BY DEF SettlementInv, CreditsConsumed, TypeOK
<1>2. Cardinality(Consumed(s)) <= Cardinality(Paid(s)) /\ Cardinality(Paid(s)) \in Nat
  BY <1>1, ConsumedFinite, FS_CardinalityType
<1> QED
  BY <1>1, <1>2, ConsumedFinite

(* However many webhooks are handled at once, repeated, reordered or cut   *)
(* short, whichever gateways are open and however sessions are marked in   *)
(* between: fulfillCredits adds a session's amount to the wallet at most   *)
(* once per payment made in full.                                          *)
THEOREM CreditsNeverExceedPayments == Spec => []CreditsArePaid
<1>1. Init => SettlementInv
  BY InitSettlement
<1>2. SettlementInv /\ [Next]_vars => SettlementInv'
  BY SettlementInductive
<1>3. SettlementInv => CreditsArePaid
  BY ConsumedArePaid
<1> QED
  BY <1>1, <1>2, <1>3, PTL DEF Spec

-----------------------------------------------------------------------------
(* What a session shows and what was done for it.  The count of handlers   *)
(* between a credit and its transactions row is what the two may differ    *)
(* by, unless an effect failed or a handler died.                          *)
Delivered(s) == credits[s] > 0 /\ entries[s] > 0

InHand ==
  \A h \in Handlers :
    /\ handler[h].at = "entry" => credits[Of(h)] > 0
    /\ handler[h].at = "complete" /\ Funds(Of(h)) => Delivered(Of(h))

Entering(s) == {h \in Handlers : handler[h].at = "entry" /\ Of(h) = s}

GapsCounted ==
  \A s \in Sessions :
    \/ s \in reviewed \cup lost
    \/ credits[s] <= entries[s] + Cardinality(Entering(s))

DeliveryInv == TypeOK /\ Opened /\ CompletedIsDelivered /\ InHand /\ GapsCounted

LEMMA EnteringFinite ==
  ASSUME NEW s \in Sessions
  PROVE  IsFiniteSet(Entering(s)) /\ Cardinality(Entering(s)) \in Nat
<1>1. Entering(s) \subseteq Handlers
  BY DEF Entering
<1> QED
  BY <1>1, FS_Subset, FS_CardinalityType, PaymentsAssumption

(* A step of one handler that writes nothing to the ledger.                *)
LEMMA QuietStep ==
  ASSUME DeliveryInv, NEW h \in Handlers,
         \A g \in Handlers : g # h => handler'[g] = handler[g],
         handler'[h].at # "entry",
         handler'[h].at = "complete" =>
           handler'[h].pay = handler[h].pay /\ ~Funds(Of(h)),
         handler[h].at = "entry" => Of(h) \in reviewed' \cup lost',
         UNCHANGED <<gateway, credits, entries>>,
         reviewed \subseteq reviewed', lost \subseteq lost',
         \A s \in Sessions : status'[s] = "completed" =>
           status[s] = "completed" \/ ~Funds(s) \/ Delivered(s)
  PROVE  CompletedIsDelivered' /\ InHand' /\ GapsCounted'
<1>1. \A s : Funds(s)' <=> Funds(s)
  BY DEF Funds
<1>2. CompletedIsDelivered'
  BY <1>1 DEF DeliveryInv, CompletedIsDelivered, Delivered
<1>3. InHand'
  <2>1. ASSUME NEW g \in Handlers
        PROVE  /\ handler'[g].at = "entry" => credits[For[handler'[g].pay]] > 0
               /\ handler'[g].at = "complete" /\ Funds(For[handler'[g].pay]) =>
                    Delivered(For[handler'[g].pay])
    <3>1. CASE g = h
      BY <3>1 DEF Of
    <3>2. CASE g # h
      BY <3>2 DEF DeliveryInv, InHand, Of
    <3> QED
      BY <3>1, <3>2
  <2> QED
    BY <1>1, <2>1 DEF InHand, Of, Delivered
<1>4. ASSUME NEW s \in Sessions, s \notin reviewed' \cup lost'
      PROVE  credits'[s] <= entries'[s] + Cardinality(Entering(s)')
  <2>1. \A g \in Handlers : handler'[g].at = "entry" /\ Of(g)' = s
                              <=> handler[g].at = "entry" /\ Of(g) = s
    <3>1. ASSUME NEW g \in Handlers
          PROVE  handler'[g].at = "entry" /\ Of(g)' = s <=> handler[g].at = "entry" /\ Of(g) = s
      <4>1. CASE g = h
        BY <1>4, <4>1
      <4>2. CASE g # h
        BY <4>2 DEF Of
      <4> QED
        BY <4>1, <4>2
    <3> QED
      BY <3>1
  <2>2. Entering(s)' = Entering(s)
    BY <2>1 DEF Entering
  <2>3. credits[s] <= entries[s] + Cardinality(Entering(s))
    BY <1>4 DEF DeliveryInv, GapsCounted
  <2> QED
    BY <2>2, <2>3
<1> QED
  BY <1>2, <1>3, <1>4 DEF GapsCounted

(* creditWallet commits: one more handler is before the transactions row.  *)
LEMMA CreditDelivers ==
  ASSUME DeliveryInv, NEW h \in Handlers, Credit(h)
  PROVE  CompletedIsDelivered' /\ InHand' /\ GapsCounted'
<1>1. /\ handler[h].at = "credit" /\ UNCHANGED <<status, gateway, entries, reviewed, lost>>
      /\ credits' = [credits EXCEPT ![Of(h)] = @ + 1]
  BY DEF Credit, At, frame, history
<1>2. handler[h] \in Handler /\ handler \in [Handlers -> Handler]
  BY DEF DeliveryInv, TypeOK
<1>3. Of(h) \in Sessions
  <2>1. handler[h] # Idle
    BY <1>1 DEF Idle
  <2> QED
    BY <2>1, HandlerFields DEF DeliveryInv
<1>4. /\ handler'[h].at = "entry" /\ Of(h)' = Of(h)
      /\ \A g \in Handlers : g # h => handler'[g] = handler[g] /\ Of(g)' = Of(g)
  <2>1. handler' = [handler EXCEPT ![h] = [handler[h] EXCEPT !.at = "entry"]]
    BY DEF Credit, Proceed
  <2>2. /\ [handler[h] EXCEPT !.at = "entry"].at = "entry"
        /\ [handler[h] EXCEPT !.at = "entry"].pay = handler[h].pay
    BY <1>1, <1>2, StageChange DEF Stages
  <2> QED
    BY <1>2, <2>1, <2>2 DEF Of
<1>5. /\ credits \in [Sessions -> Nat] /\ entries \in [Sessions -> Nat]
      /\ credits' \in [Sessions -> Nat]
      /\ \A s \in Sessions : credits'[s] = IF s = Of(h) THEN credits[s] + 1 ELSE credits[s]
  BY <1>1, <1>3 DEF DeliveryInv, TypeOK
<1>6. \A s : Funds(s)' <=> Funds(s)
  BY <1>1 DEF Funds
<1>7. \A g \in Handlers : handler[g].at \in {"entry", "complete"} => Of(g) \in Sessions
  BY HandlerFields DEF DeliveryInv, Idle
<1>8. CompletedIsDelivered'
  BY <1>1, <1>5, <1>6 DEF DeliveryInv, CompletedIsDelivered
<1>9. InHand'
  <2>1. ASSUME NEW g \in Handlers
        PROVE  /\ handler'[g].at = "entry" => credits'[Of(g)'] > 0
               /\ handler'[g].at = "complete" /\ Funds(Of(g)') => credits'[Of(g)'] > 0 /\ entries[Of(g)'] > 0
    <3>1. CASE g = h
      BY <1>3, <1>4, <1>5, <3>1
    <3>2. CASE g # h
      <4>1. /\ handler[g].at = "entry" => credits[Of(g)] > 0
            /\ handler[g].at = "complete" /\ Funds(Of(g)) => credits[Of(g)] > 0 /\ entries[Of(g)] > 0
        BY DEF DeliveryInv, InHand, Delivered
      <4> QED
        BY <1>4, <1>5, <1>7, <3>2, <4>1
    <3> QED
      BY <3>1, <3>2
  <2>2. \A g \in Handlers : Funds(Of(g))' <=> Funds(Of(g)')
    BY <1>1 DEF Funds
  <2> QED
    BY <1>1, <2>1, <2>2 DEF InHand, Delivered
<1>10. ASSUME NEW s \in Sessions, s \notin reviewed \cup lost
       PROVE  credits'[s] <= entries[s] + Cardinality(Entering(s)')
  <2>1. credits[s] <= entries[s] + Cardinality(Entering(s))
    BY <1>10 DEF DeliveryInv, GapsCounted
  <2>2. CASE s = Of(h)
    <3>1. Entering(s)' = Entering(s) \cup {h} /\ h \notin Entering(s)
      BY <1>1, <1>4, <2>2 DEF Entering
    <3>2. Cardinality(Entering(s)') = Cardinality(Entering(s)) + 1
      BY <3>1, EnteringFinite, FS_AddElement
    <3> QED
      BY <1>5, <2>1, <2>2, <3>2, EnteringFinite
  <2>3. CASE s # Of(h)
    <3>1. Entering(s)' = Entering(s)
      BY <1>1, <1>4, <2>3 DEF Entering
    <3> QED
      BY <1>5, <2>1, <2>3, <3>1
  <2> QED
    BY <2>2, <2>3
<1> QED
  BY <1>1, <1>8, <1>9, <1>10 DEF GapsCounted

(* The transactions row is written: the gap closes by one.                 *)
LEMMA EnterDelivers ==
  ASSUME DeliveryInv, NEW h \in Handlers, Enter(h)
  PROVE  CompletedIsDelivered' /\ InHand' /\ GapsCounted'
<1>1. /\ handler[h].at = "entry" /\ UNCHANGED <<status, gateway, credits, reviewed, lost>>
      /\ entries' = [entries EXCEPT ![Of(h)] = @ + 1]
  BY DEF Enter, At, frame, history
<1>2. handler[h] \in Handler /\ handler \in [Handlers -> Handler]
  BY DEF DeliveryInv, TypeOK
<1>3. Of(h) \in Sessions
  <2>1. handler[h] # Idle
    BY <1>1 DEF Idle
  <2> QED
    BY <2>1, HandlerFields DEF DeliveryInv
<1>4. /\ handler'[h].at = "complete" /\ Of(h)' = Of(h)
      /\ \A g \in Handlers : g # h => handler'[g] = handler[g] /\ Of(g)' = Of(g)
  <2>1. handler' = [handler EXCEPT ![h] = [handler[h] EXCEPT !.at = "complete"]]
    BY DEF Enter, Proceed
  <2>2. /\ [handler[h] EXCEPT !.at = "complete"].at = "complete"
        /\ [handler[h] EXCEPT !.at = "complete"].pay = handler[h].pay
    BY <1>1, <1>2, StageChange DEF Stages
  <2> QED
    BY <1>2, <2>1, <2>2 DEF Of
<1>5. /\ credits \in [Sessions -> Nat] /\ entries \in [Sessions -> Nat]
      /\ \A s \in Sessions : entries'[s] = IF s = Of(h) THEN entries[s] + 1 ELSE entries[s]
  BY <1>1, <1>3 DEF DeliveryInv, TypeOK
<1>6. \A s : Funds(s)' <=> Funds(s)
  BY <1>1 DEF Funds
<1>7. \A g \in Handlers : handler[g].at \in {"entry", "complete"} => Of(g) \in Sessions
  BY HandlerFields DEF DeliveryInv, Idle
<1>8. CompletedIsDelivered'
  BY <1>1, <1>5, <1>6 DEF DeliveryInv, CompletedIsDelivered
<1>9. InHand'
  <2>1. ASSUME NEW g \in Handlers
        PROVE  /\ handler'[g].at = "entry" => credits[Of(g)'] > 0
               /\ handler'[g].at = "complete" /\ Funds(Of(g)') => credits[Of(g)'] > 0 /\ entries'[Of(g)'] > 0
    <3>1. /\ handler[g].at = "entry" => credits[Of(g)] > 0
          /\ handler[g].at = "complete" /\ Funds(Of(g)) => credits[Of(g)] > 0 /\ entries[Of(g)] > 0
      BY DEF DeliveryInv, InHand, Delivered
    <3>2. CASE g = h
      BY <1>1, <1>3, <1>4, <1>5, <3>1, <3>2
    <3>3. CASE g # h
      BY <1>4, <1>5, <1>7, <3>1, <3>3
    <3> QED
      BY <3>2, <3>3
  <2>2. \A g \in Handlers : Funds(Of(g))' <=> Funds(Of(g)')
    BY <1>1 DEF Funds
  <2> QED
    BY <1>1, <2>1, <2>2 DEF InHand, Delivered
<1>10. ASSUME NEW s \in Sessions, s \notin reviewed \cup lost
       PROVE  credits[s] <= entries'[s] + Cardinality(Entering(s)')
  <2>1. credits[s] <= entries[s] + Cardinality(Entering(s))
    BY <1>10 DEF DeliveryInv, GapsCounted
  <2>2. CASE s = Of(h)
    <3>1. Entering(s)' = Entering(s) \ {h} /\ h \in Entering(s)
      BY <1>1, <1>4, <2>2 DEF Entering
    <3>2. Cardinality(Entering(s)') = Cardinality(Entering(s)) - 1
      BY <3>1, EnteringFinite, FS_RemoveElement
    <3> QED
      BY <1>5, <2>1, <2>2, <3>2, EnteringFinite
  <2>3. CASE s # Of(h)
    <3>1. Entering(s)' = Entering(s)
      BY <1>1, <1>4, <2>3 DEF Entering
    <3> QED
      BY <1>5, <2>1, <2>3, <3>1
  <2> QED
    BY <2>2, <2>3
<1> QED
  BY <1>1, <1>8, <1>9, <1>10 DEF GapsCounted

(* Every step of a handler.                                                *)
LEMMA HandlerDelivers ==
  ASSUME DeliveryInv, NEW h \in Handlers, Step(h) \/ Die(h)
  PROVE  CompletedIsDelivered' /\ InHand' /\ GapsCounted'
<1>1. /\ handler \in [Handlers -> Handler] /\ handler[h] \in Handler
      /\ status \in [Sessions -> Statuses]
      /\ TypeOK /\ Opened
  BY DEF DeliveryInv, TypeOK
<1>2. ASSUME NEW r, Goto(h, r)
      PROVE  /\ handler'[h] = r
             /\ \A g \in Handlers : g # h => handler'[g] = handler[g]
  BY <1>1, <1>2 DEF Goto
<1>3. ASSUME NEW step \in Stages, handler[h].at \in Stages, Proceed(h, step)
      PROVE  /\ handler'[h].at = step /\ handler'[h].pay = handler[h].pay
             /\ \A g \in Handlers : g # h => handler'[g] = handler[g]
  BY <1>1, <1>3, StageChange DEF Proceed
<1>4. ASSUME NEW v, v # "completed", SetStatus(Of(h), v)
      PROVE  \A s \in Sessions : status'[s] = "completed" => status[s] = "completed"
  BY <1>1, <1>4 DEF SetStatus
<1>5. Idle.at = "idle"
  BY DEF Idle
<1>6. CASE Fulfil(h)
  <2>1. handler[h].at = "fulfil" /\ UNCHANGED <<gateway, status, credits, entries, reviewed, lost>>
    BY <1>6 DEF Fulfil, At, frame, ledger, history
  <2>2. /\ \A g \in Handlers : g # h => handler'[g] = handler[g]
        /\ handler'[h].at \in {"idle", "verify"}
    BY <1>2, <1>3, <1>5, <1>6, <2>1 DEF Fulfil, Finish, Stages
  <2> QED
    BY <2>1, <2>2, QuietStep
<1>7. CASE \E flag \in {"verification_failed", "reconciliation_failed"} : Refuse(h, flag)
  <2>1. handler[h].at = "verify" /\ UNCHANGED <<gateway, credits, entries, reviewed, lost>>
    BY <1>7 DEF Refuse, At, frame, ledger, history
  <2>2. /\ \A g \in Handlers : g # h => handler'[g] = handler[g]
        /\ handler'[h].at = "idle"
    BY <1>2, <1>5, <1>7 DEF Refuse, Finish
  <2>3. \A s \in Sessions : status'[s] = "completed" => status[s] = "completed"
    BY <1>4, <1>7 DEF Refuse
  <2> QED
    BY <2>1, <2>2, <2>3, QuietStep
<1>8. CASE Verify(h)
  <2>1. handler[h].at = "verify" /\ UNCHANGED <<gateway, status, credits, entries, reviewed, lost>>
    BY <1>8 DEF Verify, At, frame, ledger, history
  <2>2. /\ \A g \in Handlers : g # h => handler'[g] = handler[g]
        /\ handler'[h].at = "claim"
    BY <1>3, <1>8, <2>1 DEF Verify, Stages
  <2> QED
    BY <2>1, <2>2, QuietStep
<1>9. CASE Claim(h)
  <2>1. handler[h].at = "claim" /\ UNCHANGED <<gateway, credits, entries, reviewed, lost>>
    BY <1>9 DEF Claim, At, frame, ledger, history
  <2>2. CASE Finish(h) /\ UNCHANGED status
    <3>1. /\ \A g \in Handlers : g # h => handler'[g] = handler[g]
          /\ handler'[h].at = "idle"
      BY <1>2, <1>5, <2>2 DEF Finish
    <3> QED
      BY <2>1, <2>2, <3>1, QuietStep
  <2>3. CASE /\ SetStatus(Of(h), "processing")
             /\ Proceed(h, IF Funds(Of(h)) THEN "credit" ELSE "complete")
    <3>1. /\ \A g \in Handlers : g # h => handler'[g] = handler[g]
          /\ handler'[h].at = IF Funds(Of(h)) THEN "credit" ELSE "complete"
          /\ handler'[h].pay = handler[h].pay
      BY <1>3, <2>1, <2>3 DEF Stages
    <3>2. \A s \in Sessions : status'[s] = "completed" => status[s] = "completed"
      BY <1>4, <2>3
    <3> QED
      BY <2>1, <3>1, <3>2, QuietStep
  <2> QED
    BY <1>9, <2>2, <2>3 DEF Claim
<1>10. CASE Credit(h)
  BY <1>10, CreditDelivers
<1>11. CASE Enter(h)
  BY <1>11, EnterDelivers
<1>12. CASE Complete(h)
  <2>1. handler[h].at = "complete" /\ UNCHANGED <<gateway, credits, entries, reviewed, lost>>
    BY <1>12 DEF Complete, At, frame, ledger, history
  <2>2. /\ \A g \in Handlers : g # h => handler'[g] = handler[g]
        /\ handler'[h].at = "idle"
    BY <1>2, <1>5, <1>12 DEF Complete, Finish
  <2>3. ASSUME NEW s \in Sessions, status'[s] = "completed"
        PROVE  status[s] = "completed" \/ ~Funds(s) \/ Delivered(s)
    <3>1. CASE s = Of(h)
      BY <2>1, <3>1 DEF DeliveryInv, InHand
    <3>2. CASE s # Of(h)
      BY <1>1, <1>12, <2>3, <3>2 DEF Complete, SetStatus
    <3> QED
      BY <3>1, <3>2
  <2> QED
    BY <2>1, <2>2, <2>3, QuietStep
<1>13. CASE EffectFails(h)
  <2>1. /\ UNCHANGED <<gateway, credits, entries, lost>>
        /\ reviewed' = reviewed \cup {Of(h)}
    BY <1>13 DEF EffectFails, frame, ledger
  <2>2. /\ \A g \in Handlers : g # h => handler'[g] = handler[g]
        /\ handler'[h].at = "idle"
    BY <1>2, <1>5, <1>13 DEF EffectFails, Finish
  <2>3. \A s \in Sessions : status'[s] = "completed" => status[s] = "completed"
    BY <1>4, <1>13 DEF EffectFails
  <2> QED
    BY <2>1, <2>2, <2>3, QuietStep
<1>14. CASE MarkRead(h)
  <2>1. handler[h].at = "mark" /\ UNCHANGED <<gateway, status, credits, entries, reviewed, lost>>
    BY <1>14 DEF MarkRead, At, frame, ledger, history
  <2>2. PICK r : Goto(h, r) /\ r.at \in {"idle", "write"}
    <3>1. CASE Finish(h)
      BY <1>5, <3>1 DEF Finish
    <3>2. CASE Goto(h, [at |-> "write", pay |-> handler[h].pay, word |-> handler[h].word,
                        seen |-> status[Of(h)]])
      BY <3>2
    <3> QED
      BY <1>14, <3>1, <3>2 DEF MarkRead
  <2>3. /\ \A g \in Handlers : g # h => handler'[g] = handler[g]
        /\ handler'[h].at \in {"idle", "write"}
    BY <1>2, <2>2
  <2> QED
    BY <2>1, <2>3, QuietStep
<1>15. CASE MarkWrite(h)
  <2>1. handler[h].at = "write" /\ UNCHANGED <<gateway, credits, entries, reviewed, lost>>
    BY <1>15 DEF MarkWrite, At, frame, ledger, history
  <2>2. handler[h].seen # "completed"
    BY <1>1, <2>1, <1>5, HandlerFields
  <2>3. /\ \A g \in Handlers : g # h => handler'[g] = handler[g]
        /\ handler'[h].at = "idle"
    BY <1>2, <1>5, <1>15 DEF MarkWrite, Finish
  <2>4. \A s \in Sessions : status'[s] = "completed" => status[s] = "completed"
    BY <1>4, <1>15, <2>2 DEF MarkWrite
  <2> QED
    BY <2>1, <2>3, <2>4, QuietStep
<1>16. CASE Die(h)
  <2>1. /\ UNCHANGED <<gateway, status, credits, entries, reviewed>>
        /\ lost' = lost \cup {Of(h)}
    BY <1>16 DEF Die, frame, ledger
  <2>2. /\ \A g \in Handlers : g # h => handler'[g] = handler[g]
        /\ handler'[h].at = "idle"
    BY <1>2, <1>5, <1>16 DEF Die
  <2> QED
    BY <2>1, <2>2, QuietStep
<1> QED
  BY <1>6, <1>7, <1>8, <1>9, <1>10, <1>11, <1>12, <1>13, <1>14, <1>15, <1>16 DEF Step

(* Checkouts and gateways complete no session and touch no handler.        *)
LEMMA OutsideDelivers ==
  ASSUME DeliveryInv, Outside
  PROVE  CompletedIsDelivered' /\ InHand' /\ GapsCounted'
<1>1. /\ UNCHANGED <<handler, credits, entries, reviewed, lost>>
      /\ \A s \in ready : gateway'[s] = gateway[s]
  BY OutsideStep DEF DeliveryInv, hooks, ledger, history
<1>2. \A s \in Sessions : status'[s] = "completed" =>
        status[s] = "completed" /\ gateway'[s] = gateway[s]
  BY DEF Outside, Initialize, CheckoutReady, CheckoutFails, Report, SetStatus, rows,
         DeliveryInv, TypeOK
<1>3. CompletedIsDelivered'
  BY <1>1, <1>2 DEF DeliveryInv, CompletedIsDelivered, Funds
<1>4. InHand'
  <2>1. \A h \in Handlers : handler[h].at = "complete" => Of(h) \in ready
    BY HandlerFields DEF DeliveryInv, Opened, Idle, Of
  <2>2. \A h \in Handlers : Of(h)' = Of(h)
    BY <1>1 DEF Of
  <2>3. \A h \in Handlers : handler[h].at = "complete" => (Funds(Of(h))' <=> Funds(Of(h)))
    BY <1>1, <2>1, <2>2 DEF Funds
  <2> QED
    BY <1>1, <2>2, <2>3 DEF DeliveryInv, InHand, Delivered
<1>5. GapsCounted'
  BY <1>1 DEF DeliveryInv, GapsCounted, Entering, Of
<1> QED
  BY <1>3, <1>4, <1>5

LEMMA DeliveryInductive ==
  DeliveryInv /\ [Next]_vars => DeliveryInv'
<1> SUFFICES ASSUME DeliveryInv, [Next]_vars
             PROVE  DeliveryInv'
  OBVIOUS
<1>1. TypeOK' /\ Opened'
  BY TypedStep DEF DeliveryInv
<1>2. CASE UNCHANGED vars
  BY <1>1, <1>2 DEF DeliveryInv, CompletedIsDelivered, InHand, GapsCounted, Entering,
                    Delivered, Funds, Of, vars, rows, ledger, history
<1>3. CASE Outside
  BY <1>1, <1>3, OutsideDelivers DEF DeliveryInv
<1>4. CASE \E h \in Handlers : Step(h) \/ Die(h)
  BY <1>1, <1>4, HandlerDelivers DEF DeliveryInv
<1>5. ASSUME NEW h \in Handlers, NEW p \in Payments, NEW w \in Words, Receive(h, p, w)
      PROVE  CompletedIsDelivered' /\ InHand' /\ GapsCounted'
  <2>1. handler[h].at = "idle"
    BY <1>5 DEF Receive, At
  <2>2. UNCHANGED <<gateway, status, credits, entries, reviewed, lost>>
    BY <1>5, ReceiveStep DEF DeliveryInv, frame, ledger, history
  <2>3. handler \in [Handlers -> Handler]
    BY DEF DeliveryInv, TypeOK
  <2>4. /\ \A g \in Handlers : g # h => handler'[g] = handler[g]
        /\ handler'[h].at \in {"idle", "fulfil", "mark"}
    BY <1>5, <2>1, <2>3, ReceiveStep DEF DeliveryInv
  <2> QED
    BY <2>1, <2>2, <2>4, QuietStep
<1> QED
  BY <1>1, <1>2, <1>3, <1>4, <1>5, Cases DEF DeliveryInv

LEMMA InitDelivery == Init => DeliveryInv
<1> SUFFICES ASSUME Init PROVE DeliveryInv
  OBVIOUS
<1>1. TypeOK /\ Opened
  BY InitTyped, InitOpened
<1>2. CompletedIsDelivered /\ InHand
  BY DEF Init, CompletedIsDelivered, InHand, Idle
<1>3. GapsCounted
  <2>1. \A s \in Sessions : credits[s] = 0 /\ entries[s] = 0 /\ Cardinality(Entering(s)) \in Nat
    BY EnteringFinite DEF Init
  <2> QED
    BY <2>1 DEF GapsCounted
<1> QED
  BY <1>1, <1>2, <1>3 DEF DeliveryInv

(* With any number of webhooks handled at once: a session that             *)
(* fulfillPayment shows as completed was credited and has its transactions *)
(* row, although "processing" sessions can become pending again.           *)
THEOREM CompletedSessionsAreDelivered == Spec => []CompletedIsDelivered
<1>1. DeliveryInv => CompletedIsDelivered
  BY DEF DeliveryInv
<1> QED
  BY <1>1, InitDelivery, DeliveryInductive, PTL DEF Spec

(* A gap between a wallet and its ledger is never silent: some handler is  *)
(* still before the row, or one died, or the session went to an operator.  *)
THEOREM GapsAreReviewed == Spec => []GapIsReviewed
<1>1. DeliveryInv => GapIsReviewed
  <2> SUFFICES ASSUME DeliveryInv, NEW s \in Sessions, credits[s] > entries[s],
                      s \notin reviewed \cup lost
               PROVE  Busy(s) # {}
    BY DEF GapIsReviewed
  <2>1. /\ credits[s] <= entries[s] + Cardinality(Entering(s))
        /\ credits[s] \in Nat /\ entries[s] \in Nat
    BY DEF DeliveryInv, GapsCounted, TypeOK
  <2>2. Cardinality(Entering(s)) # 0
    BY <2>1
  <2>3. Entering(s) # {}
    BY <2>2, FS_EmptySet
  <2> QED
    BY <2>3 DEF Entering, Busy, Of, Idle
<1> QED
  BY <1>1, InitDelivery, DeliveryInductive, PTL DEF Spec
=============================================================================
