---------------------------- MODULE OrderProofs ----------------------------
(***************************************************************************)
(* Proofs about ConnectivityOrders: no order row gets a status its table   *)
(* refuses, money is taken for accepted orders only, an order answered as  *)
(* accepted is charged, and an order shown as refunded was paid back.      *)
(*                                                                         *)
(* All four rest on what it takes to be at a step: a request that stores   *)
(* an acceptance has one, a request that has passed the spend finds one    *)
(* under its key, a webhook about to show a refund finds it recorded.      *)
(***************************************************************************)
EXTENDS OrderTurns, TLAPS

AllStatuses ==
  {"none", "pending", "processing", "provisioning", "active", "completed", "failed",
   "cancelled", "expired", "refunded", "suspended", "disconnected", "revoked"}
OrderRow == [status : AllStatuses, linked : Providers \cup {"none"},
             reason : {"none", "error", "nobody accepted"}]
OrderReq == [at : Steps, try : Nat, answer : {"none", "accepted", "failed"}]
OrderEvent == {NoHandler} \cup
  [at : {"update", "refund", "credit", "mark"}, order : Orders, word : Words,
   id : Idents \cup {NoIdent}, read : AllStatuses]

WalletTyped ==
  /\ free \in [Users -> Nat] /\ open \subseteq Keys
  /\ holder \in [Keys -> Users \cup {Nobody}] /\ size \in [Keys -> Nat]

RowsTyped ==
  /\ row \in [Orders -> OrderRow]
  /\ \A o \in Orders : row[o].status \in Statuses(o) \cup {"none"}

ReqsTyped ==
  /\ req \in [Orders -> OrderReq]
  /\ \A o \in Orders : req[o].try \in 1..Len(Chain(o))

EventsTyped ==
  /\ handler \in [Handlers -> OrderEvent]
  /\ \A h \in Handlers : handler[h].at \in {"refund", "credit", "mark"} => Paid(handler[h].order)
  /\ seen \subseteq Orders \X Words \X Idents
  /\ refunds \in [Orders -> Nat]

LedgersTyped ==
  /\ spentBy \in [Keys -> SUBSET Orders]
  /\ accepted \in [Orders -> SUBSET Providers]

Typed == WalletTyped /\ RowsTyped /\ ReqsTyped /\ EventsTyped /\ LedgersTyped

(* A request at a step has behind it what the step takes.                  *)
RequestsBacked ==
  \A o \in Orders :
    /\ req[o].at \in {"persist", "spend", "stamp"} => accepted[o] # {}
    /\ req[o].at \in {"spend", "stamp"} => Paid(o)
    /\ req[o].at = "stamp" => spentBy[Key[o]] # {}
    /\ Paid(o) /\ req[o].answer = "accepted" => spentBy[Key[o]] # {}

(* A spend was recorded by an order of the key that was accepted.          *)
SpendsBacked ==
  \A k \in Keys : \A o \in spentBy[k] : accepted[o] # {} /\ Key[o] = k /\ Paid(o)

RefundsBacked ==
  /\ \A h \in Handlers : handler[h].at = "mark" => refunds[handler[h].order] > 0
  /\ RefundedIsPaidBack

OrdersInv == Typed /\ RequestsBacked /\ SpendsBacked /\ RefundsBacked

-----------------------------------------------------------------------------
LEMMA ChainTyped ==
  ASSUME NEW o \in Orders
  PROVE  /\ Len(Chain(o)) \in Nat /\ Len(Chain(o)) >= 1
         /\ \A i \in 1..Len(Chain(o)) : Chain(o)[i] \in Providers
<1>1. CASE o \in Esims
  BY <1>1 DEF Chain, Providers
<1>2. CASE o \in Proxies
  <2>1. o \notin Esims /\ o \notin Vpns
    BY <1>2, OrdersAssumption
  <2>2. Chain(o) = <<"oxylabs", "smartproxy">>
    BY <1>2, <2>1 DEF Chain
  <2> QED
    BY <2>2 DEF Providers
<1>3. CASE o \in Vpns
  <2>1. o \notin Esims /\ o \notin Proxies
    BY <1>3, OrdersAssumption
  <2>2. Chain(o) = <<"wireguard">>
    BY <1>3, <2>1 DEF Chain
  <2> QED
    BY <2>2 DEF Providers
<1> QED
  BY <1>1, <1>2, <1>3 DEF Orders

LEMMA OrderKinds ==
  ASSUME NEW o \in Orders
  PROVE  /\ Key[o] \in Keys /\ Owner[o] \in Users
         /\ {"pending", "provisioning", "failed"} \subseteq Statuses(o)
         /\ Statuses(o) \subseteq AllStatuses \ {"none"}
         /\ Paid(o) => "refunded" \in Statuses(o)
         /\ Paid(o) <=> o \in Esims \cup Proxies
<1>1. Key[o] \in Keys /\ Owner[o] \in Users
  BY OrdersAssumption
<1>2. CASE o \in Esims
  BY <1>1, <1>2, OrdersAssumption DEF Statuses, Paid, AllStatuses
<1>3. CASE o \in Proxies
  <2>1. o \notin Esims
    BY <1>3, OrdersAssumption
  <2> QED
    BY <1>1, <1>3, <2>1, OrdersAssumption DEF Statuses, Paid, AllStatuses
<1>4. CASE o \in Vpns
  <2>1. o \notin Esims /\ o \notin Proxies
    BY <1>4, OrdersAssumption
  <2> QED
    BY <1>1, <1>4, <2>1 DEF Statuses, Paid, AllStatuses
<1> QED
  BY <1>2, <1>3, <1>4 DEF Orders

(* What the wallet does to an order's key and owner.                       *)
LEMMA EarnTyped ==
  ASSUME WalletTyped, NEW u \in Users, NEW a \in Nat, Wallet!Earn(u, a)
  PROVE  WalletTyped'
  BY DEF WalletTyped, Wallet!Earn

LEMMA OpenTyped ==
  ASSUME WalletTyped, NEW o \in Orders, Wallet!Open(Owner[o], Key[o], Charge)
  PROVE  WalletTyped'
  BY OrderKinds, OrdersAssumption DEF WalletTyped, Wallet!Open

LEMMA CloseTyped ==
  ASSUME WalletTyped, NEW k \in Keys, NEW back \in Nat, Wallet!Close(k, back)
  PROVE  WalletTyped'
<1>1. free' = [free EXCEPT ![holder[k]] = @ + back] /\ free \in [Users -> Nat]
  BY DEF WalletTyped, Wallet!Close
<1>2. CASE holder[k] \in Users
  <2>1. free[holder[k]] + back \in Nat
    BY <1>1, <1>2
  <2> QED
    BY <1>1, <2>1 DEF WalletTyped, Wallet!Close
<1>3. CASE holder[k] \notin Users
  BY <1>1, <1>3 DEF WalletTyped, Wallet!Close
<1> QED
  BY <1>2, <1>3

-----------------------------------------------------------------------------
(* What a step of an order's request does to the request ...               *)
Moved(o) == ReqsTyped' /\ \A p \in Orders : p # o => req'[p] = req[p]

LEMMA GotoMoves ==
  ASSUME ReqsTyped, NEW o \in Orders, NEW step \in Steps, Goto(o, step)
  PROVE  Moved(o) /\ req'[o].at = step /\ req'[o].answer = req[o].answer
  BY DEF ReqsTyped, Goto, Moved, OrderReq

LEMMA AnswerMoves ==
  ASSUME ReqsTyped, NEW o \in Orders, NEW a \in {"accepted", "failed"},
         req' = [req EXCEPT ![o].at = "done", ![o].answer = a]
  PROVE  Moved(o) /\ req'[o].at = "done" /\ req'[o].answer = a
  BY DEF ReqsTyped, Moved, OrderReq, Steps

LEMMA FallbackMoves ==
  ASSUME ReqsTyped, NEW o \in Orders, Fallback(o)
  PROVE  Moved(o) /\ req'[o].at \in {"lock", "giveup"} /\ req'[o].answer = req[o].answer
<1>1. CASE /\ req[o].try < Len(Chain(o))
           /\ req' = [req EXCEPT ![o].try = @ + 1, ![o].at = "lock"]
  <2>1. req[o].try + 1 \in 1..Len(Chain(o))
    BY <1>1, ChainTyped DEF ReqsTyped
  <2> DEFINE n == req[o].try + 1
             r == [req[o] EXCEPT !.try = n, !.at = "lock"]
  <2>2. req[o] \in OrderReq /\ n \in Nat
    BY DEF ReqsTyped, OrderReq
  <2>3. /\ r \in OrderReq /\ r.at = "lock" /\ r.answer = req[o].answer
        /\ r.try = n
    <3> HIDE DEF n
    <3> QED
      BY <2>2 DEF OrderReq, Steps
  <2>4. req' = [req EXCEPT ![o] = r]
    BY <1>1
  <2> HIDE DEF r
  <2> QED
    BY <2>1, <2>3, <2>4 DEF ReqsTyped, Moved
<1>2. CASE Goto(o, "giveup")
  BY <1>2, GotoMoves DEF Steps
<1> QED
  BY <1>1, <1>2 DEF Fallback, Goto

(* ... to the rows, the wallet and the ledgers.                            *)
RowsKept ==
  /\ RowsTyped'
  /\ \A p \in Orders : row'[p].status = "refunded" => row[p].status = "refunded"

LEMMA RowSame ==
  ASSUME RowsTyped, UNCHANGED row
  PROVE  RowsKept
  BY DEF RowsTyped, RowsKept

LEMMA RowSet ==
  ASSUME RowsTyped, NEW o \in Orders, NEW r \in OrderRow,
         r.status \in {"pending", "provisioning", "failed"},
         row' = [row EXCEPT ![o] = r]
  PROVE  RowsKept
<1>1. r.status \in Statuses(o)
  BY OrderKinds
<1> QED
  BY <1>1 DEF RowsTyped, RowsKept

PurchaseEffect(o) ==
  /\ Moved(o) /\ RowsKept /\ WalletTyped' /\ LedgersTyped' /\ UNCHANGED hooks
  /\ \A p \in Orders : accepted[p] \subseteq accepted'[p]
  /\ \/ spentBy' = spentBy
     \/ req[o].at = "spend" /\ spentBy' = [spentBy EXCEPT ![Key[o]] = {o}]
  /\ req'[o].at = "persist" => accepted'[o] # {}
  /\ req'[o].at = "spend" => req[o].at = "persist" /\ Paid(o)
  /\ req'[o].at = "stamp" => req[o].at = "spend" /\ spentBy'[Key[o]] # {}
  /\ req'[o].answer = "accepted" =>
       req[o].answer = "accepted" \/ req[o].at = "stamp" \/ ~Paid(o)

(* A step that moves the request on and touches neither spend nor row.     *)
LEMMA PlainMove ==
  ASSUME Typed, NEW o \in Orders, Moved(o), WalletTyped',
         req'[o].at \notin {"persist", "spend", "stamp"},
         req'[o].answer = req[o].answer,
         UNCHANGED <<spentBy, row, hooks>>,
         accepted' \in [Orders -> SUBSET Providers],
         \A p \in Orders : accepted[p] \subseteq accepted'[p]
  PROVE  PurchaseEffect(o)
  BY RowSame DEF Typed, LedgersTyped, PurchaseEffect

LEMMA PurchaseStep ==
  ASSUME Typed, NEW o \in Orders, Purchase(o)
  PROVE  PurchaseEffect(o)
<1> USE DEF Typed
<1>1. ASSUME UNCHANGED wallet
      PROVE  WalletTyped'
  BY <1>1 DEF wallet, WalletTyped
<1>2. ASSUME UNCHANGED accepted
      PROVE  /\ accepted' \in [Orders -> SUBSET Providers]
             /\ \A p \in Orders : accepted[p] \subseteq accepted'[p]
  BY <1>2 DEF LedgersTyped
<1>3. /\ Key[o] \in Keys /\ Owner[o] \in Users
      /\ row[o] \in OrderRow /\ req[o].at \in Steps
      /\ Provider(o) \in Providers
  <2>1. req[o].try \in 1..Len(Chain(o)) /\ req[o].at \in Steps
    BY DEF ReqsTyped, OrderReq
  <2> QED
    BY <2>1, OrderKinds, ChainTyped DEF RowsTyped, Provider
<1>4. ASSUME NEW step \in {"lock", "call"}, Opens(o, step)
      PROVE  PurchaseEffect(o)
  <2>1. Moved(o) /\ req'[o].at = step /\ req'[o].answer = req[o].answer
    BY <1>4, GotoMoves DEF Opens, Steps
  <2>2. RowsKept
    <3> DEFINE r == [row[o] EXCEPT !.status = "pending"]
    <3>1. r \in OrderRow /\ r.status = "pending" /\ row' = [row EXCEPT ![o] = r]
      BY <1>3, <1>4 DEF Opens, SetStatus, OrderRow, AllStatuses
    <3> HIDE DEF r
    <3> QED
      BY <3>1, RowSet
  <2> QED
    BY <1>1, <1>2, <1>4, <2>1, <2>2 DEF Opens, PurchaseEffect, LedgersTyped
<1>5. CASE CreateEsim(o) \/ CreateProxy(o) \/ CreateVpn(o)
  BY <1>4, <1>5 DEF CreateEsim, CreateProxy, CreateVpn
<1>6. CASE Skip(o)
  <2>1. Moved(o) /\ req'[o].at \in {"lock", "giveup"} /\ req'[o].answer = req[o].answer
    BY <1>6, FallbackMoves DEF Skip
  <2> QED
    BY <1>1, <1>2, <1>6, <2>1, PlainMove DEF Skip
<1>7. CASE Lock(o)
  <2>1. Moved(o) /\ req'[o].at = "call" /\ req'[o].answer = req[o].answer
    BY <1>7, GotoMoves DEF Lock, Steps
  <2>2. WalletTyped'
    BY <1>1, <1>7, OpenTyped DEF Lock
  <2> QED
    BY <1>2, <1>7, <2>1, <2>2, PlainMove DEF Lock
<1>8. CASE LockFails(o)
  <2>1. Moved(o) /\ req'[o].at = "mark" /\ req'[o].answer = req[o].answer
    BY <1>8, GotoMoves DEF LockFails, Steps
  <2> QED
    BY <1>1, <1>2, <1>8, <2>1, PlainMove DEF LockFails
<1>9. CASE Accept(o)
  <2>1. Moved(o) /\ req'[o].at = "persist" /\ req'[o].answer = req[o].answer
    BY <1>9, GotoMoves DEF Accept, Steps
  <2>2. /\ accepted' \in [Orders -> SUBSET Providers] /\ accepted'[o] # {}
        /\ \A p \in Orders : accepted[p] \subseteq accepted'[p]
    BY <1>3, <1>9 DEF Accept, LedgersTyped
  <2> QED
    BY <1>1, <1>9, <2>1, <2>2, RowSame DEF Accept, PurchaseEffect, LedgersTyped
<1>10. CASE CallFails(o)
  <2>1. Moved(o) /\ req'[o].at \in {"release", "mark"} /\ req'[o].answer = req[o].answer
    BY <1>10, GotoMoves DEF CallFails, Steps
  <2>2. /\ accepted' \in [Orders -> SUBSET Providers]
        /\ \A p \in Orders : accepted[p] \subseteq accepted'[p]
    BY <1>3, <1>10 DEF CallFails, LedgersTyped
  <2> QED
    BY <1>1, <1>10, <2>1, <2>2, PlainMove DEF CallFails
<1>11. CASE Unconfigured(o)
  <2>1. Moved(o) /\ req'[o].at \in {"release", "mark"} /\ req'[o].answer = req[o].answer
    BY <1>11, GotoMoves DEF Unconfigured, Steps
  <2> QED
    BY <1>1, <1>2, <1>11, <2>1, PlainMove DEF Unconfigured
<1>12. CASE Persist(o)
  <2>1. RowsKept
    <3> DEFINE r == [row[o] EXCEPT !.status = "provisioning", !.linked = Provider(o)]
    <3>1. r \in OrderRow /\ r.status = "provisioning" /\ row' = [row EXCEPT ![o] = r]
      BY <1>3, <1>12 DEF Persist, OrderRow, AllStatuses
    <3> HIDE DEF r
    <3> QED
      BY <3>1, RowSet
  <2>2. CASE Paid(o) /\ Goto(o, "spend")
    <3>1. Moved(o) /\ req'[o].at = "spend" /\ req'[o].answer = req[o].answer
      BY <2>2, GotoMoves DEF Steps
    <3> QED
      BY <1>1, <1>2, <1>12, <2>1, <2>2, <3>1 DEF Persist, At, PurchaseEffect, LedgersTyped
  <2>3. CASE ~Paid(o) /\ req' = [req EXCEPT ![o].at = "done", ![o].answer = "accepted"]
    <3>1. Moved(o) /\ req'[o].at = "done"
      BY <2>3, AnswerMoves
    <3> QED
      BY <1>1, <1>2, <1>12, <2>1, <2>3, <3>1 DEF Persist, PurchaseEffect, LedgersTyped
  <2> QED
    BY <1>12, <2>2, <2>3 DEF Persist, Goto
<1>13. CASE Spend(o)
  <2>1. Moved(o) /\ req'[o].at = "stamp" /\ req'[o].answer = req[o].answer
    BY <1>13, GotoMoves DEF Spend, Steps
  <2>2. WalletTyped'
    BY <1>1, <1>3, <1>13, CloseTyped DEF Spend
  <2>3. /\ spentBy' \in [Keys -> SUBSET Orders] /\ spentBy'[Key[o]] # {}
        /\ spentBy' = spentBy \/ spentBy' = [spentBy EXCEPT ![Key[o]] = {o}]
    BY <1>3, <1>13 DEF Spend, LedgersTyped
  <2> QED
    BY <1>2, <1>13, <2>1, <2>2, <2>3, RowSame DEF Spend, At, PurchaseEffect, LedgersTyped
<1>14. CASE SpendFails(o)
  <2>1. Moved(o) /\ req'[o].at = "release" /\ req'[o].answer = req[o].answer
    BY <1>14, GotoMoves DEF SpendFails, Steps
  <2> QED
    BY <1>1, <1>2, <1>14, <2>1, PlainMove DEF SpendFails
<1>15. CASE Stamp(o)
  <2>1. Moved(o) /\ req'[o].at = "done"
    BY <1>15, AnswerMoves DEF Stamp
  <2> QED
    BY <1>1, <1>2, <1>15, <2>1, RowSame DEF Stamp, At, PurchaseEffect, LedgersTyped
<1>16. CASE WriteFails(o)
  <2>1. Moved(o) /\ req'[o].at \in {"release", "mark"} /\ req'[o].answer = req[o].answer
    BY <1>16, GotoMoves DEF WriteFails, Steps
  <2> QED
    BY <1>1, <1>2, <1>16, <2>1, PlainMove DEF WriteFails
<1>17. CASE Release(o)
  <2>1. Moved(o) /\ req'[o].at = "mark" /\ req'[o].answer = req[o].answer
    BY <1>17, GotoMoves DEF Release, Steps
  <2>2. WalletTyped'
    BY <1>1, <1>3, <1>17, CloseTyped, OrdersAssumption DEF Release
  <2> QED
    BY <1>2, <1>17, <2>1, <2>2, PlainMove DEF Release
<1>18. ASSUME NEW why \in {"error", "nobody accepted"}, UNCHANGED <<wallet, spentBy, accepted, hooks>>,
              row' = [row EXCEPT ![o].status = "failed", ![o].reason = why],
              req' = [req EXCEPT ![o].at = "done", ![o].answer = "failed"]
       PROVE  PurchaseEffect(o)
  <2>1. Moved(o) /\ req'[o].at = "done" /\ req'[o].answer = "failed"
    BY <1>18, AnswerMoves
  <2>2. RowsKept
    <3> DEFINE r == [row[o] EXCEPT !.status = "failed", !.reason = why]
    <3>1. r \in OrderRow /\ r.status = "failed" /\ row' = [row EXCEPT ![o] = r]
      BY <1>3, <1>18 DEF OrderRow, AllStatuses
    <3> HIDE DEF r
    <3> QED
      BY <3>1, RowSet
  <2> QED
    BY <1>1, <1>2, <1>18, <2>1, <2>2 DEF PurchaseEffect, LedgersTyped
<1>19. CASE Mark(o)
  <2>1. CASE Fallback(o) /\ UNCHANGED row
    <3>1. Moved(o) /\ req'[o].at \in {"lock", "giveup"} /\ req'[o].answer = req[o].answer
      BY <2>1, FallbackMoves
    <3> QED
      BY <1>1, <1>2, <1>19, <2>1, <3>1, PlainMove DEF Mark
  <2> QED
    BY <1>18, <1>19, <2>1 DEF Mark
<1>20. CASE GiveUp(o)
  BY <1>18, <1>20 DEF GiveUp
<1>21. CASE Crash(o)
  <2>1. Moved(o) /\ req'[o].at = "crashed" /\ req'[o].answer = req[o].answer
    BY <1>21, GotoMoves DEF Crash, Steps
  <2> QED
    BY <1>1, <1>2, <1>21, <2>1, PlainMove DEF Crash
<1> QED
  BY <1>5, <1>6, <1>7, <1>8, <1>9, <1>10, <1>11, <1>12, <1>13, <1>14, <1>15, <1>16, <1>17,
     <1>19, <1>20, <1>21 DEF Purchase

LEMMA PurchaseKeeps ==
  ASSUME OrdersInv, NEW o \in Orders, Purchase(o)
  PROVE  OrdersInv'
<1>1. PurchaseEffect(o) /\ Typed
  BY PurchaseStep DEF OrdersInv
<1>2. UNCHANGED <<handler, seen, refunds>> /\ Key[o] \in Keys
  BY <1>1, OrderKinds DEF PurchaseEffect, hooks
<1>3. Typed'
  <2>1. EventsTyped'
    BY <1>1, <1>2 DEF Typed, EventsTyped, Paid
  <2> QED
    BY <1>1, <2>1 DEF Typed, PurchaseEffect, Moved, RowsKept
<1>4. \A k \in Keys : spentBy[k] # {} => spentBy'[k] # {}
  BY <1>1, <1>2 DEF PurchaseEffect, Typed, LedgersTyped
<1>5. RequestsBacked'
  <2>1. SUFFICES ASSUME NEW p \in Orders
        PROVE  /\ req'[p].at \in {"persist", "spend", "stamp"} => accepted'[p] # {}
               /\ req'[p].at \in {"spend", "stamp"} => Paid(p)
               /\ req'[p].at = "stamp" => spentBy'[Key[p]] # {}
               /\ Paid(p) /\ req'[p].answer = "accepted" => spentBy'[Key[p]] # {}
    BY DEF RequestsBacked, Paid
  <2>2. /\ req[p].at \in {"persist", "spend", "stamp"} => accepted[p] # {}
        /\ req[p].at \in {"spend", "stamp"} => Paid(p)
        /\ req[p].at = "stamp" => spentBy[Key[p]] # {}
        /\ Paid(p) /\ req[p].answer = "accepted" => spentBy[Key[p]] # {}
        /\ Key[p] \in Keys /\ accepted[p] \subseteq accepted'[p]
    BY <1>1, OrderKinds DEF OrdersInv, RequestsBacked, PurchaseEffect
  <2>3. CASE p # o
    BY <1>1, <1>4, <2>2, <2>3 DEF PurchaseEffect, Moved
  <2>4. CASE p = o
    BY <1>1, <1>4, <2>2, <2>4 DEF PurchaseEffect
  <2> QED
    BY <2>3, <2>4
<1>6. SpendsBacked'
  <2>1. SUFFICES ASSUME NEW k \in Keys, NEW p \in spentBy'[k]
        PROVE  accepted'[p] # {} /\ Key[p] = k /\ Paid(p)
    BY DEF SpendsBacked, Paid
  <2>2. CASE p \in spentBy[k]
    <3>1. p \in Orders /\ accepted[p] # {} /\ Key[p] = k /\ Paid(p)
      BY <1>1, <2>2 DEF OrdersInv, SpendsBacked, Typed, LedgersTyped
    <3> QED
      BY <1>1, <3>1 DEF PurchaseEffect
  <2>3. CASE p \notin spentBy[k]
    <3>1. req[o].at = "spend" /\ p = o /\ k = Key[o]
      BY <1>1, <1>2, <2>1, <2>3 DEF PurchaseEffect, Typed, LedgersTyped
    <3> QED
      BY <1>1, <3>1 DEF OrdersInv, RequestsBacked, PurchaseEffect
  <2> QED
    BY <2>2, <2>3
<1>7. RefundsBacked'
  BY <1>1, <1>2 DEF OrdersInv, RefundsBacked, RefundedIsPaidBack, Status, PurchaseEffect, RowsKept
<1> QED
  BY <1>3, <1>5, <1>6, <1>7 DEF OrdersInv

-----------------------------------------------------------------------------
(* A webhook leaves requests, spends and acceptances alone.                *)
LEMMA RequestsSame ==
  ASSUME RequestsBacked, SpendsBacked, UNCHANGED <<req, accepted, spentBy>>
  PROVE  RequestsBacked' /\ SpendsBacked'
  BY DEF RequestsBacked, SpendsBacked, Paid

LEMMA EventFields ==
  ASSUME EventsTyped, NEW h \in Handlers, handler[h] # NoHandler
  PROVE  /\ handler[h] \in OrderEvent /\ handler[h].order \in Orders
         /\ handler[h] \in [at : {"update", "refund", "credit", "mark"}, order : Orders,
                            word : Words, id : Idents \cup {NoIdent}, read : AllStatuses]
  BY DEF EventsTyped, OrderEvent

(* What a webhook's step does to its handler, the rows and the refunds.    *)
WebhookEffect(h) ==
  /\ UNCHANGED <<configured, req, accepted, spentBy>> /\ WalletTyped' /\ RowsTyped'
  /\ EventsTyped'
  /\ \A g \in Handlers : g # h => handler'[g] = handler[g]
  /\ \A o \in Orders : refunds'[o] >= refunds[o]
  /\ handler'[h].at = "mark" => refunds'[handler'[h].order] > 0
  /\ \A o \in Orders : row'[o].status = "refunded" => row[o].status = "refunded" \/ refunds'[o] > 0

LEMMA HandlerSet ==
  ASSUME EventsTyped, NEW h \in Handlers, NEW e \in OrderEvent,
         e.at \in {"refund", "credit", "mark"} => Paid(e.order),
         handler' = [handler EXCEPT ![h] = e],
         seen' \subseteq Orders \X Words \X Idents,
         refunds' \in [Orders -> Nat]
  PROVE  /\ EventsTyped' /\ handler'[h] = e
         /\ \A g \in Handlers : g # h => handler'[g] = handler[g]
  BY DEF EventsTyped, Paid

LEMMA NextStage ==
  ASSUME NEW e \in [at : {"update", "refund", "credit", "mark"}, order : Orders, word : Words,
                    id : Idents \cup {NoIdent}, read : AllStatuses],
         NEW step \in {"refund", "credit", "mark"}
  PROVE  /\ [e EXCEPT !.at = step] \in OrderEvent
         /\ [e EXCEPT !.at = step].at = step /\ [e EXCEPT !.at = step].order = e.order
  BY DEF OrderEvent

LEMMA WebhookStep ==
  ASSUME Typed, RefundsBacked, NEW h \in Handlers, Webhook(h)
  PROVE  WebhookEffect(h)
<1> USE DEF Typed
<1>1. /\ NoHandler \in OrderEvent /\ NoHandler.at = "idle"
      /\ handler \in [Handlers -> OrderEvent]
      /\ seen \subseteq Orders \X Words \X Idents /\ refunds \in [Orders -> Nat]
  BY DEF OrderEvent, NoHandler, EventsTyped
<1>2. ASSUME UNCHANGED wallet
      PROVE  WalletTyped'
  BY <1>2 DEF wallet, WalletTyped
<1>3. CASE \E o \in Orders, w \in Words, id \in Idents \cup {NoIdent} : Receive(h, o, w, id)
  <2>1. PICK o \in Orders, w \in Words, id \in Idents \cup {NoIdent} : Receive(h, o, w, id)
    BY <1>3
  <2> DEFINE e == [at |-> "update", order |-> o, word |-> w, id |-> id, read |-> Status(o)]
  <2>2. e \in OrderEvent /\ e.at = "update"
    BY DEF OrderEvent, RowsTyped, OrderRow, Status
  <2>3. /\ handler' = [handler EXCEPT ![h] = e] /\ UNCHANGED <<wallet, request, row, refunds>>
        /\ seen' \subseteq Orders \X Words \X Idents
    BY <1>1, <2>1 DEF Receive
  <2> HIDE DEF e
  <2>4. /\ EventsTyped' /\ handler'[h] = e
        /\ \A g \in Handlers : g # h => handler'[g] = handler[g]
    BY <1>1, <2>2, <2>3, HandlerSet
  <2> QED
    BY <1>1, <1>2, <2>2, <2>3, <2>4 DEF WebhookEffect, request, RowsTyped
<1>4. CASE Update(h)
  <2> DEFINE o == handler[h].order
             s == Mapped(o, handler[h].word)
  <2>1. handler[h] # NoHandler
    BY <1>1, <1>4 DEF Update
  <2>2. /\ handler[h] \in OrderEvent /\ o \in Orders
        /\ handler[h] \in [at : {"update", "refund", "credit", "mark"}, order : Orders,
                           word : Words, id : Idents \cup {NoIdent}, read : AllStatuses]
    BY <2>1, EventFields
  <2>3. s \in Statuses(o) /\ s \in AllStatuses
    BY <1>4, <2>2, OrderKinds DEF Update
  <2>4. PICK why \in {"none", "error", row[o].reason} :
          row' = [row EXCEPT ![o].status = s, ![o].reason = why]
    BY <1>4, <2>2 DEF Update
  <2>5. RowsTyped' /\ row'[o].status = s /\ \A p \in Orders : p # o => row'[p] = row[p]
    <3> DEFINE r == [row[o] EXCEPT !.status = s, !.reason = why]
    <3>1. row[o] \in OrderRow /\ row[o].reason \in {"none", "error", "nobody accepted"}
      BY <2>2 DEF RowsTyped, OrderRow
    <3>2. r \in OrderRow /\ r.status = s
      BY <2>3, <2>4, <3>1 DEF OrderRow
    <3>3. row' = [row EXCEPT ![o] = r]
      BY <2>4
    <3> HIDE DEF r, s
    <3> QED
      BY <2>2, <2>3, <3>2, <3>3 DEF RowsTyped
  <2>6. s # "refunded"
    <3>1. handler[h].word \in {"fail", "cancel", "revoke", "expire", "disconnect", "suspend",
                              "complete", "ready", "process"}
      BY <2>2, OrdersAssumption
    <3> QED
      BY <3>1 DEF Mapped
  <2>7. PICK e \in OrderEvent :
          /\ handler' = [handler EXCEPT ![h] = e]
          /\ e.at \in {"idle", "refund"} /\ (e.at = "refund" => Paid(e.order))
    <3>1. CASE handler' = [handler EXCEPT ![h] = NoHandler]
      BY <1>1, <3>1
    <3>2. CASE Paid(o) /\ handler' = [handler EXCEPT ![h] = [handler[h] EXCEPT !.at = "refund"]]
      <4> DEFINE r == [handler[h] EXCEPT !.at = "refund"]
      <4>1. r \in OrderEvent /\ r.at = "refund" /\ r.order = o
        BY <2>2, NextStage
      <4> HIDE DEF r
      <4>2. Paid(r.order) /\ handler' = [handler EXCEPT ![h] = r]
        BY <3>2, <4>1 DEF r
      <4> QED
        BY <4>1, <4>2
    <3> QED
      BY <1>4, <3>1, <3>2 DEF Update
  <2>8. UNCHANGED <<wallet, request, seen, refunds>>
    BY <1>4 DEF Update
  <2>9. /\ EventsTyped' /\ handler'[h] = e
        /\ \A g \in Handlers : g # h => handler'[g] = handler[g]
    BY <1>1, <2>7, <2>8, HandlerSet
  <2> QED
    BY <1>1, <1>2, <2>5, <2>6, <2>7, <2>8, <2>9 DEF WebhookEffect, request
<1>5. CASE FindRefund(h)
  <2> DEFINE o == handler[h].order
             step == IF refunds[o] > 0 THEN "mark" ELSE "credit"
             e == [handler[h] EXCEPT !.at = step]
  <2>1. handler[h] # NoHandler /\ handler[h].at = "refund"
    BY <1>1, <1>5 DEF FindRefund
  <2>2. /\ handler[h] \in [at : {"update", "refund", "credit", "mark"}, order : Orders,
                           word : Words, id : Idents \cup {NoIdent}, read : AllStatuses]
        /\ o \in Orders /\ Paid(o)
    BY <2>1, EventFields DEF EventsTyped
  <2>3. e \in OrderEvent /\ e.at = step /\ e.order = o
    BY <2>2, NextStage
  <2>4. handler' = [handler EXCEPT ![h] = e] /\ UNCHANGED <<wallet, request, row, seen, refunds>>
    BY <1>5 DEF FindRefund
  <2> HIDE DEF e
  <2>5. /\ EventsTyped' /\ handler'[h] = e
        /\ \A g \in Handlers : g # h => handler'[g] = handler[g]
    BY <1>1, <2>2, <2>3, <2>4, HandlerSet
  <2> QED
    BY <1>1, <1>2, <2>3, <2>4, <2>5 DEF WebhookEffect, request, RowsTyped
<1>6. CASE CreditRefund(h)
  <2> DEFINE o == handler[h].order
             e == [handler[h] EXCEPT !.at = "mark"]
  <2>1. handler[h] # NoHandler /\ handler[h].at = "credit"
    BY <1>1, <1>6 DEF CreditRefund
  <2>2. /\ handler[h] \in [at : {"update", "refund", "credit", "mark"}, order : Orders,
                           word : Words, id : Idents \cup {NoIdent}, read : AllStatuses]
        /\ o \in Orders /\ Paid(o)
    BY <2>1, EventFields DEF EventsTyped
  <2>3. e \in OrderEvent /\ e.at = "mark" /\ e.order = o
    BY <2>2, NextStage
  <2>4. /\ handler' = [handler EXCEPT ![h] = e] /\ UNCHANGED <<request, row, seen>>
        /\ refunds' = [refunds EXCEPT ![o] = @ + 1]
        /\ Wallet!Earn(Owner[o], Price)
    BY <1>6 DEF CreditRefund
  <2> HIDE DEF e
  <2>5. WalletTyped'
    BY <2>2, <2>4, EarnTyped, OrderKinds, OrdersAssumption
  <2>6. /\ refunds' \in [Orders -> Nat] /\ refunds'[o] > 0
        /\ \A p \in Orders : refunds'[p] >= refunds[p]
    BY <1>1, <2>2, <2>4
  <2>7. /\ EventsTyped' /\ handler'[h] = e
        /\ \A g \in Handlers : g # h => handler'[g] = handler[g]
    BY <1>1, <2>2, <2>3, <2>4, <2>6, HandlerSet
  <2> QED
    BY <2>3, <2>4, <2>5, <2>6, <2>7 DEF WebhookEffect, request, RowsTyped
<1>7. CASE MarkRefunded(h)
  <2> DEFINE o == handler[h].order
  <2>1. handler[h] # NoHandler /\ handler[h].at = "mark"
    BY <1>1, <1>7 DEF MarkRefunded
  <2>2. o \in Orders /\ Paid(o) /\ refunds[o] > 0 /\ "refunded" \in Statuses(o)
    BY <2>1, EventFields, OrderKinds DEF EventsTyped, RefundsBacked
  <2>3. /\ row' = [row EXCEPT ![o].status = "refunded"]
        /\ handler' = [handler EXCEPT ![h] = NoHandler]
        /\ UNCHANGED <<wallet, request, seen, refunds>>
    BY <1>7 DEF MarkRefunded, SetStatus
  <2>4. RowsTyped' /\ \A p \in Orders : p # o => row'[p] = row[p]
    BY <2>2, <2>3 DEF RowsTyped, OrderRow, AllStatuses
  <2>5. /\ EventsTyped' /\ handler'[h] = NoHandler
        /\ \A g \in Handlers : g # h => handler'[g] = handler[g]
    BY <1>1, <2>3, HandlerSet
  <2> QED
    BY <1>1, <1>2, <2>2, <2>3, <2>4, <2>5 DEF WebhookEffect, request
<1>8. CASE DropEvent(h)
  <2>1. /\ handler' = [handler EXCEPT ![h] = NoHandler]
        /\ UNCHANGED <<wallet, request, row, seen, refunds>>
    BY <1>8 DEF DropEvent
  <2>2. /\ EventsTyped' /\ handler'[h] = NoHandler
        /\ \A g \in Handlers : g # h => handler'[g] = handler[g]
    BY <1>1, <2>1, HandlerSet
  <2> QED
    BY <1>1, <1>2, <2>1, <2>2 DEF WebhookEffect, request, RowsTyped
<1> QED
  BY <1>3, <1>4, <1>5, <1>6, <1>7, <1>8 DEF Webhook

LEMMA WebhookKeeps ==
  ASSUME OrdersInv, NEW h \in Handlers, Webhook(h)
  PROVE  OrdersInv'
<1>1. WebhookEffect(h) /\ Typed
  BY WebhookStep DEF OrdersInv
<1>2. Typed'
  BY <1>1 DEF WebhookEffect, Typed, ReqsTyped, LedgersTyped
<1>3. RequestsBacked' /\ SpendsBacked'
  BY <1>1, RequestsSame DEF OrdersInv, WebhookEffect
<1>4. RefundsBacked'
  <2>1. ASSUME NEW g \in Handlers, handler'[g].at = "mark"
        PROVE  refunds'[handler'[g].order] > 0
    <3>1. CASE g = h
      BY <1>1, <2>1, <3>1 DEF WebhookEffect
    <3>2. CASE g # h
      <4>1. handler'[g] = handler[g] /\ handler[g] # NoHandler
        BY <1>1, <2>1, <3>2 DEF WebhookEffect, NoHandler
      <4>2. handler[g].order \in Orders /\ refunds[handler[g].order] > 0
        BY <1>1, <2>1, <4>1, EventFields DEF OrdersInv, RefundsBacked, Typed
      <4> QED
        BY <1>1, <1>2, <4>1, <4>2 DEF WebhookEffect, Typed, EventsTyped
    <3> QED
      BY <3>1, <3>2
  <2>2. ASSUME NEW o \in Orders, row'[o].status = "refunded"
        PROVE  refunds'[o] > 0
    BY <1>1, <1>2, <2>2 DEF WebhookEffect, OrdersInv, RefundsBacked, RefundedIsPaidBack, Status,
                            Typed, EventsTyped
  <2> QED
    BY <2>1, <2>2 DEF RefundsBacked, RefundedIsPaidBack, Status
<1> QED
  BY <1>2, <1>3, <1>4 DEF OrdersInv

-----------------------------------------------------------------------------
LEMMA InitOrders == Init => OrdersInv
<1> SUFFICES ASSUME Init PROVE OrdersInv
  OBVIOUS
<1>1. WalletTyped
  BY DEF Init, Wallet!Init, WalletTyped
<1>2. RowsTyped /\ EventsTyped /\ LedgersTyped
  BY DEF Init, RowsTyped, EventsTyped, LedgersTyped, OrderRow, NoRow, AllStatuses, OrderEvent, NoHandler
<1>3. ReqsTyped
  BY ChainTyped DEF Init, ReqsTyped, OrderReq, NoReq, Steps
<1>4. RequestsBacked /\ SpendsBacked
  BY DEF Init, RequestsBacked, SpendsBacked, NoReq
<1>5. RefundsBacked
  BY DEF Init, RefundsBacked, RefundedIsPaidBack, Status, NoRow, NoHandler
<1> QED
  BY <1>1, <1>2, <1>3, <1>4, <1>5 DEF OrdersInv, Typed

LEMMA OrdersInductive == OrdersInv /\ [Next]_vars => OrdersInv'
<1> SUFFICES ASSUME OrdersInv, [Next]_vars PROVE OrdersInv'
  OBVIOUS
<1>1. ASSUME WalletTyped', UNCHANGED <<spentBy, row, req, accepted, handler, seen, refunds>>
      PROVE  OrdersInv'
  <2>1. Typed'
    BY <1>1 DEF OrdersInv, Typed, RowsTyped, ReqsTyped, EventsTyped, LedgersTyped
  <2>2. RequestsBacked' /\ SpendsBacked'
    BY <1>1, RequestsSame DEF OrdersInv
  <2>3. RefundsBacked'
    BY <1>1 DEF OrdersInv, RefundsBacked, RefundedIsPaidBack, Status
  <2> QED
    BY <2>1, <2>2, <2>3 DEF OrdersInv
<1>2. WalletTyped
  BY DEF OrdersInv, Typed
<1>3. CASE UNCHANGED vars
  <2>1. WalletTyped'
    BY <1>2, <1>3 DEF vars, wallet, WalletTyped
  <2> QED
    BY <1>1, <1>3, <2>1 DEF vars
<1>4. ASSUME NEW u \in Users, NEW a \in 1..MaxFunds, Deposit(u, a)
      PROVE  OrdersInv'
  <2>1. WalletTyped'
    BY <1>2, <1>4, EarnTyped, OrdersAssumption DEF Deposit
  <2> QED
    BY <1>1, <1>4, <2>1 DEF Deposit, hooks
<1>5. ASSUME NEW k \in Keys, Expire(k)
      PROVE  OrdersInv'
  <2>1. WalletTyped'
    BY <1>2, <1>5, CloseTyped, OrdersAssumption DEF Expire
  <2> QED
    BY <1>1, <1>5, <2>1 DEF Expire, hooks
<1> QED
  BY <1>3, <1>4, <1>5, PurchaseKeeps, WebhookKeeps DEF Next

LEMMA OrdersAlways == Spec => []OrdersInv
  BY InitOrders, OrdersInductive, PTL DEF Spec

-----------------------------------------------------------------------------
(* Whatever the providers answer and report, in any order: persistence and *)
(* applyProviderLifecycleEvent write only statuses that the CHECK          *)
(* constraint of the order's own table allows.                             *)
THEOREM OrderTypeCorrect == Spec => []TypeOK
<1>1. OrdersInv => TypeOK
  <2> SUFFICES ASSUME OrdersInv PROVE TypeOK
    OBVIOUS
  <2>1. WalletTyped /\ RowsTyped /\ ReqsTyped /\ EventsTyped /\ LedgersTyped
    BY DEF OrdersInv, Typed
  <2>2. ASSUME NEW o \in Orders
        PROVE  /\ row[o].status \in Statuses(o) \cup {"none"}
               /\ row[o].linked \in Providers \cup {"none"}
               /\ req[o].at \in Steps /\ req[o].try \in 1..Len(Chain(o))
               /\ accepted[o] \subseteq Providers
    BY <2>1 DEF RowsTyped, ReqsTyped, LedgersTyped, OrderRow, OrderReq
  <2> QED
    BY <2>1, <2>2 DEF TypeOK, WalletTyped, EventsTyped, LedgersTyped
<1> QED
  BY <1>1, OrdersAlways, PTL

(* For any number of orders and users and any set of configured providers: *)
(* executeReservedProvider takes money only for an order that a provider   *)
(* accepted.                                                               *)
THEOREM ChargesAreAccepted == Spec => []ChargedOnlyAccepted
<1>1. OrdersInv => ChargedOnlyAccepted
  BY DEF OrdersInv, SpendsBacked, ChargedOnlyAccepted
<1> QED
  BY <1>1, OrdersAlways, PTL

(* An order is answered as accepted only when it was charged, provided no  *)
(* request key is used for two orders: with one key for an eSIM and a      *)
(* proxy, the charge of the first answers for the second.                  *)
THEOREM AcceptedOrdersAreCharged ==
  ASSUME \A o, p \in Esims \cup Proxies : Key[o] = Key[p] => o = p
  PROVE  Spec => []AcceptedIsCharged
<1>1. OrdersInv => AcceptedIsCharged
  <2> SUFFICES ASSUME OrdersInv, NEW o \in Esims \cup Proxies, req[o].answer = "accepted"
               PROVE  o \in spentBy[Key[o]]
    BY DEF AcceptedIsCharged
  <2>1. o \in Orders
    BY DEF Orders
  <2>2. Key[o] \in Keys /\ Paid(o)
    BY <2>1, OrderKinds
  <2>3. PICK p : p \in spentBy[Key[o]]
    BY <2>1, <2>2 DEF OrdersInv, RequestsBacked
  <2>4. p \in Orders /\ Key[p] = Key[o] /\ Paid(p)
    BY <2>2, <2>3 DEF OrdersInv, SpendsBacked, Typed, LedgersTyped
  <2>5. p \in Esims \cup Proxies
    BY <2>4, OrderKinds
  <2> QED
    BY <2>3, <2>4, <2>5
<1> QED
  BY <1>1, OrdersAlways, PTL

(* However many webhooks of an order are handled at once, repeated or cut  *)
(* short: an order shown as refunded has a refund in the wallet's ledger.  *)
THEOREM RefundsArePaidBack == Spec => []RefundedIsPaidBack
<1>1. OrdersInv => RefundedIsPaidBack
  BY DEF OrdersInv, RefundsBacked
<1> QED
  BY <1>1, OrdersAlways, PTL

-----------------------------------------------------------------------------
(* Refunds of an order whose webhooks are handled one after the other: the *)
(* one that is about to credit the wallet found no refund, and no other    *)
(* has made one since.                                                     *)
TurnInv ==
  \A o \in Orders \ together :
    /\ ~Overlapping(o)
    /\ \A h \in Handlers : handler[h].at = "credit" /\ handler[h].order = o => refunds[o] = 0
    /\ refunds[o] <= 1

LEMMA PurchaseKeepsHooks ==
  ASSUME NEW o \in Orders, Purchase(o)
  PROVE  UNCHANGED <<handler, refunds>>
BY DEF Purchase, CreateEsim, CreateProxy, CreateVpn, Opens, Skip, Lock, LockFails, Accept,
       CallFails, Unconfigured, Persist, Spend, SpendFails, Stamp, WriteFails, Release, Mark,
       GiveUp, Crash, hooks

LEMMA InitTurns == TurnInit => TurnInv
BY DEF TurnInit, Init, TurnInv, Overlapping, NoHandler

LEMMA TurnsInductive == OrdersInv /\ TurnInv /\ [TurnNext]_turnvars => TurnInv'
<1> SUFFICES ASSUME OrdersInv, TurnInv, [TurnNext]_turnvars, NEW o \in Orders \ together'
             PROVE  /\ ~Overlapping(o)'
                    /\ \A g \in Handlers :
                         handler'[g].at = "credit" /\ handler'[g].order = o => refunds'[o] = 0
                    /\ refunds'[o] <= 1
  BY DEF TurnInv
<1>1. EventsTyped
  BY DEF OrdersInv, Typed
<1>2. CASE UNCHANGED turnvars
  BY <1>2 DEF turnvars, vars, TurnInv, Overlapping
<1>3. CASE TurnNext
  <2>1. o \notin together /\ ~Overlapping(o)'
    BY <1>3 DEF TurnNext
  <2>2. /\ ~Overlapping(o) /\ refunds[o] <= 1 /\ refunds[o] \in Nat
        /\ \A h \in Handlers : handler[h].at = "credit" /\ handler[h].order = o =>
             refunds[o] = 0
    BY <1>1, <2>1 DEF TurnInv, EventsTyped
  <2>3. ASSUME UNCHANGED <<handler, refunds>>
        PROVE  /\ \A g \in Handlers :
                    handler'[g].at = "credit" /\ handler'[g].order = o => refunds'[o] = 0
               /\ refunds'[o] <= 1
    BY <2>2, <2>3
  <2>4. ASSUME NEW h \in Handlers, UNCHANGED refunds,
               \A g \in Handlers \ {h} : handler'[g] = handler[g],
               handler'[h].at = "credit" => refunds[handler'[h].order] = 0
        PROVE  /\ \A g \in Handlers :
                    handler'[g].at = "credit" /\ handler'[g].order = o => refunds'[o] = 0
               /\ refunds'[o] <= 1
    BY <2>2, <2>4
  <2>5. ASSUME NEW h \in Handlers, Webhook(h)
        PROVE  /\ \A g \in Handlers :
                    handler'[g].at = "credit" /\ handler'[g].order = o => refunds'[o] = 0
               /\ refunds'[o] <= 1
    <3>1. handler \in [Handlers -> OrderEvent] /\ refunds \in [Orders -> Nat]
      BY <1>1 DEF EventsTyped
    <3>2. ASSUME NEW p \in Orders, NEW w \in Words, NEW id \in Idents \cup {NoIdent},
                 Receive(h, p, w, id)
          PROVE  /\ UNCHANGED refunds /\ handler'[h].at # "credit"
                 /\ \A g \in Handlers \ {h} : handler'[g] = handler[g]
      BY <3>1, <3>2 DEF Receive
    <3>3. ASSUME Update(h) \/ MarkRefunded(h) \/ DropEvent(h)
          PROVE  /\ UNCHANGED refunds /\ handler'[h].at # "credit"
                 /\ \A g \in Handlers \ {h} : handler'[g] = handler[g]
      <4>1. CASE Update(h)
        <5>1. handler[h] # NoHandler
          BY <4>1 DEF Update, NoHandler
        <5>2. PICK e : /\ handler' = [handler EXCEPT ![h] = e]
                       /\ e = NoHandler \/ e = [handler[h] EXCEPT !.at = "refund"]
          BY <4>1 DEF Update
        <5>3. e.at # "credit"
          BY <3>1, <5>1, <5>2 DEF OrderEvent, NoHandler
        <5> QED  BY <3>1, <4>1, <5>2, <5>3 DEF Update
      <4> QED  BY <3>1, <3>3, <4>1 DEF MarkRefunded, DropEvent, NoHandler
    <3>4. CASE FindRefund(h)
      <4>1. /\ handler[h].at = "refund" /\ handler[h] # NoHandler /\ UNCHANGED refunds
            /\ handler' = [handler EXCEPT ![h].at =
                            IF refunds[handler[h].order] > 0 THEN "mark" ELSE "credit"]
        BY <3>4 DEF FindRefund, NoHandler
      <4>2. handler[h].order \in Orders
        BY <1>1, <4>1, EventFields
      <4>3. /\ handler'[h].order = handler[h].order
            /\ handler'[h].at = IF refunds[handler[h].order] > 0 THEN "mark" ELSE "credit"
            /\ \A g \in Handlers \ {h} : handler'[g] = handler[g]
        BY <3>1, <4>1 DEF OrderEvent
      <4>4. handler'[h].at = "credit" => refunds[handler'[h].order] = 0
        BY <3>1, <4>2, <4>3
      <4> QED  BY <2>4, <4>1, <4>3, <4>4
    <3>5. CASE CreditRefund(h)
      <4>1. /\ handler[h].at = "credit" /\ handler[h] # NoHandler
            /\ refunds' = [refunds EXCEPT ![handler[h].order] = @ + 1]
            /\ handler' = [handler EXCEPT ![h].at = "mark"]
        BY <3>5 DEF CreditRefund, NoHandler
      <4>2. handler[h].order \in Orders
        BY <1>1, <4>1, EventFields
      <4>3. /\ handler'[h].at = "mark"
            /\ \A g \in Handlers \ {h} : handler'[g] = handler[g]
        BY <3>1, <4>1 DEF OrderEvent
      <4>4. CASE handler[h].order # o
        BY <2>2, <3>1, <4>1, <4>2, <4>3, <4>4
      <4>5. CASE handler[h].order = o
        <5>1. refunds'[o] = 1
          BY <2>2, <3>1, <4>1, <4>5
        <5>2. \A g \in Handlers \ {h} : handler[g].at = "credit" => handler[g].order # o
          BY <2>2, <4>1, <4>5 DEF Overlapping, NoHandler
        <5> QED  BY <4>3, <5>1, <5>2
      <4> QED  BY <4>4, <4>5
    <3> QED  BY <2>4, <2>5, <3>2, <3>3, <3>4, <3>5 DEF Webhook
  <2>6. CASE \E u \in Users, a \in 1..MaxFunds : Deposit(u, a)
    BY <2>1, <2>3, <2>6 DEF Deposit, hooks
  <2>7. CASE \E p \in Orders : Purchase(p)
    BY <2>1, <2>3, <2>7, PurchaseKeepsHooks
  <2>8. CASE \E k \in Keys : Expire(k)
    BY <2>1, <2>3, <2>8 DEF Expire, hooks
  <2> QED  BY <1>3, <2>1, <2>5, <2>6, <2>7, <2>8 DEF TurnNext, Next
<1> QED  BY <1>2, <1>3

(* refundWallet and applyProviderLifecycleEvent: an order is refunded at   *)
(* most once, however often its failure is reported and whatever else is   *)
(* reported in between, unless two of its webhooks are handled at the same *)
(* time; for any orders, events and number of handlers.                    *)
THEOREM OrdersRefundedOnce == TurnSpec => []RefundedInTurn
<1>1. TurnSpec => [](OrdersInv /\ TurnInv)
  <2>1. TurnInit => OrdersInv /\ TurnInv
    BY InitOrders, InitTurns DEF TurnInit
  <2>2. OrdersInv /\ TurnInv /\ [TurnNext]_turnvars => OrdersInv' /\ TurnInv'
    BY OrdersInductive, TurnsInductive DEF TurnNext, turnvars
  <2> QED  BY <2>1, <2>2, PTL DEF TurnSpec
<1>2. TurnInv => RefundedInTurn
  BY DEF TurnInv, RefundedInTurn
<1> QED  BY <1>1, <1>2, PTL
=============================================================================
