---------------------------- MODULE NumberProofs ----------------------------
(***************************************************************************)
(* Proofs about phone numbers and verification orders: what is paid, what  *)
(* is marked unpaid, and what a verification is charged for.               *)
(*                                                                         *)
(* Three things carry them.  A spent hold stays spent, whoever else works  *)
(* on it.  The last period given to a number is paid, or marked, or the    *)
(* renewal that gave it is just about to charge it: another renewal from   *)
(* the same expiry shares its hold.  And the open hold of a session only   *)
(* ever becomes the hold of the session's own number, so what settles it   *)
(* is a message for that number.                                           *)
(***************************************************************************)
EXTENDS VerificationHub, TLAPS

HoldRows == [status : HoldStatuses, for : Numbers \cup {NoNumber}]
NumberRows == [status : NumberStatuses \cup {"none"}, periods : Nat,
               mark : {"none", "paid", "failed"}, auto : BOOLEAN, verify : BOOLEAN]
RenewalSteps == {"idle", "lock", "extend", "spend", "release"}
RenewalRows == [at : RenewalSteps, from : Nat]

(* The keys of verification orders are their own: provision is asked for   *)
(* them with 'verify-order:' before the key of the order, which is unique. *)
OwnKeys == \A s \in Sessions, p \in Requests : Key[p] = Key[s] => p = s

Types ==
  /\ TypeOK
  /\ renewal \in [Callers \X Numbers -> RenewalRows]
  /\ inbox \in [Numbers -> {"idle", "settle"}]

(* What a number was given last.                                           *)
Given(n) == <<n, row[n].periods - 1>>

TimeInv ==
  /\ \A n \in Numbers : row[n].periods <= MaxPeriods[n]
  /\ \A w \in Callers, n \in Numbers :
       renewal[<<w, n>>].at # "idle" => renewal[<<w, n>>].from < MaxPeriods[n]
  /\ \A n \in Numbers \ (cut \cup erased) :
       row[n].periods > 1 /\ hold[Given(n)].status # "spent" =>
         \/ row[n].mark = "failed"
         \/ \E w \in Callers :
              renewal[<<w, n>>].at = "spend" /\ renewal[<<w, n>>].from = row[n].periods - 1

SessionInv ==
  /\ \A n \in Numbers : inbox[n] = "settle" => n \in got
  /\ \A s \in Sessions :
       /\ hold[Key[s]].for \in {NoNumber, Number[s]}
       /\ hold[Key[s]].status = "spent" => Number[s] \in got

(* The hold of a session is left open by its request.                      *)
LeftOpen == \A p \in Requests : request[p] = "spend" => Kind[p] # "verification"

NumbersInv ==
  /\ Types
  /\ LeftOpen
  /\ AnsweredIsPaid
  /\ TimeInv
  /\ OwnKeys => SessionInv

-----------------------------------------------------------------------------
(* Keys and holds.                                                         *)

LEMMA HoldsOf ==
  /\ \A p \in Requests : Key[p] \in Holds /\ Key[p] \in Keys /\ Number[p] \in Numbers
  /\ \A s \in Sessions : s \in Requests /\ Key[s] \in Verifications
  /\ Verifications \subseteq Holds
  /\ \A n \in Numbers, i \in Nat : <<n, i>> \notin Keys
  /\ \A n \in Numbers : NoNumber # n /\ MaxPeriods[n] \in Nat \ {0}
<1>1. \A p \in Requests : Key[p] \in Keys /\ Number[p] \in Numbers
  BY NumbersAssumption
<1>2. \A s \in Sessions : s \in Requests
  BY DEF Sessions
<1> QED
  BY <1>1, <1>2, NumbersAssumption DEF Holds, Verifications

LEMMA RenewalHold ==
  ASSUME NEW n \in Numbers, NEW i \in Nat, i >= 1, i < MaxPeriods[n]
  PROVE  <<n, i>> \in Holds
<1>1. MaxPeriods[n] \in Nat
  BY NumbersAssumption
<1>2. <<n, i>> \in {n} \X (1..(MaxPeriods[n] - 1))
  BY <1>1
<1> QED
  BY <1>2 DEF Holds, Renewals

LEMMA Typed ==
  ASSUME NumbersInv
  PROVE  /\ funds \in Nat /\ held \subseteq Numbers
         /\ hold \in [Holds -> HoldRows] /\ row \in [Numbers -> NumberRows]
         /\ request \in [Requests -> RequestSteps]
         /\ renewal \in [Callers \X Numbers -> RenewalRows]
         /\ order \in [Sessions -> OrderStatuses] /\ linked \subseteq Sessions
         /\ inbox \in [Numbers -> {"idle", "settle"}]
  BY DEF NumbersInv, Types, TypeOK, HoldRows, NumberRows

(* The wallet works on hold k, and a spent hold stays spent.               *)
Moves(k) ==
  /\ funds' \in Nat /\ hold' \in [Holds -> HoldRows]
  /\ \A j \in Holds : j # k => hold'[j] = hold[j]
  /\ \A j \in Holds : hold[j].status = "spent" => hold'[j].status = "spent"

LEMMA TakeMoves ==
  ASSUME NumbersInv, NEW k, NEW n \in Numbers \cup {NoNumber}, Take(k, n)
  PROVE  Moves(k) /\ (k \in Holds => hold'[k] = [status |-> "active", for |-> n])
<1> DEFINE h == [status |-> "active", for |-> n]
<1>1. h \in HoldRows
  BY DEF HoldRows, HoldStatuses
<1>2. /\ hold' = [hold EXCEPT ![k] = h] /\ funds' = funds - 1 /\ funds > 0
      /\ hold[k].status = "none"
  BY DEF Take
<1> HIDE DEF h
<1>3. /\ hold' \in [Holds -> HoldRows] /\ (k \in Holds => hold'[k] = h)
      /\ \A j \in Holds : j # k => hold'[j] = hold[j]
  BY <1>1, <1>2, Typed
<1>4. funds' \in Nat
  BY <1>2, Typed
<1>5. \A j \in Holds : hold[j].status = "spent" => hold'[j].status = "spent"
  BY <1>2, <1>3
<1> QED
  BY <1>3, <1>4, <1>5 DEF Moves, h

LEMMA StatusMoves ==
  ASSUME NumbersInv, NEW k, NEW s \in HoldStatuses, hold[k].status = "active",
         hold' = [hold EXCEPT ![k].status = s], funds' \in Nat
  PROVE  /\ Moves(k)
         /\ k \in Holds => hold'[k].status = s /\ hold'[k].for = hold[k].for
<1>1. k \in Holds => [hold[k] EXCEPT !.status = s] \in HoldRows
  BY Typed DEF HoldRows
<1>2. /\ k \in Holds => hold'[k] = [hold[k] EXCEPT !.status = s]
      /\ \A j \in Holds : j # k => hold'[j] = hold[j]
      /\ DOMAIN hold' = Holds /\ hold' = [j \in Holds |-> hold'[j]]
  BY Typed
<1>3. hold' \in [Holds -> HoldRows]
  BY <1>1, <1>2, Typed
<1>4. k \in Holds => hold'[k].status = s /\ hold'[k].for = hold[k].for
  BY <1>2, Typed DEF HoldRows
<1> QED
  BY <1>2, <1>3, <1>4 DEF Moves

LEMMA SpendMoves ==
  ASSUME NumbersInv, NEW k, Spend(k)
  PROVE  Moves(k) /\ (k \in Holds => hold'[k].status = "spent" /\ hold'[k].for = hold[k].for)
  BY StatusMoves, Typed DEF Spend, HoldStatuses

LEMMA ReturnMoves ==
  ASSUME NumbersInv, NEW k, NEW s \in {"released", "expired"}, Return(k, s)
  PROVE  Moves(k) /\ (k \in Holds => hold'[k].status = s /\ hold'[k].for = hold[k].for)
<1>1. s \in HoldStatuses /\ funds' \in Nat
  BY Typed DEF Return, HoldStatuses
<1> QED
  BY <1>1, StatusMoves DEF Return

LEMMA NothingMoves ==
  ASSUME NumbersInv, UNCHANGED wallet, NEW k
  PROVE  Moves(k)
  BY Typed DEF wallet, Moves

-----------------------------------------------------------------------------
(* A step that gives no time, starts and ends no renewal, answers no       *)
(* request and spends nothing.                                             *)
LEMMA QuietStep ==
  ASSUME NumbersInv, funds' \in Nat, hold' \in [Holds -> HoldRows],
         \A j \in Holds : /\ hold'[j].for = hold[j].for
                          /\ (hold'[j].status = "spent") <=> (hold[j].status = "spent"),
         row' \in [Numbers -> NumberRows],
         \A n \in Numbers : row'[n].periods = row[n].periods /\ row'[n].mark = row[n].mark,
         held' \subseteq Numbers, order' \in [Sessions -> OrderStatuses],
         linked' \subseteq Sessions, UNCHANGED <<request, renewal, cut, erased>>,
         got \subseteq got',
         inbox' \in [Numbers -> {"idle", "settle"}],
         \A n \in Numbers : inbox'[n] = "settle" => inbox[n] = "settle" \/ n \in got'
  PROVE  NumbersInv'
<1>1. Types'
  BY Typed DEF Types, TypeOK, HoldRows, NumberRows
<1>2. AnsweredIsPaid'
  BY HoldsOf DEF NumbersInv, AnsweredIsPaid
<1>3. TimeInv'
  <2>1. ASSUME NEW n \in Numbers, row[n].periods > 1
        PROVE  Given(n) \in Holds
    BY <2>1, RenewalHold, HoldsOf, Typed DEF NumbersInv, TimeInv, Given, NumberRows
  <2>2. cut' = cut /\ erased' = erased /\ TimeInv
    BY DEF NumbersInv
  <2> QED
    BY <2>1, <2>2 DEF TimeInv, Given
<1>4. OwnKeys => SessionInv'
  BY HoldsOf DEF NumbersInv, SessionInv
<1> QED
  BY <1>1, <1>2, <1>3, <1>4 DEF NumbersInv, LeftOpen

-----------------------------------------------------------------------------
(* A step of a provision request, on its hold and its number.              *)
LEMMA RequestStep ==
  ASSUME NumbersInv, NEW p \in Requests, NEW s \in RequestSteps, Step(p, s), Moves(Key[p]),
         row' \in [Numbers -> NumberRows], held' \subseteq Numbers,
         \A n \in Numbers :
           \/ /\ row'[n].periods = row[n].periods
              /\ row[n].mark = "failed" => row'[n].mark = "failed" \/ n \in erased'
           \/ row'[n].periods = 1,
         erased \subseteq erased',
         s = "spend" => Kind[p] # "verification",
         s = "ok" => Kind[p] = "verification" \/ hold'[Key[p]].status = "spent",
         hold'[Key[p]].for \in {hold[Key[p]].for, NoNumber, Number[p]},
         hold'[Key[p]].status = "spent"
         => hold[Key[p]].status = "spent" \/ Kind[p] # "verification",
         UNCHANGED <<renewal, cut, order, linked, got, inbox>>
  PROVE  NumbersInv'
<1>1. /\ request' \in [Requests -> RequestSteps] /\ request'[p] = s
      /\ \A q \in Requests : q # p => request'[q] = request[q]
  BY Typed DEF Step
<1>2. Types'
  BY <1>1, Typed DEF Types, TypeOK, HoldRows, NumberRows, Moves
<1>3. AnsweredIsPaid'
  BY <1>1, HoldsOf DEF NumbersInv, AnsweredIsPaid, Moves
<1>4. TimeInv'
  <2>1. ASSUME NEW n \in Numbers, row[n].periods > 1
        PROVE  Given(n) \in Holds
    BY <2>1, RenewalHold, HoldsOf, Typed DEF NumbersInv, TimeInv, Given, NumberRows
  <2>2. \A n \in Numbers : row[n].periods \in Nat /\ MaxPeriods[n] \in Nat \ {0}
    BY Typed, HoldsOf DEF NumberRows
  <2>3. ASSUME NEW n \in Numbers \ (cut \cup erased'), row'[n].periods > 1,
               hold'[<<n, row'[n].periods - 1>>].status # "spent"
        PROVE  /\ row'[n].periods = row[n].periods
               /\ row[n].mark = "failed" => row'[n].mark = "failed"
               /\ row[n].periods > 1 /\ hold[Given(n)].status # "spent"
    BY <2>1, <2>3 DEF Given, Moves
  <2>4. \A n \in Numbers : row'[n].periods <= MaxPeriods[n]
    BY <2>2 DEF NumbersInv, TimeInv
  <2>5. ASSUME NEW n \in Numbers \ (cut \cup erased'), row'[n].periods > 1,
               hold'[<<n, row'[n].periods - 1>>].status # "spent"
        PROVE  \/ row'[n].mark = "failed"
               \/ \E w \in Callers : /\ renewal[<<w, n>>].at = "spend"
                                    /\ renewal[<<w, n>>].from = row'[n].periods - 1
    BY <2>3, <2>5 DEF NumbersInv, TimeInv
  <2> QED
    BY <2>4, <2>5 DEF NumbersInv, TimeInv, Given
<1>5. ASSUME OwnKeys
      PROVE  SessionInv'
  <2>1. ASSUME NEW t \in Sessions
        PROVE  /\ hold'[Key[t]].for \in {NoNumber, Number[t]}
               /\ hold'[Key[t]].status = "spent" => Number[t] \in got
    <3>1. CASE Key[t] = Key[p]
      <4>1. t = p /\ Kind[p] = "verification"
        BY <1>5, <3>1 DEF OwnKeys, Sessions
      <4> QED
        BY <1>5, <4>1 DEF NumbersInv, SessionInv
    <3>2. CASE Key[t] # Key[p]
      BY <1>5, <3>2, HoldsOf DEF NumbersInv, SessionInv, Moves
    <3> QED
      BY <3>1, <3>2
  <2> QED
    BY <1>5, <2>1 DEF NumbersInv, SessionInv
<1>6. LeftOpen'
  BY <1>1 DEF NumbersInv, LeftOpen
<1> QED
  BY <1>2, <1>3, <1>4, <1>5, <1>6 DEF NumbersInv

LEMMA ProvisionStep ==
  ASSUME NumbersInv, NEW p \in Requests, Provision(p) \/ Crash(p), UNCHANGED hubvars
  PROVE  NumbersInv'
<1> DEFINE k == Key[p]
           n == Number[p]
<1>1. k \in Holds /\ n \in Numbers /\ {"idle", "buy", "save", "rebind", "link", "spend",
                                        "give back", "ok", "failed"} = RequestSteps
  BY HoldsOf DEF RequestSteps
<1>2. /\ UNCHANGED <<renewal, cut, order, linked, got, inbox>>
      /\ ~Link(p) => UNCHANGED erased
      /\ erased \subseteq erased'
  BY DEF hubvars, Provision, Lock, LockFails, Buy, BuyFails, Save, SaveFails, Rebind, Link, Rewrite,
         Charge, ChargeRefused, WriteFails, GiveBack, Crash, others, aside
<1>3. held \subseteq Numbers /\ row \in [Numbers -> NumberRows] /\ Ordered(n) \subseteq Numbers
      /\ hold \in [Holds -> HoldRows]
  BY <1>1, Typed DEF Ordered
<1>4. ASSUME NEW s \in RequestSteps, Step(p, s), s \notin {"ok", "spend"},
             UNCHANGED <<wallet, row>>,
             held' \subseteq Numbers
      PROVE  NumbersInv'
  <2>1. Moves(k) /\ hold' = hold /\ row' = row
    BY <1>4, NothingMoves DEF wallet
  <2>2. row' \in [Numbers -> NumberRows] /\ held' \subseteq Numbers
        /\ \A m \in Numbers : row'[m].periods = row[m].periods /\ row'[m].mark = row[m].mark
    BY <1>3, <1>4, <2>1
  <2>3. s # "ok" /\ s # "spend"
    BY <1>4
  <2> QED
    BY <1>2, <1>4, <2>1, <2>2, <2>3, RequestStep
<1>5. CASE Lock(p)
  <2>1. ASSUME Take(k, NoNumber)
        PROVE  Moves(k) /\ hold'[k].for = NoNumber /\ hold'[k].status = "active"
    <3>1. NoNumber \in Numbers \cup {NoNumber}
      OBVIOUS
    <3>2. Moves(k) /\ hold'[k] = [status |-> "active", for |-> NoNumber]
      BY <1>1, <2>1, <3>1, TakeMoves
    <3> QED
      BY <3>2
  <2>2. ASSUME UNCHANGED wallet
        PROVE  Moves(k) /\ hold'[k] = hold[k]
    BY <2>2, NothingMoves DEF wallet
  <2>3. Moves(k) /\ hold'[k].for \in {hold[k].for, NoNumber}
        /\ (hold'[k].status = "spent" => hold[k].status = "spent")
    BY <1>5, <2>1, <2>2 DEF Lock
  <2> QED
    BY <1>1, <1>2, <1>3, <1>5, <2>3, RequestStep DEF Lock
<1>6. CASE LockFails(p)
  BY <1>1, <1>3, <1>4, <1>6 DEF LockFails
<1>7. CASE Buy(p)
  BY <1>1, <1>3, <1>4, <1>7 DEF Buy
<1>8. CASE BuyFails(p)
  BY <1>1, <1>3, <1>4, <1>8 DEF BuyFails
<1>9. CASE Save(p)
  <2> DEFINE x == [status |-> "active", periods |-> 1, mark |-> "none",
                   auto |-> Kind[p] = "rental", verify |-> Kind[p] = "verification"]
  <2>1. x \in NumberRows /\ x.periods = 1
    BY DEF NumberRows, NumberStatuses
  <2>2. row' = [row EXCEPT ![n] = x] /\ UNCHANGED wallet /\ Step(p, "rebind") /\ held' = held
    BY <1>9 DEF Save
  <2> HIDE DEF x
  <2>3. row' \in [Numbers -> NumberRows] /\ row'[n].periods = 1
        /\ \A m \in Numbers : m # n => row'[m] = row[m]
    BY <1>1, <1>3, <2>1, <2>2
  <2> QED
    BY <1>1, <1>2, <1>3, <2>2, <2>3, NothingMoves, RequestStep DEF wallet
<1>10. CASE SaveFails(p)
  BY <1>1, <1>3, <1>4, <1>10 DEF SaveFails
<1>11. CASE Rebind(p)
  <2> DEFINE x == [hold[k] EXCEPT !.for = n]
  <2>1. x \in HoldRows /\ x.for = n /\ x.status = hold[k].status
    BY <1>1, <1>3 DEF HoldRows
  <2>2. hold' = [hold EXCEPT ![k] = x] /\ funds' = funds /\ row' = row /\ held' = held
    BY <1>11 DEF Rebind
  <2> HIDE DEF x
  <2>3. /\ hold' \in [Holds -> HoldRows] /\ hold'[k] = x
        /\ \A j \in Holds : j # k => hold'[j] = hold[j]
    BY <1>1, <1>3, <2>1, <2>2
  <2>4. Moves(k)
    BY <2>1, <2>2, <2>3, Typed DEF Moves
  <2>5. hold'[k].for = n /\ hold'[k].status = hold[k].status
    BY <2>1, <2>3
  <2>6. Step(p, "link")
    BY <1>11 DEF Rebind
  <2> QED
    BY <1>1, <1>2, <1>3, <2>2, <2>4, <2>5, <2>6, RequestStep
<1>12. CASE Charge(p)
  <2>1. ASSUME Spend(k)
        PROVE  Moves(k) /\ hold'[k].status = "spent" /\ hold'[k].for = hold[k].for
    BY <1>1, <2>1, SpendMoves
  <2>2. ASSUME hold[k].status = "spent", UNCHANGED wallet
        PROVE  Moves(k) /\ hold'[k] = hold[k] /\ hold'[k].status = "spent"
    BY <2>2, NothingMoves DEF wallet
  <2>3. Moves(k) /\ hold'[k].for = hold[k].for /\ hold'[k].status = "spent"
    BY <1>12, <2>1, <2>2 DEF Charge
  <2>4. request[p] = "spend" /\ Kind[p] # "verification"
    BY <1>12 DEF Charge, NumbersInv, LeftOpen
  <2> QED
    BY <1>1, <1>2, <1>3, <1>12, <2>3, <2>4, RequestStep DEF Charge
<1>13. CASE ChargeRefused(p)
  BY <1>1, <1>3, <1>4, <1>13 DEF ChargeRefused
<1>14. CASE WriteFails(p)
  BY <1>1, <1>3, <1>4, <1>14 DEF WriteFails
<1>15. CASE GiveBack(p)
  <2>1. ASSUME Return(k, "released")
        PROVE  Moves(k) /\ hold'[k].status = "released" /\ hold'[k].for = hold[k].for
    BY <1>1, <2>1, ReturnMoves
  <2>2. ASSUME UNCHANGED wallet
        PROVE  Moves(k) /\ hold'[k] = hold[k]
    BY <2>2, NothingMoves DEF wallet
  <2>3. Moves(k) /\ hold'[k].for = hold[k].for
        /\ (hold'[k].status = "spent" => hold[k].status = "spent")
    BY <1>15, <2>1, <2>2 DEF GiveBack
  <2> QED
    BY <1>1, <1>2, <1>3, <1>15, <2>3, RequestStep DEF GiveBack
<1>16. CASE Crash(p)
  BY <1>1, <1>3, <1>4, <1>16 DEF Crash
<1>17. CASE Link(p)
  <2> DEFINE x == [row[n] EXCEPT !.mark = "none"]
  <2>1. x \in NumberRows /\ x.periods = row[n].periods
    BY <1>1, <1>3 DEF NumberRows
  <2>2. row' = [row EXCEPT ![n] = x] /\ UNCHANGED wallet /\ held' = held
    BY <1>17 DEF Link, Rewrite
  <2> HIDE DEF x
  <2>3. row' \in [Numbers -> NumberRows] /\ row'[n] = x
        /\ \A m \in Numbers : m # n => row'[m] = row[m]
    BY <1>1, <1>3, <2>1, <2>2
  <2>4. row[n].mark = "failed" => n \in erased'
    BY <1>17 DEF Link, Rewrite
  <2>5. Moves(k) /\ hold' = hold
    BY <2>2, NothingMoves DEF wallet
  <2>6. CASE Kind[p] = "verification"
    <3>1. Step(p, "ok")
      BY <1>17, <2>6 DEF Link
    <3> QED
      BY <1>1, <1>2, <1>3, <2>1, <2>2, <2>3, <2>4, <2>5, <2>6, <3>1, RequestStep
  <2>7. CASE Kind[p] # "verification"
    <3>1. Step(p, "spend")
      BY <1>17, <2>7 DEF Link
    <3> QED
      BY <1>1, <1>2, <1>3, <2>1, <2>2, <2>3, <2>4, <2>5, <2>7, <3>1, RequestStep
  <2> QED
    BY <2>6, <2>7
<1> QED
  BY <1>5, <1>6, <1>7, <1>8, <1>9, <1>10, <1>11, <1>12, <1>13, <1>14, <1>15, <1>16, <1>17
  DEF Provision

-----------------------------------------------------------------------------
(* A step of a renewal, on the hold of the period it read.                 *)
LEMMA RenewalStep ==
  ASSUME NumbersInv, NEW w \in Callers, NEW n \in Numbers,
         NEW k, k = <<n, renewal[<<w, n>>].from>>, Moves(k),
         NEW r \in RenewalRows, renewal' = [renewal EXCEPT ![<<w, n>>] = r],
         r.at # "idle" => r.from < MaxPeriods[n],
         row' \in [Numbers -> NumberRows], row'[n].periods <= MaxPeriods[n],
         \A m \in Numbers : m # n => row'[m] = row[m],
         cut \subseteq cut', cut' \subseteq cut \cup {n},
         \/ row'[n].mark = "failed"
         \/ n \in cut'
         \/ r.at = "spend" /\ row'[n].periods = r.from + 1
         \/ /\ row'[n].periods = row[n].periods /\ row'[n].mark = row[n].mark
            /\ renewal[<<w, n>>].at = "spend" /\ k \in Holds => hold'[k].status = "spent",
         UNCHANGED <<erased, held, request, order, linked, got, inbox>>
  PROVE  NumbersInv'
<1>1. /\ renewal' \in [Callers \X Numbers -> RenewalRows] /\ renewal'[<<w, n>>] = r
      /\ \A v \in Callers, m \in Numbers :
           <<v, m>> # <<w, n>> => renewal'[<<v, m>>] = renewal[<<v, m>>]
  BY Typed
<1>2. Types'
  BY <1>1, Typed DEF Types, TypeOK, HoldRows, NumberRows, Moves
<1>3. AnsweredIsPaid'
  BY HoldsOf DEF NumbersInv, AnsweredIsPaid, Moves
<1>4. renewal[<<w, n>>].from \in Nat /\ k \notin Keys
  BY HoldsOf, Typed DEF RenewalRows
<1>5. OwnKeys => SessionInv'
  BY <1>4, HoldsOf DEF NumbersInv, SessionInv, Moves
<1>6. ASSUME NEW m \in Numbers \ (cut' \cup erased), row'[m].periods > 1,
             hold'[<<m, row'[m].periods - 1>>].status # "spent"
      PROVE  \/ row'[m].mark = "failed"
             \/ \E v \in Callers : /\ renewal'[<<v, m>>].at = "spend"
                                  /\ renewal'[<<v, m>>].from = row'[m].periods - 1
  <2>1. CASE row'[m].periods = row[m].periods /\ row'[m].mark = row[m].mark
                /\ m \notin cut \cup erased
    <3>1. row[m].periods \in Nat /\ MaxPeriods[m] \in Nat /\ row[m].periods <= MaxPeriods[m]
      BY HoldsOf, Typed DEF NumbersInv, TimeInv, NumberRows
    <3>2. Given(m) \in Holds /\ row[m].periods > 1 /\ hold[Given(m)].status # "spent"
      BY <1>6, <2>1, <3>1, RenewalHold DEF Given, Moves
    <3>3. CASE row[m].mark = "failed"
      BY <2>1, <3>3
    <3>4. ASSUME NEW v \in Callers, renewal[<<v, m>>].at = "spend",
                 renewal[<<v, m>>].from = row[m].periods - 1
          PROVE  \/ row'[m].mark = "failed"
                 \/ <<v, m>> # <<w, n>> \/ (r.at = "spend" /\ r.from = row'[m].periods - 1)
      <4>1. CASE <<v, m>> = <<w, n>>
        <5>1. k = Given(m) /\ v = w /\ m = n
          BY <3>4, <4>1 DEF Given
        <5>2. hold'[k].status # "spent"
          BY <1>6, <2>1, <5>1 DEF Given
        <5>3. r.from \in Nat
          BY DEF RenewalRows
        <5> QED
          BY <1>6, <3>1, <3>2, <3>4, <5>1, <5>2, <5>3
      <4> QED
        BY <4>1
    <3>5. \/ row[m].mark = "failed"
          \/ \E v \in Callers : /\ renewal[<<v, m>>].at = "spend"
                               /\ renewal[<<v, m>>].from = row[m].periods - 1
      BY <2>1, <3>2 DEF NumbersInv, TimeInv
    <3> QED
      BY <1>1, <2>1, <3>3, <3>4, <3>5
  <2>2. CASE r.at = "spend" /\ row'[m].periods = r.from + 1 /\ m = n
    BY <1>1, <2>2 DEF RenewalRows
  <2>3. CASE row'[m].mark = "failed"
    BY <2>3
  <2>4. m # n => row'[m] = row[m]
    BY <1>6
  <2>5. m \notin cut \cup erased
    BY <1>6
  <2> QED
    BY <1>6, <2>1, <2>2, <2>3, <2>4, <2>5
<1>7. TimeInv'
  BY <1>1, <1>6 DEF NumbersInv, TimeInv, Given
<1> QED
  BY <1>2, <1>3, <1>5, <1>7 DEF NumbersInv, LeftOpen

LEMMA ExtendedRow ==
  ASSUME NEW y \in NumberRows, NEW i \in Nat
  PROVE  LET x == [y EXCEPT !.status = "active", !.mark = "paid", !.periods = i]
         IN x \in NumberRows /\ x.periods = i
  BY DEF NumberRows, NumberStatuses

LEMMA RenewalsStep ==
  ASSUME NumbersInv, NEW w \in Callers, NEW n \in Numbers, Renew(w, n), UNCHANGED hubvars
  PROVE  NumbersInv'
<1> DEFINE old == renewal[<<w, n>>]
           k == <<n, old.from>>
<1>1. UNCHANGED <<erased, held, request, order, linked, got, inbox>>
  BY DEF hubvars, Renew, ReadForRenewal, LockRenewal, RefuseRenewal, Extend, ChargeRenewal,
         FailRenewal, ReleaseRenewal, StopRenewal, kept, rest
<1>2. /\ old \in RenewalRows /\ renewal \in [Callers \X Numbers -> RenewalRows]
      /\ row \in [Numbers -> NumberRows] /\ row[n] \in NumberRows
      /\ old.at # "idle" => old.from < MaxPeriods[n]
      /\ row[n].periods \in Nat /\ old.from \in Nat /\ row[n].periods <= MaxPeriods[n]
      /\ MaxPeriods[n] \in Nat
  BY HoldsOf, Typed DEF NumbersInv, TimeInv, RenewalRows, NumberRows
<1>3. NoRenewal \in RenewalRows /\ NoRenewal.at = "idle"
  BY DEF NoRenewal, RenewalRows, RenewalSteps
(* The caller goes on to another step, and the row stays.                  *)
<1>4. ASSUME NEW s \in RenewalSteps, RenewStep(w, n, s), Moves(k), UNCHANGED <<row, cut>>,
             old.at \notin {"idle", "spend"}
      PROVE  NumbersInv'
  <2> DEFINE r == [old EXCEPT !.at = s]
  <2>1. r \in RenewalRows /\ r.from = old.from /\ renewal' = [renewal EXCEPT ![<<w, n>>] = r]
    BY <1>2, <1>4 DEF RenewalRows, RenewStep
  <2> HIDE DEF r
  <2> QED
    BY <1>1, <1>2, <1>4, <2>1, RenewalStep
(* The caller is done, and the row stays.                                  *)
<1>5. ASSUME EndRenewal(w, n), Moves(k), UNCHANGED <<row, cut>>,
             old.at = "spend" /\ k \in Holds => hold'[k].status = "spent"
      PROVE  NumbersInv'
  <2>1. renewal' = [renewal EXCEPT ![<<w, n>>] = NoRenewal]
    BY <1>5 DEF EndRenewal
  <2> QED
    BY <1>1, <1>2, <1>3, <1>5, <2>1, RenewalStep
<1>6. CASE ReadForRenewal(w, n)
  <2> DEFINE r == [at |-> "lock", from |-> row[n].periods]
  <2>1. r \in RenewalRows /\ r.from < MaxPeriods[n]
    BY <1>2, <1>6 DEF ReadForRenewal, RenewalRows, RenewalSteps
  <2>2. /\ renewal' = [renewal EXCEPT ![<<w, n>>] = r] /\ old.at = "idle"
        /\ UNCHANGED <<wallet, row, cut>>
    BY <1>6 DEF ReadForRenewal, kept
  <2>3. Moves(k)
    BY <2>2, NothingMoves
  <2> HIDE DEF r
  <2> QED
    BY <1>1, <1>2, <2>1, <2>2, <2>3, RenewalStep
<1>7. CASE LockRenewal(w, n)
  <2>1. Moves(k)
    BY <1>7, TakeMoves, NothingMoves DEF LockRenewal
  <2> QED
    BY <1>4, <1>7, <2>1 DEF LockRenewal, kept, RenewalSteps
<1>8. CASE RefuseRenewal(w, n)
  <2>1. Moves(k)
    BY <1>8, NothingMoves DEF RefuseRenewal
  <2> QED
    BY <1>5, <1>8, <2>1 DEF RefuseRenewal, kept
<1>9. CASE Extend(w, n)
  <2> DEFINE r == [old EXCEPT !.at = "spend"]
             x == [row[n] EXCEPT !.status = "active", !.mark = "paid", !.periods = old.from + 1]
  <2>1. /\ r \in RenewalRows /\ r.at = "spend" /\ r.from = old.from
        /\ renewal' = [renewal EXCEPT ![<<w, n>>] = r]
    BY <1>2, <1>9 DEF RenewalRows, RenewalSteps, Extend, RenewStep
  <2>2. x \in NumberRows /\ x.periods = old.from + 1 /\ old.from + 1 <= MaxPeriods[n]
    <3>1. old.at = "extend" /\ old.from + 1 \in Nat /\ old.from < MaxPeriods[n]
      BY <1>2, <1>9 DEF Extend
    <3>2. old.from + 1 <= MaxPeriods[n]
      BY <1>2, <3>1
    <3> HIDE DEF old
    <3> QED
      BY <1>2, <3>1, <3>2, ExtendedRow
  <2>3. row' = [row EXCEPT ![n] = x] /\ UNCHANGED <<wallet, cut>>
    BY <1>2, <1>9 DEF Extend, kept
  <2>4. Moves(k)
    BY <2>3, NothingMoves
  <2> HIDE DEF r, x
  <2>5. row' \in [Numbers -> NumberRows] /\ row'[n] = x
        /\ \A m \in Numbers : m # n => row'[m] = row[m]
    BY <1>2, <2>2, <2>3
  <2>6. row'[n].periods = r.from + 1 /\ row'[n].periods <= MaxPeriods[n] /\ cut' = cut
        /\ r.from < MaxPeriods[n]
    BY <1>2, <1>9, <2>1, <2>2, <2>3, <2>5 DEF Extend
  <2> QED
    BY <1>1, <2>1, <2>4, <2>5, <2>6, RenewalStep
<1>10. CASE ChargeRenewal(w, n)
  <2>1. ASSUME Spend(k)
        PROVE  Moves(k) /\ (k \in Holds => hold'[k].status = "spent")
    BY <2>1, SpendMoves
  <2>2. ASSUME hold[k].status = "spent", UNCHANGED wallet
        PROVE  Moves(k) /\ (k \in Holds => hold'[k].status = "spent")
    BY <2>2, NothingMoves DEF wallet
  <2> QED
    BY <1>5, <1>10, <2>1, <2>2 DEF ChargeRenewal, kept
<1>11. CASE FailRenewal(w, n)
  <2> DEFINE r == [old EXCEPT !.at = "release"]
             x == [row[n] EXCEPT !.mark = "failed"]
  <2>1. /\ r \in RenewalRows /\ r.from = old.from /\ old.at # "idle"
        /\ renewal' = [renewal EXCEPT ![<<w, n>>] = r]
    BY <1>2, <1>11 DEF RenewalRows, RenewalSteps, FailRenewal, RenewalFails, RenewStep
  <2>2. x \in NumberRows /\ x.mark = "failed" /\ x.periods = row[n].periods
    BY <1>2 DEF NumberRows
  <2>3. row' = [row EXCEPT ![n] = x] /\ UNCHANGED <<wallet, cut>>
    BY <1>2, <1>11 DEF FailRenewal, kept
  <2>4. Moves(k)
    BY <2>3, NothingMoves
  <2> HIDE DEF r, x
  <2>5. row' \in [Numbers -> NumberRows] /\ row'[n] = x
        /\ \A m \in Numbers : m # n => row'[m] = row[m]
    BY <1>2, <2>2, <2>3
  <2> QED
    BY <1>1, <1>2, <2>1, <2>2, <2>3, <2>4, <2>5, RenewalStep
<1>12. CASE ReleaseRenewal(w, n)
  <2>1. Moves(k)
    BY <1>12, ReturnMoves, NothingMoves DEF ReleaseRenewal
  <2> QED
    BY <1>5, <1>12, <2>1 DEF ReleaseRenewal, kept
<1>13. CASE StopRenewal(w, n)
  <2>1. /\ renewal' = [renewal EXCEPT ![<<w, n>>] = NoRenewal] /\ UNCHANGED <<wallet, row>>
        /\ cut' = cut \cup {n}
    BY <1>13 DEF StopRenewal, EndRenewal
  <2>2. Moves(k)
    BY <2>1, NothingMoves
  <2> QED
    BY <1>1, <1>2, <1>3, <2>1, <2>2, RenewalStep
<1> QED
  BY <1>6, <1>7, <1>8, <1>9, <1>10, <1>11, <1>12, <1>13 DEF Renew

-----------------------------------------------------------------------------
(* Everything else on numbers and holds.                                   *)

(* A step that leaves requests and renewals, returns hold k or none, and   *)
(* changes at most the status of a row.                                    *)
LEMMA RestStep ==
  ASSUME NumbersInv, NEW k,
         UNCHANGED wallet \/ Return(k, "released") \/ Return(k, "expired"),
         NEW n, NEW s \in NumberStatuses, row' \in {row, [row EXCEPT ![n].status = s]},
         held' \subseteq Numbers, order' \in [Sessions -> OrderStatuses],
         linked' \subseteq Sessions, UNCHANGED <<request, renewal, cut, erased>>,
         got \subseteq got',
         inbox' \in [Numbers -> {"idle", "settle"}],
         \A m \in Numbers : inbox'[m] = "settle" => inbox[m] = "settle" \/ m \in got'
  PROVE  NumbersInv'
<1>1. /\ funds' \in Nat /\ hold' \in [Holds -> HoldRows]
      /\ \A j \in Holds : /\ hold'[j].for = hold[j].for
                          /\ (hold'[j].status = "spent") <=> (hold[j].status = "spent")
  <2>1. CASE UNCHANGED wallet
    <3>1. hold' = hold /\ funds' = funds
      BY <2>1 DEF wallet
    <3> QED
      BY <3>1, Typed
  <2>2. ASSUME NEW t \in {"released", "expired"}, Return(k, t)
        PROVE  /\ funds' \in Nat /\ hold' \in [Holds -> HoldRows]
               /\ \A j \in Holds : /\ hold'[j].for = hold[j].for
                                   /\ (hold'[j].status = "spent") <=> (hold[j].status = "spent")
    <3>1. Moves(k) /\ (k \in Holds => hold'[k].status = t /\ hold'[k].for = hold[k].for)
      BY <2>2, ReturnMoves
    <3>2. hold[k].status = "active"
      BY <2>2 DEF Return
    <3>3. ASSUME NEW j \in Holds
          PROVE  /\ hold'[j].for = hold[j].for
                 /\ (hold'[j].status = "spent") <=> (hold[j].status = "spent")
      <4>1. CASE j = k
        BY <2>2, <3>1, <3>2, <4>1
      <4>2. CASE j # k
        BY <3>1, <4>2 DEF Moves
      <4> QED
        BY <4>1, <4>2
    <3> QED
      BY <3>1, <3>3 DEF Moves
  <2> QED
    BY <2>1, <2>2
<1>2. row' \in [Numbers -> NumberRows]
      /\ \A m \in Numbers : row'[m].periods = row[m].periods /\ row'[m].mark = row[m].mark
  <2>1. CASE row' = row
    BY <2>1, Typed
  <2>2. CASE row' = [row EXCEPT ![n].status = s]
    <3> DEFINE x == [row[n] EXCEPT !.status = s]
    <3>1. n \in Numbers => x \in NumberRows /\ x.periods = row[n].periods /\ x.mark = row[n].mark
      <4>1. n \in Numbers => row[n] \in NumberRows
        BY Typed
      <4> QED
        BY <4>1 DEF NumberRows
    <3>2. row' = [row EXCEPT ![n] = x]
      BY <2>2
    <3> HIDE DEF x
    <3> QED
      BY <3>1, <3>2, Typed
  <2> QED
    BY <2>1, <2>2
<1> QED
  BY <1>1, <1>2, QuietStep

LEMMA WalletAndRow ==
  ASSUME NumbersInv, NEW k,
         UNCHANGED wallet \/ Return(k, "released") \/ Return(k, "expired"),
         NEW n, NEW s \in NumberStatuses, row' \in {row, [row EXCEPT ![n].status = s]},
         held' \subseteq Numbers,
         UNCHANGED <<request, renewal, cut, erased, order, linked, got, inbox>>
  PROVE  NumbersInv'
  BY RestStep, Typed

LEMMA FreeHoldMoves ==
  ASSUME NEW n, FreeHold(n)
  PROVE  \E k : UNCHANGED wallet \/ Return(k, "released") \/ Return(k, "expired")
  BY DEF FreeHold

LEMMA ReleasingStep ==
  ASSUME NumbersInv, NEW n \in Numbers,
         \/ ReleaseAtCarrier(n) \/ MarkReleased(n) \/ FreeReleased(n) \/ StopRelease(n),
         UNCHANGED <<order, linked, got, inbox>>
  PROVE  NumbersInv'
<1>1. "released" \in NumberStatuses /\ held \subseteq Numbers /\ Disconnected(n) \subseteq Numbers
  BY Typed DEF NumberStatuses, Disconnected
<1>2. /\ held' \subseteq Numbers
      /\ UNCHANGED <<request, renewal, cut, erased, order, linked, got, inbox>>
  BY <1>1 DEF ReleaseAtCarrier, MarkReleased, FreeReleased, StopRelease, still
<1>3. row' \in {row, [row EXCEPT ![n].status = "released"]}
  BY DEF ReleaseAtCarrier, MarkReleased, FreeReleased, StopRelease
<1>4. \E k : UNCHANGED wallet \/ Return(k, "released") \/ Return(k, "expired")
  BY FreeHoldMoves DEF ReleaseAtCarrier, MarkReleased, FreeReleased, StopRelease
<1> QED
  BY <1>1, <1>2, <1>3, <1>4, WalletAndRow

LEMMA ExpiryStep ==
  ASSUME NumbersInv, ExpiryJobs, UNCHANGED <<order, linked, got, inbox>>
  PROVE  NumbersInv'
<1>1. "expired" \in NumberStatuses /\ held \subseteq Numbers
  BY Typed DEF NumberStatuses
<1>2. UNCHANGED <<held, request, renewal, cut, erased, order, linked, got, inbox>>
  BY DEF ExpiryJobs, FindExpiring, StopJob, ExpireNumber, ExpireHold, ListHold, ExpireListed,
         ExpireVerification, unheard
<1>3. ASSUME NEW k, UNCHANGED wallet \/ Return(k, "expired"), UNCHANGED row
      PROVE  NumbersInv'
  BY <1>1, <1>2, <1>3, WalletAndRow
<1>4. ASSUME NEW n, UNCHANGED wallet, row' \in {row, [row EXCEPT ![n].status = "expired"]}
      PROVE  NumbersInv'
  BY <1>1, <1>2, <1>4, WalletAndRow
<1>5. CASE FindExpiring \/ StopJob
  BY <1>4, <1>5 DEF FindExpiring, StopJob
<1>6. ASSUME NEW n \in Numbers, ExpireNumber(n)
      PROVE  NumbersInv'
  BY <1>4, <1>6 DEF ExpireNumber
<1>7. ASSUME NEW k \in Holds, ExpireHold(k)
      PROVE  NumbersInv'
  BY <1>3, <1>7 DEF ExpireHold
<1>8. ASSUME NEW k \in Verifications, ListHold(k) \/ ExpireListed(k)
      PROVE  NumbersInv'
  BY <1>3, <1>8 DEF ListHold, ExpireListed
<1>9. ASSUME NEW k \in Verifications, ExpireVerification(k)
      PROVE  NumbersInv'
  BY <1>4, <1>9 DEF ExpireVerification
<1> QED
  BY <1>5, <1>6, <1>7, <1>8, <1>9 DEF ExpiryJobs

(* A message settles the open hold of its number.                          *)
LEMMA SettleStep ==
  ASSUME NumbersInv, NEW n \in Numbers, Settle(n)
  PROVE  NumbersInv'
<1>1. UNCHANGED <<held, row, request, renewal, cut, erased, order, linked, got>>
      /\ inbox[n] = "settle" /\ inbox' \in [Numbers -> {"idle", "settle"}]
      /\ \A m \in Numbers : inbox'[m] = "settle" => inbox[m] = "settle"
  BY Typed DEF Settle
<1>2. CASE UNCHANGED wallet
  <2>1. hold' = hold /\ funds' = funds
    BY <1>2 DEF wallet
  <2> QED
    BY <1>1, <2>1, Typed, QuietStep
<1>3. ASSUME NEW k \in HoldOf(n), Spend(k)
      PROVE  NumbersInv'
  <2>1. k \in Verifications /\ k \in Holds /\ hold[k].for = n
    BY <1>3, HoldsOf DEF HoldOf
  <2>2. Moves(k) /\ hold'[k].status = "spent" /\ hold'[k].for = n
    BY <1>3, <2>1, SpendMoves
  <2>3. Types'
    BY <1>1, <2>2, Typed DEF Types, TypeOK, HoldRows, NumberRows, Moves
  <2>4. AnsweredIsPaid' /\ LeftOpen'
    BY <1>1, <2>2, HoldsOf DEF NumbersInv, AnsweredIsPaid, LeftOpen, Moves
  <2>5. TimeInv'
    <3>1. ASSUME NEW m \in Numbers, row[m].periods > 1
          PROVE  Given(m) \in Holds
      BY <3>1, RenewalHold, HoldsOf, Typed DEF NumbersInv, TimeInv, Given, NumberRows
    <3>2. row' = row /\ renewal' = renewal /\ cut' = cut /\ erased' = erased
      BY <1>1
    <3> QED
      BY <2>2, <3>1, <3>2 DEF NumbersInv, TimeInv, Given, Moves
  <2>6. ASSUME OwnKeys
        PROVE  SessionInv'
    <3>1. PICK t \in Sessions : k = Key[t]
      BY <2>1 DEF Verifications
    <3>2. SessionInv /\ NoNumber # n /\ n \in got
      BY <1>1, <2>6, HoldsOf DEF NumbersInv, SessionInv
    <3>3. Number[t] = n
      BY <2>1, <3>1, <3>2 DEF SessionInv
    <3>4. \A u \in Sessions : u # t => Key[u] # k
      BY <2>6, <3>1, HoldsOf DEF OwnKeys
    <3> QED
      BY <1>1, <2>2, <3>1, <3>2, <3>3, <3>4, HoldsOf DEF SessionInv, Moves
  <2> QED
    BY <2>3, <2>4, <2>5, <2>6 DEF NumbersInv
<1> QED
  BY <1>2, <1>3 DEF Settle

-----------------------------------------------------------------------------
(* Steps of orders, and of the inbox, that leave numbers and holds alone.  *)
LEMMA HubStep ==
  ASSUME NumbersInv, UNCHANGED nvars,
         order' \in [Sessions -> OrderStatuses], linked' \subseteq Sessions, got \subseteq got',
         inbox' \in [Numbers -> {"idle", "settle"}],
         \A n \in Numbers : inbox'[n] = "settle" => inbox[n] = "settle" \/ n \in got'
  PROVE  NumbersInv'
<1>1. UNCHANGED <<funds, hold, row, held, request, renewal, cut, erased>>
  BY DEF nvars
<1> QED
  BY <1>1, Typed, QuietStep

LEMMA OrderStep ==
  ASSUME NumbersInv, NEW s \in Sessions,
         \/ CheckActive(s) \/ SaveOrder(s) \/ Answer(s) \/ StopCreating(s)
         \/ ReadForCancel(s) \/ MarkCancelled(s) \/ ListOrder(s) \/ MarkExpired(s)
         \/ FreeExpired(s)
  PROVE  NumbersInv'
<1>1. order \in [Sessions -> OrderStatuses] /\ linked \subseteq Sessions
      /\ {"provisioning", "waiting", "failed", "cancelled", "expired"} \subseteq OrderStatuses
      /\ s \in Requests /\ Number[s] \in Numbers
  BY Typed, HoldsOf DEF OrderStatuses, Open
<1>2. UNCHANGED <<got, inbox>>
  BY DEF CheckActive, SaveOrder, Answer, StopCreating, ReadForCancel, MarkCancelled, ListOrder,
         MarkExpired, FreeExpired
<1>3. ASSUME UNCHANGED nvars, order' \in [Sessions -> OrderStatuses], linked' \subseteq Sessions
      PROVE  NumbersInv'
  BY <1>2, <1>3, HubStep, Typed
<1>4. CASE CheckActive(s) \/ ListOrder(s)
  BY <1>1, <1>3, <1>4 DEF CheckActive, ListOrder
<1>5. ASSUME NEW t \in OrderStatuses, SetOrder(s, t)
      PROVE  order' \in [Sessions -> OrderStatuses]
  BY <1>1, <1>5 DEF SetOrder
<1>6. CASE SaveOrder(s) \/ MarkCancelled(s) \/ MarkExpired(s)
  BY <1>1, <1>3, <1>5, <1>6 DEF SaveOrder, MarkCancelled, MarkExpired
<1>7. CASE Answer(s)
  BY <1>1, <1>3, <1>5, <1>7 DEF Answer
<1>8. CASE StopCreating(s)
  <2>1. UNCHANGED <<order, linked, got, inbox>>
    BY <1>8 DEF StopCreating
  <2>2. CASE UNCHANGED nvars
    BY <1>1, <1>3, <2>1, <2>2
  <2>3. CASE Crash(s)
    <3>1. Step(s, "failed") /\ UNCHANGED <<wallet, row, held, others>> /\ "failed" \in RequestSteps
      BY <2>3 DEF Crash, RequestSteps
    <3>2. Moves(Key[s]) /\ hold' = hold /\ row' = row /\ held' = held
          /\ UNCHANGED <<renewal, cut, erased>>
      BY <3>1, NothingMoves DEF wallet, others, aside
    <3> QED
      BY <1>1, <2>1, <3>1, <3>2, Typed, RequestStep
  <2> QED
    BY <1>8, <2>2, <2>3 DEF StopCreating
<1>9. CASE ReadForCancel(s)
  <2>1. UNCHANGED <<order, linked, got, inbox>>
    BY <1>9 DEF ReadForCancel
  <2> QED
    BY <1>1, <1>3, <1>9, <2>1, ReleasingStep DEF ReadForCancel
<1>10. CASE FreeExpired(s)
  <2>1. UNCHANGED <<row, held, request, renewal, cut, erased, order, linked, got, inbox>>
    BY <1>10 DEF FreeExpired
  <2>2. \E k : UNCHANGED wallet \/ Return(k, "released") \/ Return(k, "expired")
    BY <1>10, FreeHoldMoves DEF FreeExpired
  <2>3. "expired" \in NumberStatuses
    BY DEF NumberStatuses
  <2>4. held' \subseteq Numbers
    BY <2>1, Typed
  <2> QED
    BY <2>1, <2>2, <2>3, <2>4, WalletAndRow
<1> QED
  BY <1>4, <1>6, <1>7, <1>8, <1>9, <1>10

LEMMA InboxStep ==
  ASSUME NumbersInv, NEW n \in Numbers, Arrive(n) \/ StopHandling(n)
  PROVE  NumbersInv'
<1>1. UNCHANGED <<nvars, order, linked>> /\ got \subseteq got' /\ (Arrive(n) => n \in got')
  BY DEF Arrive, StopHandling
<1>2. inbox' \in [Numbers -> {"idle", "settle"}]
      /\ \A m \in Numbers : inbox'[m] = "settle" => inbox[m] = "settle" \/ m \in got'
  BY <1>1, Typed DEF Arrive, StopHandling
<1> QED
  BY <1>1, <1>2, HubStep, Typed

LEMMA NumberingStep ==
  ASSUME NumbersInv, Numbering, UNCHANGED hubvars
  PROVE  NumbersInv'
<1>1. UNCHANGED <<order, linked, got, inbox>>
  BY DEF hubvars
<1>2. CASE Deposit
  <2>1. funds' \in Nat /\ UNCHANGED <<hold, row, held, request, renewal, cut, erased>>
    BY <1>2, Typed DEF Deposit
  <2> QED
    BY <1>1, <2>1, Typed, QuietStep
<1>3. ASSUME NEW n \in Numbers, Elapse(n)
      PROVE  NumbersInv'
  <2>1. UNCHANGED <<funds, hold, row, held, request, renewal, cut, erased>>
    BY <1>3 DEF Elapse
  <2> QED
    BY <1>1, <2>1, Typed, QuietStep
<1> QED
  BY <1>1, <1>2, <1>3, RenewalsStep, ExpiryStep DEF Numbering

LEMMA NumbersInvInductive ==
  ASSUME NumbersInv, [Next]_vars
  PROVE  NumbersInv'
<1>1. CASE Numbering /\ UNCHANGED hubvars
  BY <1>1, NumberingStep
<1>2. ASSUME NEW p \in Requests, Provisioning(p)
      PROVE  NumbersInv'
  BY <1>2, ProvisionStep DEF Provisioning
<1>3. ASSUME NEW n \in Numbers, Releasing(n)
      PROVE  NumbersInv'
  BY <1>3, ReleasingStep DEF Releasing
<1>4. CASE UNCHANGED vars
  BY <1>4, HubStep, Typed DEF vars, hubvars
<1> QED
  BY <1>1, <1>2, <1>3, <1>4, SettleStep, InboxStep, OrderStep DEF Next

LEMMA NumbersInvInitial ==
  ASSUME HubInit
  PROVE  NumbersInv
<1>1. /\ NoHold \in HoldRows /\ NoHold.status = "none" /\ NoHold.for = NoNumber
      /\ NoRow \in NumberRows /\ NoRow.periods = 0
      /\ NoRenewal \in RenewalRows /\ NoRenewal.at = "idle"
  BY DEF NoHold, HoldRows, HoldStatuses, NoRow, NumberRows, NumberStatuses, NoRenewal,
         RenewalRows, RenewalSteps
<1>2. /\ hold = [k \in Holds |-> NoHold] /\ row = [n \in Numbers |-> NoRow] /\ funds = 0
      /\ held = {} /\ request = [p \in Requests |-> "idle"]
      /\ renewal = [x \in Callers \X Numbers |-> NoRenewal]
      /\ order = [s \in Sessions |-> "none"] /\ linked = {}
      /\ inbox = [n \in Numbers |-> "idle"]
  BY DEF HubInit, Init
<1>3. Types
  BY <1>1, <1>2 DEF Types, TypeOK, HoldRows, NumberRows, RequestSteps, OrderStatuses
<1>4. AnsweredIsPaid /\ LeftOpen
  BY <1>2 DEF AnsweredIsPaid, LeftOpen
<1>5. TimeInv
  BY <1>1, <1>2, HoldsOf DEF TimeInv
<1>6. SessionInv
  BY <1>1, <1>2, HoldsOf DEF SessionInv
<1> QED
  BY <1>3, <1>4, <1>5, <1>6 DEF NumbersInv

LEMMA NumbersInvAlways == Spec => []NumbersInv
<1>1. HubInit => NumbersInv
  BY NumbersInvInitial
<1>2. NumbersInv /\ [Next]_vars => NumbersInv'
  BY NumbersInvInductive
<1> QED
  BY <1>1, <1>2, PTL DEF Spec

-----------------------------------------------------------------------------
(* A rental or burner number is answered as provisioned only with its hold *)
(* spent, although the hold may expire while the carriers are asked, and   *)
(* requests may share a key (provision of numbers.service).                *)
THEOREM ProvisionedIsPaid == Spec => []AnsweredIsPaid
<1>1. NumbersInv => AnsweredIsPaid
  BY DEF NumbersInv
<1> QED
  BY <1>1, NumbersInvAlways, PTL

(* However often a number is renewed, by its owner and by the job from any *)
(* expiry they read, the last period it was given is paid, about to be     *)
(* charged, or marked as unpaid, unless a renewal stopped on its way or    *)
(* the provision, not done yet, wrote over the mark (renew and provision   *)
(* of numbers.service).                                                    *)
THEOREM LastPeriodIsPaidOrMarked == Spec => []UnpaidTimeIsMarked
<1>1. NumbersInv => UnpaidTimeIsMarked
  BY DEF NumbersInv, TimeInv, UnpaidTimeIsMarked, Given
<1> QED
  BY <1>1, NumbersInvAlways, PTL

(* A verification is charged for a message or call on its own number only, *)
(* whatever order its message, expiry and cancellation come in             *)
(* (settleVerificationWalletDelivery), when the keys of orders are theirs. *)
THEOREM ChargesAreDelivered ==
  ASSUME OwnKeys
  PROVE  Spec => []ChargedIsDelivered
<1>1. NumbersInv => ChargedIsDelivered
  BY DEF NumbersInv, SessionInv, ChargedIsDelivered
<1> QED
  BY <1>1, NumbersInvAlways, PTL
=============================================================================
