------------------------- MODULE WalletLedgerProofs -------------------------
(***************************************************************************)
(* What WalletLedger guarantees for any users, holds, keys, amounts and    *)
(* number of concurrent requests: its totals, the life of a single hold,   *)
(* and that it implements HoldContract.                                    *)
(***************************************************************************)
EXTENDS WalletLedger, FiniteSetTheorems, TLAPS

-----------------------------------------------------------------------------
(* Totals of holds.                                                        *)

(* The cents of one hold of n cents, as HeldIn lists them.                 *)
Column(k, n) == {k} \X (1..n)

(* A hold of n cents contributes n elements.                               *)
LEMMA ColumnSize ==
  ASSUME NEW k, NEW n \in Nat
  PROVE  IsFiniteSet(Column(k, n)) /\ Cardinality(Column(k, n)) = n
<1>1. IsFiniteSet({k}) /\ Cardinality({k}) = 1
  BY FS_Singleton
<1>2. IsFiniteSet(1..n) /\ Cardinality(1..n) = n
  BY FS_Interval
<1> DEFINE S == {k}  T == 1..n
<1>3. /\ IsFiniteSet(S \X T)
      /\ Cardinality(S \X T) = Cardinality(S) * Cardinality(T)
  <2> HIDE DEF S, T
  <2> QED
    BY <1>1, <1>2, FS_Product DEF S, T
<1>4. Cardinality(S) * Cardinality(T) = n
  BY <1>1, <1>2
<1> QED
  BY <1>3, <1>4 DEF Column

(* The cents held are finitely many.                                       *)
LEMMA HeldFinite ==
  ASSUME NEW h, NEW u
  PROVE  IsFiniteSet(HeldIn(h, u)) /\ Cardinality(HeldIn(h, u)) \in Nat
<1>1. IsFiniteSet(Holds) /\ IsFiniteSet(Cents)
  BY WalletAssumption, FS_Interval DEF Cents
<1>2. IsFiniteSet(Holds \X Cents)
  BY <1>1, FS_Product
<1>3. HeldIn(h, u) \in SUBSET (Holds \X Cents)
  BY DEF HeldIn
<1>4. IsFiniteSet(HeldIn(h, u))
  BY <1>2, <1>3, FS_Subset
<1> QED
  BY <1>4, FS_CardinalityType

(* Two tables that differ in one row, inactive in g and active in h: the   *)
(* total of its owner in h is larger by the amount of the row, and no      *)
(* other total differs.                                                    *)
LEMMA HoldActivated ==
  ASSUME NEW g \in [Holds -> HoldRow], NEW h \in [Holds -> HoldRow],
         NEW k \in Holds,
         \A j \in Holds \ {k} : h[j] = g[j],
         g[k].status # "active", h[k].status = "active",
         NEW u \in Users
  PROVE  Cardinality(HeldIn(h, u)) =
           Cardinality(HeldIn(g, u)) + (IF h[k].owner = u THEN h[k].cents ELSE 0)
<1> DEFINE n == h[k].cents
<1>1. n \in 0..MaxCents /\ n \in Nat /\ 1..n \subseteq Cents
  BY WalletAssumption DEF HoldRow, Cents
<1>2. CASE h[k].owner = u
  <2>1. HeldIn(h, u) = HeldIn(g, u) \cup Column(k, n)
    BY <1>1, <1>2 DEF HeldIn, Column, Cents
  <2>2. HeldIn(g, u) \cap Column(k, n) = {}
    BY DEF HeldIn, Column
  <2>3. Cardinality({}) = 0
    BY FS_EmptySet
  <2>4. Cardinality(HeldIn(h, u)) =
          Cardinality(HeldIn(g, u)) + Cardinality(Column(k, n))
            - Cardinality(HeldIn(g, u) \cap Column(k, n))
    BY <1>1, <2>1, HeldFinite, ColumnSize, FS_Union
  <2>5. Cardinality(HeldIn(h, u)) = Cardinality(HeldIn(g, u)) + n
    BY <1>1, <2>2, <2>3, <2>4, HeldFinite, ColumnSize
  <2> QED
    BY <1>2, <2>5
<1>3. CASE h[k].owner # u
  <2>1. HeldIn(h, u) = HeldIn(g, u)
    BY <1>3 DEF HeldIn
  <2> QED
    BY <1>3, <2>1, HeldFinite
<1> QED
  BY <1>2, <1>3

-----------------------------------------------------------------------------
(* The type invariant.                                                     *)

LEMMA InitType == Init => TypeOK
BY WalletAssumption DEF Init, TypeOK, NoRow, HoldRow, Idle, Request

(* What a request in flight may be, by its operation.                      *)
LEMMA RequestShape ==
  ASSUME NEW q \in Request
  PROVE  /\ q.op = "hold" => q.user \in Users /\ q.hold \in Holds /\ q.cents \in Cents
         /\ q.op = "spend" => q.hold \in Holds /\ q.ref \in Refs /\ q.cents \in Cents
         /\ q.op = "release" => q.hold \in Holds /\ q.ref \in Refs
         /\ q.op = "refund" => q.user \in Users /\ q.ref \in Refs /\ q.cents \in Cents
         /\ q.op = "buy" => q.user \in Users /\ q.ref \in Refs
         /\ q.op = "rebind" => q.hold \in Rebound /\ q.seen \in {"active"} \cup Settled
BY DEF Request, Idle

(* Recording a transaction keeps the table of references well-typed.       *)
LEMMA RecordType ==
  ASSUME rows \in [Users -> [Refs \X RowTypes -> Nat]],
         NEW u \in Users, NEW ref \in Refs, NEW t \in RowTypes,
         Record(u, ref, t)
  PROVE  rows' \in [Users -> [Refs \X RowTypes -> Nat]]
<1> DEFINE K == Refs \X RowTypes
           x == <<ref, t>>
           row == [rows[u] EXCEPT ![x] = rows[u][x] + 1]
<1>1. x \in K /\ rows[u] \in [K -> Nat]
  OBVIOUS
<1>2. rows' = [rows EXCEPT ![u] = row]
  BY DEF Record
<1> HIDE DEF K, x
<1>3. row \in [K -> Nat]
  BY <1>1
<1> HIDE DEF row
<1>4. rows' \in [Users -> [K -> Nat]]
  BY <1>2, <1>3 DEF K
<1> QED
  BY <1>4 DEF K

(* Ending a request keeps the slots well-typed, and no request that is     *)
(* left names a row that does not exist as long as no row goes away.       *)
LEMMA FinishType ==
  ASSUME TypeOK, NEW r \in Requests, Finish(r),
         \A k \in Holds : hold[k].status # "absent" => hold'[k].status # "absent"
  PROVE  /\ inflight' \in [Requests -> Request]
         /\ \A s \in Requests :
              inflight'[s].op = "rebind" => hold'[inflight'[s].hold].status # "absent"
<1>1. /\ inflight' = [inflight EXCEPT ![r] = Idle]
      /\ inflight \in [Requests -> Request]
      /\ Idle \in Request /\ Idle.op = "idle"
  BY DEF Finish, TypeOK, Request, Idle
<1>2. inflight' \in [Requests -> Request]
  BY <1>1
<1>3. ASSUME NEW s \in Requests, inflight'[s].op = "rebind"
      PROVE  hold'[inflight'[s].hold].status # "absent"
  <2>1. s # r /\ inflight'[s] = inflight[s]
    BY <1>1, <1>3
  <2>2. inflight[s].hold \in Holds /\ hold[inflight[s].hold].status # "absent"
    BY <1>1, <1>3, <2>1, RequestShape, WalletAssumption DEF TypeOK
  <2> QED
    BY <2>1, <2>2
<1> QED
  BY <1>2, <1>3

(* Every pre-check admits a well-formed request.                           *)
LEMMA AdmissionShape ==
  ASSUME TypeOK, NEW r \in Requests, Admission(r)
  PROVE  \E req \in Request :
           /\ Admit(r, req)
           /\ req.op = "rebind" => hold[req.hold].status # "absent"
<1> DEFINE Admitted == \E req \in Request :
                         /\ Admit(r, req)
                         /\ req.op = "rebind" => hold[req.hold].status # "absent"
<1>1. ASSUME NEW u \in Users, NEW k \in Holds, NEW a \in Cents, AdmitHold(r, u, k, a)
      PROVE  Admitted
  BY <1>1 DEF AdmitHold, Request
<1>2. ASSUME NEW k \in Holds, NEW ref \in Refs, NEW a \in Cents, AdmitSpend(r, k, ref, a)
      PROVE  Admitted
  BY <1>2 DEF AdmitSpend, Request
<1>3. ASSUME NEW k \in Holds, NEW ref \in Refs, AdmitRelease(r, k, ref)
      PROVE  Admitted
  BY <1>3 DEF AdmitRelease, Request
<1>4. ASSUME NEW u \in Users, NEW ref \in Refs, NEW a \in Cents, AdmitRefund(r, u, ref, a)
      PROVE  Admitted
  BY <1>4 DEF AdmitRefund, Request
<1>5. ASSUME NEW u \in Users, NEW ref \in Refs, AdmitBuy(r, u, ref)
      PROVE  Admitted
  BY <1>5 DEF AdmitBuy, Request
<1>6. ASSUME NEW k \in Rebound, AdmitRebind(r, k)
      PROVE  Admitted
  <2>1. k \in Holds
    BY <1>6, WalletAssumption
  <2>2. hold[k].status \in {"active"} \cup Settled
    BY <1>6, <2>1 DEF AdmitRebind, TypeOK, HoldRow
  <2> QED
    BY <1>6, <2>1, <2>2 DEF AdmitRebind, Request
<1> QED
  BY <1>1, <1>2, <1>3, <1>4, <1>5, <1>6 DEF Admission

(* Ending an active hold keeps the wallet row and the table well-typed.    *)
LEMMA UnlockType ==
  ASSUME TypeOK, NEW k \in Holds, NEW s \in Settled, Unlock(k, s)
  PROVE  /\ hold[k].owner \in Users /\ hold[k].cents \in Nat
         /\ locked' \in [Users -> Nat]
         /\ hold' \in [Holds -> HoldRow]
         /\ \A j \in Holds : hold'[j].status # "absent" => hold'[j].owner \in Users
<1>1. /\ hold \in [Holds -> HoldRow] /\ hold[k].status = "active"
      /\ hold[k].owner \in Users /\ hold[k].cents \in Nat
  BY DEF TypeOK, Unlock, Active, HoldRow
<1>2. locked' \in [Users -> Nat]
  BY <1>1 DEF TypeOK, Unlock
<1>3. /\ hold' \in [Holds -> HoldRow]
      /\ \A j \in Holds : hold'[j].status # "absent" => hold'[j].owner \in Users
  BY <1>1 DEF TypeOK, Unlock, HoldRow
<1> QED
  BY <1>1, <1>2, <1>3

(* TypeOK is inductive.  The CHECK constraints keep the wallet row natural *)
(* even when a stale rebind has taken the locked balance and the holds     *)
(* apart.                                                                  *)
LEMMA TypeStep == TypeOK /\ [Next]_vars => TypeOK'
<1> SUFFICES ASSUME TypeOK, [Next]_vars PROVE TypeOK'
  OBVIOUS
<1> USE WalletAssumption
<1>1. ASSUME NEW u \in Users, NEW a \in Cents, Deposit(u, a)
      PROVE  TypeOK'
  <2>1. balance' \in [Users -> Nat] /\ mirror' \in [Users -> Nat]
    BY <1>1 DEF Deposit, TypeOK, Cents
  <2> QED
    BY <1>1, <2>1 DEF Deposit, TypeOK
<1>2. ASSUME NEW r \in Requests, Admission(r)
      PROVE  TypeOK'
  <2>1. PICK req \in Request :
               /\ Admit(r, req)
               /\ req.op = "rebind" => hold[req.hold].status # "absent"
    BY <1>2, AdmissionShape
  <2>2. inflight' = [inflight EXCEPT ![r] = req] /\ inflight \in [Requests -> Request]
    BY <2>1 DEF Admit, TypeOK
  <2>3. inflight' \in [Requests -> Request]
    BY <2>2
  <2>4. \A s \in Requests :
          inflight'[s].op = "rebind" => hold'[inflight'[s].hold].status # "absent"
    BY <2>1, <2>2 DEF Admit, TypeOK
  <2> QED
    BY <2>1, <2>3, <2>4 DEF Admit, TypeOK, wallets
<1>3. ASSUME NEW r \in Requests, CommitHold(r)
      PROVE  TypeOK'
  <2> DEFINE q == inflight[r]
  <2>1. q \in Request /\ q.op = "hold"
    BY <1>3 DEF CommitHold, TypeOK
  <2>2. q.user \in Users /\ q.hold \in Holds /\ q.cents \in Cents
    BY <2>1, RequestShape
  <2>3. [status |-> "active", owner |-> q.user, cents |-> q.cents] \in HoldRow
    BY <2>2 DEF HoldRow, Cents
  <2>4. /\ hold' \in [Holds -> HoldRow]
        /\ \A j \in Holds : hold'[j].status # "absent" => hold'[j].owner \in Users
    BY <1>3, <2>2, <2>3 DEF CommitHold, TypeOK
  <2>5. locked' \in [Users -> Nat]
    BY <1>3, <2>2 DEF CommitHold, TypeOK, Cents
  <2>8. \A j \in Holds : hold[j].status # "absent" => hold'[j].status # "absent"
    BY <1>3, <2>2 DEF CommitHold, TypeOK, HoldRow, Settled
  <2>9. /\ inflight' \in [Requests -> Request]
        /\ \A s \in Requests :
             inflight'[s].op = "rebind" => hold'[inflight'[s].hold].status # "absent"
    BY <1>3, <2>8, FinishType DEF CommitHold
  <2> QED
    BY <1>3, <2>4, <2>5, <2>9 DEF CommitHold, TypeOK
<1>4. ASSUME NEW r \in Requests, CommitSpend(r)
      PROVE  TypeOK'
  <2> DEFINE q == inflight[r]
             k == q.hold
             u == hold[k].owner
  <2>1. q \in Request /\ q.op = "spend"
    BY <1>4 DEF CommitSpend, TypeOK
  <2>2. k \in Holds /\ q.ref \in Refs /\ q.cents \in Cents
    BY <2>1, RequestShape
  <2>3. hold[k].status = "active" /\ u \in Users /\ hold[k].cents \in Nat
    BY <1>4, <2>2 DEF CommitSpend, TypeOK, Active, HoldRow
  <2>4. balance' \in [Users -> Nat] /\ locked' \in [Users -> Nat] /\ mirror' \in [Users -> Nat]
    BY <1>4, <2>2, <2>3 DEF CommitSpend, TypeOK, Cents
  <2>5. /\ hold' \in [Holds -> HoldRow]
        /\ \A j \in Holds : hold'[j].status # "absent" => hold'[j].owner \in Users
    BY <1>4, <2>2, <2>3 DEF CommitSpend, TypeOK, HoldRow, Settled
  <2>6. charged' \in [Holds -> Nat]
    BY <1>4, <2>2 DEF CommitSpend, TypeOK, Cents
  <2>7. rows' \in [Users -> [Refs \X RowTypes -> Nat]]
    BY <1>4, <2>2, <2>3, RecordType DEF CommitSpend, TypeOK, RowTypes
  <2>8. \A j \in Holds : hold[j].status # "absent" => hold'[j].status # "absent"
    BY <1>4, <2>2 DEF CommitSpend, TypeOK, HoldRow, Settled
  <2>9. /\ inflight' \in [Requests -> Request]
        /\ \A s \in Requests :
             inflight'[s].op = "rebind" => hold'[inflight'[s].hold].status # "absent"
    BY <1>4, <2>8, FinishType DEF CommitSpend
  <2> QED
    BY <1>4, <2>4, <2>5, <2>6, <2>7, <2>9 DEF CommitSpend, TypeOK
<1>5. ASSUME NEW r \in Requests, CommitRelease(r)
      PROVE  TypeOK'
  <2> DEFINE q == inflight[r]
  <2>1. q \in Request /\ q.op = "release"
    BY <1>5 DEF CommitRelease, TypeOK
  <2>2. q.hold \in Holds /\ q.ref \in Refs
    BY <2>1, RequestShape
  <2>3. /\ hold[q.hold].owner \in Users
        /\ locked' \in [Users -> Nat]
        /\ hold' \in [Holds -> HoldRow]
        /\ \A j \in Holds : hold'[j].status # "absent" => hold'[j].owner \in Users
    BY <1>5, <2>2, UnlockType DEF CommitRelease, Settled
  <2>4. rows' \in [Users -> [Refs \X RowTypes -> Nat]]
    BY <1>5, <2>2, <2>3, RecordType DEF CommitRelease, TypeOK, RowTypes
  <2>8. \A j \in Holds : hold[j].status # "absent" => hold'[j].status # "absent"
    BY <1>5, <2>2 DEF CommitRelease, TypeOK, HoldRow, Unlock, Settled
  <2>9. /\ inflight' \in [Requests -> Request]
        /\ \A s \in Requests :
             inflight'[s].op = "rebind" => hold'[inflight'[s].hold].status # "absent"
    BY <1>5, <2>8, FinishType DEF CommitRelease
  <2> QED
    BY <1>5, <2>3, <2>4, <2>9 DEF CommitRelease, TypeOK
<1>6. ASSUME NEW r \in Requests, CommitRefund(r)
      PROVE  TypeOK'
  <2> DEFINE q == inflight[r]
  <2>1. q \in Request /\ q.op = "refund"
    BY <1>6 DEF CommitRefund, TypeOK
  <2>2. q.user \in Users /\ q.ref \in Refs /\ q.cents \in Cents
    BY <2>1, RequestShape
  <2>3. balance' \in [Users -> Nat] /\ mirror' \in [Users -> Nat]
    BY <1>6, <2>2 DEF CommitRefund, TypeOK, Cents
  <2>4. rows' \in [Users -> [Refs \X RowTypes -> Nat]]
    BY <1>6, <2>2, RecordType DEF CommitRefund, TypeOK, RowTypes
  <2>8. \A j \in Holds : hold[j].status # "absent" => hold'[j].status # "absent"
    BY <1>6 DEF CommitRefund, TypeOK, HoldRow, Settled
  <2>9. /\ inflight' \in [Requests -> Request]
        /\ \A s \in Requests :
             inflight'[s].op = "rebind" => hold'[inflight'[s].hold].status # "absent"
    BY <1>6, <2>8, FinishType DEF CommitRefund
  <2> QED
    BY <1>6, <2>3, <2>4, <2>9 DEF CommitRefund, TypeOK
<1>7. ASSUME NEW r \in Requests, CommitBuy(r)
      PROVE  TypeOK'
  <2> DEFINE q == inflight[r]
  <2>1. q \in Request /\ q.op = "buy"
    BY <1>7 DEF CommitBuy, TypeOK
  <2>2. q.user \in Users /\ q.ref \in Refs
    BY <2>1, RequestShape
  <2>3. balance' \in [Users -> Nat] /\ mirror' \in [Users -> Nat]
    BY <1>7, <2>2 DEF CommitBuy, TypeOK, Available
  <2>4. bought' \in [Refs -> Users \cup {Nobody}] /\ purchased' \in [Users -> Nat]
    BY <1>7, <2>2 DEF CommitBuy, TypeOK
  <2>5. rows' \in [Users -> [Refs \X RowTypes -> Nat]]
    BY <1>7, <2>2, RecordType DEF CommitBuy, TypeOK, RowTypes
  <2>8. \A j \in Holds : hold[j].status # "absent" => hold'[j].status # "absent"
    BY <1>7 DEF CommitBuy, TypeOK, HoldRow, Settled
  <2>9. /\ inflight' \in [Requests -> Request]
        /\ \A s \in Requests :
             inflight'[s].op = "rebind" => hold'[inflight'[s].hold].status # "absent"
    BY <1>7, <2>8, FinishType DEF CommitBuy
  <2> QED
    BY <1>7, <2>3, <2>4, <2>5, <2>9 DEF CommitBuy, TypeOK
<1>8. ASSUME NEW r \in Requests, CommitRebind(r)
      PROVE  TypeOK'
  <2> DEFINE q == inflight[r]
             k == q.hold
  <2>1. q \in Request /\ q.op = "rebind"
    BY <1>8 DEF CommitRebind, TypeOK
  <2>2. k \in Holds /\ q.seen \in {"active"} \cup Settled
    BY <2>1, RequestShape
  <2>3. hold[k].status # "absent" /\ hold[k].owner \in Users /\ hold[k].cents \in Nat
    BY <2>1, <2>2 DEF TypeOK, HoldRow
  <2>4. /\ hold' \in [Holds -> HoldRow]
        /\ \A j \in Holds : hold'[j].status # "absent" => hold'[j].owner \in Users
    BY <1>8, <2>2, <2>3 DEF CommitRebind, TypeOK, HoldRow
  <2>5. drift' \in [Users -> Int]
    BY <1>8, <2>3 DEF CommitRebind, TypeOK
  <2>8. \A j \in Holds : hold[j].status # "absent" => hold'[j].status # "absent"
    BY <1>8, <2>2 DEF CommitRebind, TypeOK, HoldRow, Settled
  <2>9. /\ inflight' \in [Requests -> Request]
        /\ \A s \in Requests :
             inflight'[s].op = "rebind" => hold'[inflight'[s].hold].status # "absent"
    BY <1>8, <2>8, FinishType DEF CommitRebind
  <2> QED
    BY <1>8, <2>4, <2>5, <2>9 DEF CommitRebind, TypeOK, wallets
<1>9. ASSUME NEW r \in Requests, Abandon(r)
      PROVE  TypeOK'
  <2>1. \A j \in Holds : hold'[j] = hold[j]
    BY <1>9 DEF Abandon
  <2>2. /\ inflight' \in [Requests -> Request]
        /\ \A s \in Requests :
             inflight'[s].op = "rebind" => hold'[inflight'[s].hold].status # "absent"
    BY <1>9, <2>1, FinishType DEF Abandon
  <2> QED
    BY <1>9, <2>2 DEF Abandon, TypeOK, wallets
<1>10. ASSUME NEW k \in Holds, Elapse(k)
       PROVE  TypeOK'
  BY <1>10 DEF Elapse, TypeOK, wallets
<1>11. ASSUME NEW k \in Holds, ExpireHold(k)
       PROVE  TypeOK'
  <2>1. /\ locked' \in [Users -> Nat]
        /\ hold' \in [Holds -> HoldRow]
        /\ \A j \in Holds : hold'[j].status # "absent" => hold'[j].owner \in Users
    BY <1>11, UnlockType DEF ExpireHold, Settled
  <2>2. \A j \in Holds : hold[j].status # "absent" => hold'[j].status # "absent"
    BY <1>11 DEF ExpireHold, Unlock, TypeOK, HoldRow
  <2>3. \A s \in Requests :
          inflight'[s].op = "rebind" => hold'[inflight'[s].hold].status # "absent"
    BY <1>11, <2>2, RequestShape, WalletAssumption DEF ExpireHold, TypeOK
  <2> QED
    BY <1>11, <2>1, <2>3 DEF ExpireHold, TypeOK
<1>12. CASE UNCHANGED vars
  BY <1>12 DEF vars, TypeOK
<1> QED
  BY <1>1, <1>2, <1>3, <1>4, <1>5, <1>6, <1>7, <1>8, <1>9, <1>10, <1>11, <1>12
     DEF Next, Commit

(* TypeOK: every column keeps its type; in particular the wallet row stays *)
(* within its CHECK constraints.                                           *)
THEOREM TypeCorrect == Spec => []TypeOK
BY InitType, TypeStep, PTL DEF Spec

-----------------------------------------------------------------------------
(* The locked balance is the sum of the active holds.                      *)

(* Closing an active hold and taking its cents off the locked balance of   *)
(* its owner keep the two equal.                                           *)
LEMMA HoldClosed ==
  ASSUME TypeOK, TypeOK', HoldsAccounted,
         NEW k \in Holds, NEW s \in Settled, Active(k),
         hold' = [hold EXCEPT ![k].status = s],
         locked' = [locked EXCEPT ![hold[k].owner] = @ - hold[k].cents],
         UNCHANGED drift
  PROVE  HoldsAccounted'
<1>1. /\ hold \in [Holds -> HoldRow] /\ hold' \in [Holds -> HoldRow]
      /\ hold[k].status = "active" /\ hold'[k].status # "active"
      /\ \A j \in Holds \ {k} : hold[j] = hold'[j]
      /\ hold[k].owner \in Users /\ hold[k].cents \in Nat
  BY DEF TypeOK, Active, Settled, HoldRow
<1>2. ASSUME NEW u \in Users
      PROVE  locked'[u] + drift'[u] = Cardinality(HeldIn(hold', u))
  <2>1. HeldTotal(u) =
          Cardinality(HeldIn(hold', u)) + (IF hold[k].owner = u THEN hold[k].cents ELSE 0)
    BY ONLY <1>1, k \in Holds, u \in Users, HoldActivated DEF HeldTotal
  <2>2. Cardinality(HeldIn(hold', u)) \in Nat /\ locked[u] \in Nat /\ drift[u] \in Int
    BY HeldFinite DEF TypeOK
  <2>3. locked[u] + drift[u] = HeldTotal(u)
    BY DEF HoldsAccounted
  <2>4. locked'[u] = locked[u] - (IF hold[k].owner = u THEN hold[k].cents ELSE 0)
    BY <1>1 DEF TypeOK
  <2>5. drift'[u] = drift[u]
    OBVIOUS
  <2> QED
    BY <1>1, <2>1, <2>2, <2>3, <2>4, <2>5
<1> QED
  BY <1>2 DEF HoldsAccounted, HeldTotal

(* A step that touches neither the wallet_locks table nor the locked       *)
(* balance keeps them equal.                                               *)
LEMMA HoldsUntouched ==
  ASSUME HoldsAccounted, UNCHANGED <<hold, locked, drift>>
  PROVE  HoldsAccounted'
BY DEF HoldsAccounted, HeldTotal

(* A rebind changes one row; drift takes up what that does to the total.   *)
LEMMA RebindAccounted ==
  ASSUME TypeOK, TypeOK', HoldsAccounted, NEW r \in Requests, CommitRebind(r)
  PROVE  HoldsAccounted'
<1> DEFINE q == inflight[r]
           k == q.hold
<1>1. q \in Request /\ q.op = "rebind" /\ k \in Holds
      /\ q.seen \in {"active"} \cup Settled
  BY RequestShape, WalletAssumption DEF CommitRebind, TypeOK
<1>2. /\ hold \in [Holds -> HoldRow] /\ hold' \in [Holds -> HoldRow]
      /\ \A j \in Holds \ {k} : hold'[j] = hold[j] /\ hold[j] = hold'[j]
      /\ hold'[k].status = q.seen /\ hold'[k].owner = hold[k].owner
      /\ hold'[k].cents = hold[k].cents
      /\ hold[k].owner \in Users /\ hold[k].cents \in Nat
      /\ locked' = locked
  BY <1>1 DEF CommitRebind, TypeOK, wallets, HoldRow
<1>3. ASSUME NEW u \in Users
      PROVE  locked'[u] + drift'[u] = Cardinality(HeldIn(hold', u))
  <2> DEFINE total == Cardinality(HeldIn(hold', u))
             own == IF hold[k].owner = u THEN hold[k].cents ELSE 0
  <2>1. total \in Nat /\ HeldTotal(u) \in Nat /\ locked[u] \in Nat /\ drift[u] \in Int
    BY HeldFinite DEF TypeOK, HeldTotal
  <2>2. locked[u] + drift[u] = HeldTotal(u)
    BY DEF HoldsAccounted
  <2>3. CASE q.seen = "active" /\ ~Active(k)
    <3>1. total = HeldTotal(u) + own
      BY <1>2, <2>3, HoldActivated DEF HeldTotal, Active
    <3>2. drift'[u] = drift[u] + own
      BY <1>2, <2>1, <2>3 DEF CommitRebind, TypeOK
    <3> QED
      BY <1>2, <2>1, <2>2, <3>1, <3>2
  <2>4. CASE q.seen # "active" /\ Active(k)
    <3>1. HeldTotal(u) = total + own
      BY <1>2, <2>4, HoldActivated DEF HeldTotal, Active
    <3>2. drift'[u] = drift[u] - own
      BY <1>2, <2>1, <2>4 DEF CommitRebind, TypeOK
    <3> QED
      BY <1>2, <2>1, <2>2, <3>1, <3>2
  <2>5. CASE q.seen = "active" <=> Active(k)
    <3>1. total = HeldTotal(u)
      BY <1>1, <1>2, <2>5 DEF HeldTotal, HeldIn, Active
    <3>2. drift'[u] = drift[u]
      BY <1>2, <2>1, <2>5 DEF CommitRebind, TypeOK
    <3> QED
      BY <1>2, <2>2, <3>1, <3>2
  <2> QED
    BY <2>3, <2>4, <2>5
<1> QED
  BY <1>3 DEF HoldsAccounted, HeldTotal

LEMMA AccountedStep == TypeOK /\ HoldsAccounted /\ [Next]_vars => HoldsAccounted'
<1> SUFFICES ASSUME TypeOK, HoldsAccounted, [Next]_vars PROVE HoldsAccounted'
  OBVIOUS
<1>0. TypeOK'
  BY TypeStep
<1>1. ASSUME NEW u \in Users, NEW a \in Cents, Deposit(u, a)
      PROVE  HoldsAccounted'
  BY <1>1, HoldsUntouched DEF Deposit
<1>2. ASSUME NEW r \in Requests, Admission(r)
      PROVE  HoldsAccounted'
  BY <1>2, AdmissionShape, HoldsUntouched DEF Admit, wallets
<1>3. ASSUME NEW r \in Requests, CommitHold(r)
      PROVE  HoldsAccounted'
  <2> DEFINE q == inflight[r]
             k == q.hold
  <2>1. q.user \in Users /\ k \in Holds /\ q.cents \in Nat
    BY <1>3, RequestShape DEF CommitHold, TypeOK, Cents
  <2>2. /\ hold \in [Holds -> HoldRow] /\ hold' \in [Holds -> HoldRow]
        /\ hold[k].status # "active" /\ hold'[k].status = "active"
        /\ \A j \in Holds \ {k} : hold'[j] = hold[j]
        /\ hold'[k].owner = q.user /\ hold'[k].cents = q.cents
    BY <1>0, <1>3, <2>1 DEF CommitHold, TypeOK
  <2>3. ASSUME NEW u \in Users
        PROVE  locked'[u] + drift'[u] = Cardinality(HeldIn(hold', u))
    <3>1. Cardinality(HeldIn(hold', u)) = HeldTotal(u) + (IF q.user = u THEN q.cents ELSE 0)
      BY <2>1, <2>2, HoldActivated DEF HeldTotal
    <3>2. HeldTotal(u) \in Nat /\ locked[u] \in Nat /\ drift[u] \in Int
      BY HeldFinite DEF TypeOK, HeldTotal
    <3>3. locked[u] + drift[u] = HeldTotal(u)
      BY DEF HoldsAccounted
    <3>4. locked'[u] = locked[u] + (IF q.user = u THEN q.cents ELSE 0) /\ drift'[u] = drift[u]
      BY <1>3, <2>1, <3>2 DEF CommitHold, TypeOK
    <3> QED
      BY <2>1, <3>1, <3>2, <3>3, <3>4
  <2> QED
    BY <2>3 DEF HoldsAccounted, HeldTotal
<1>4. ASSUME NEW r \in Requests, CommitSpend(r)
      PROVE  HoldsAccounted'
  <2>1. inflight[r].hold \in Holds /\ "spent" \in Settled
    BY <1>4, RequestShape DEF CommitSpend, TypeOK, Settled
  <2> QED
    BY <1>0, <1>4, <2>1, HoldClosed DEF CommitSpend
<1>5. ASSUME NEW r \in Requests, CommitRelease(r)
      PROVE  HoldsAccounted'
  <2>1. inflight[r].hold \in Holds /\ "released" \in Settled
    BY <1>5, RequestShape DEF CommitRelease, TypeOK, Settled
  <2> QED
    BY <1>0, <1>5, <2>1, HoldClosed DEF CommitRelease, Unlock
<1>6. ASSUME NEW r \in Requests, CommitRefund(r)
      PROVE  HoldsAccounted'
  BY <1>6, HoldsUntouched DEF CommitRefund
<1>7. ASSUME NEW r \in Requests, CommitBuy(r)
      PROVE  HoldsAccounted'
  BY <1>7, HoldsUntouched DEF CommitBuy
<1>8. ASSUME NEW r \in Requests, CommitRebind(r)
      PROVE  HoldsAccounted'
  BY <1>0, <1>8, RebindAccounted
<1>9. ASSUME NEW r \in Requests, Abandon(r)
      PROVE  HoldsAccounted'
  BY <1>9, HoldsUntouched DEF Abandon, wallets
<1>10. ASSUME NEW k \in Holds, Elapse(k)
       PROVE  HoldsAccounted'
  BY <1>10, HoldsUntouched DEF Elapse, wallets
<1>11. ASSUME NEW k \in Holds, ExpireHold(k)
       PROVE  HoldsAccounted'
  <2>1. "expired" \in Settled
    BY DEF Settled
  <2> QED
    BY <1>0, <1>11, <2>1, HoldClosed DEF ExpireHold, Unlock
<1>12. CASE UNCHANGED vars
  BY <1>12, HoldsUntouched DEF vars
<1> QED
  BY <1>1, <1>2, <1>3, <1>4, <1>5, <1>6, <1>7, <1>8, <1>9, <1>10, <1>11, <1>12
     DEF Next, Commit

(* The locked balance of every wallet is the sum of its active holds, up   *)
(* to the drift stale rebinds cause.                                       *)
THEOREM LockedIsSumOfHolds == Spec => []HoldsAccounted
<1>1. Init => HoldsAccounted
  <2>1. SUFFICES ASSUME Init, NEW u \in Users
                 PROVE  locked[u] + drift[u] = HeldTotal(u)
    BY DEF HoldsAccounted
  <2>2. HeldIn(hold, u) = {}
    BY <2>1 DEF Init, HeldIn, NoRow
  <2>3. HeldTotal(u) = 0
    BY <2>2, FS_EmptySet DEF HeldTotal
  <2>4. locked[u] = 0 /\ drift[u] = 0
    BY <2>1 DEF Init
  <2> QED
    BY <2>3, <2>4
<1> QED
  BY <1>1, InitType, TypeStep, AccountedStep, PTL DEF Spec

-----------------------------------------------------------------------------
(* Available money and the mirror.                                         *)

LEMMA OvercommitStep ==
  TypeOK /\ NeverOvercommitted /\ [Next]_vars => NeverOvercommitted'
<1> SUFFICES ASSUME TypeOK, NeverOvercommitted, [Next]_vars
             PROVE  NeverOvercommitted'
  OBVIOUS
<1> USE WalletAssumption
<1>0. \A u \in Users : balance[u] \in Nat /\ locked[u] \in Nat /\ locked[u] <= balance[u]
  BY DEF TypeOK, NeverOvercommitted
<1>1. ASSUME UNCHANGED <<balance, locked>>
      PROVE  NeverOvercommitted'
  BY <1>1 DEF NeverOvercommitted
<1>2. ASSUME NEW k \in Holds, NEW s, Unlock(k, s), UNCHANGED balance
      PROVE  NeverOvercommitted'
  <2>1. hold[k].owner \in Users /\ hold[k].cents \in Nat
    BY <1>2 DEF Unlock, Active, TypeOK, HoldRow
  <2> QED
    BY <1>0, <1>2, <2>1 DEF Unlock, NeverOvercommitted, TypeOK
<1>3. ASSUME NEW u \in Users, NEW a \in Cents, Deposit(u, a)
      PROVE  NeverOvercommitted'
  BY <1>0, <1>3 DEF Deposit, NeverOvercommitted, TypeOK, Cents
<1>4. ASSUME NEW r \in Requests, CommitHold(r)
      PROVE  NeverOvercommitted'
  <2>1. inflight[r].user \in Users /\ inflight[r].cents \in Nat
    BY <1>4, RequestShape DEF CommitHold, TypeOK, Cents
  <2> QED
    BY <1>0, <1>4, <2>1 DEF CommitHold, Available, NeverOvercommitted, TypeOK
<1>5. ASSUME NEW r \in Requests, CommitSpend(r)
      PROVE  NeverOvercommitted'
  <2> DEFINE q == inflight[r]
             k == q.hold
             u == hold[k].owner
  <2>1. k \in Holds /\ q.cents \in Nat
    BY <1>5, RequestShape DEF CommitSpend, TypeOK, Cents
  <2>2. u \in Users /\ hold[k].cents \in Nat
    BY <1>5, <2>1 DEF CommitSpend, Active, TypeOK, HoldRow
  <2>3. /\ balance' = [balance EXCEPT ![u] = @ - q.cents]
        /\ locked' = [locked EXCEPT ![u] = @ - hold[k].cents]
        /\ q.cents <= hold[k].cents
    BY <1>5 DEF CommitSpend
  <2> HIDE DEF k, u, q
  <2> QED
    BY <1>0, <2>2, <2>1, <2>3 DEF NeverOvercommitted, TypeOK
<1>6. ASSUME NEW r \in Requests, CommitRelease(r)
      PROVE  NeverOvercommitted'
  <2>1. inflight[r].hold \in Holds
    BY <1>6, RequestShape DEF CommitRelease, TypeOK
  <2> QED
    BY <1>2, <1>6, <2>1 DEF CommitRelease
<1>7. ASSUME NEW r \in Requests, CommitRefund(r)
      PROVE  NeverOvercommitted'
  <2>1. inflight[r].user \in Users /\ inflight[r].cents \in Nat
    BY <1>7, RequestShape DEF CommitRefund, TypeOK, Cents
  <2> QED
    BY <1>0, <1>7, <2>1 DEF CommitRefund, NeverOvercommitted, TypeOK
<1>8. ASSUME NEW r \in Requests, CommitBuy(r)
      PROVE  NeverOvercommitted'
  <2>1. inflight[r].user \in Users
    BY <1>8, RequestShape DEF CommitBuy, TypeOK
  <2> QED
    BY <1>0, <1>8, <2>1 DEF CommitBuy, Available, NeverOvercommitted, TypeOK
<1>9. ASSUME NEW k \in Holds, ExpireHold(k)
      PROVE  NeverOvercommitted'
  BY <1>2, <1>9 DEF ExpireHold
<1>10. ASSUME NEW r \in Requests, Admission(r) \/ CommitRebind(r) \/ Abandon(r)
       PROVE  NeverOvercommitted'
  BY <1>1, <1>10, AdmissionShape DEF Admit, CommitRebind, Abandon, wallets
<1>11. ASSUME NEW k \in Holds, Elapse(k)
       PROVE  NeverOvercommitted'
  BY <1>1, <1>11 DEF Elapse, wallets
<1>12. CASE UNCHANGED vars
  BY <1>1, <1>12 DEF vars
<1> QED
  BY <1>3, <1>4, <1>5, <1>6, <1>7, <1>8, <1>9, <1>10, <1>11, <1>12 DEF Next, Commit

(* However many holds, spends, refunds and credit purchases run together,  *)
(* no wallet has more locked than it holds.                                *)
THEOREM NoOvercommitment == Spec => []NeverOvercommitted
<1>1. Init => NeverOvercommitted
  BY DEF Init, NeverOvercommitted
<1> QED
  BY <1>1, InitType, TypeStep, OvercommitStep, PTL DEF Spec

(* The mirror in users always equals the balance in wallets.               *)
THEOREM MirrorInSync == Spec => []MirrorAgrees
<1>1. Init => MirrorAgrees
  BY DEF Init, MirrorAgrees
<1>2. TypeOK /\ MirrorAgrees /\ [Next]_vars => MirrorAgrees'
  <2> SUFFICES ASSUME TypeOK, MirrorAgrees, [Next]_vars PROVE MirrorAgrees'
    OBVIOUS
  <2>1. ASSUME UNCHANGED <<balance, mirror>>
        PROVE  MirrorAgrees'
    BY <2>1 DEF MirrorAgrees
  <2>2. ASSUME NEW u \in Users, NEW a \in Cents, Deposit(u, a)
        PROVE  MirrorAgrees'
    BY <2>2 DEF Deposit, MirrorAgrees
  <2>3. ASSUME NEW r \in Requests, CommitSpend(r) \/ CommitRefund(r) \/ CommitBuy(r)
        PROVE  MirrorAgrees'
    BY <2>3 DEF CommitSpend, CommitRefund, CommitBuy, MirrorAgrees
  <2>4. ASSUME NEW r \in Requests,
               Admission(r) \/ CommitHold(r) \/ CommitRelease(r) \/ CommitRebind(r) \/ Abandon(r)
        PROVE  MirrorAgrees'
    BY <2>1, <2>4, AdmissionShape
       DEF Admit, CommitHold, CommitRelease, CommitRebind, Abandon, wallets
  <2>5. ASSUME NEW k \in Holds, Elapse(k) \/ ExpireHold(k)
        PROVE  MirrorAgrees'
    BY <2>1, <2>5 DEF Elapse, ExpireHold, wallets
  <2>6. CASE UNCHANGED vars
    BY <2>1, <2>6 DEF vars
  <2> QED
    BY <2>2, <2>3, <2>4, <2>5, <2>6 DEF Next, Commit
<1> QED
  BY <1>1, <1>2, InitType, TypeStep, PTL DEF Spec

-----------------------------------------------------------------------------
(* Credit purchases.                                                       *)

(* The purchase keys a user has paid under, in a credit_transactions b.    *)
KeysOf(b, u) == {ref \in Refs : b[ref] = u}

LEMMA KeysFinite ==
  ASSUME NEW b, NEW u
  PROVE  IsFiniteSet(KeysOf(b, u)) /\ Cardinality(KeysOf(b, u)) \in Nat
<1>1. IsFiniteSet(Refs) /\ KeysOf(b, u) \in SUBSET Refs
  BY WalletAssumption DEF KeysOf
<1> QED
  BY <1>1, FS_Subset, FS_CardinalityType

(* Recording a row raises the count of that user, key and type by one and  *)
(* no other count.                                                         *)
CountsOne(u, ref, t) ==
  \A w \in Users, z \in Refs \X RowTypes :
    /\ w = u /\ z = <<ref, t>> => rows'[w][z] = rows[w][z] + 1
    /\ ~(w = u /\ z = <<ref, t>>) => rows'[w][z] = rows[w][z]

LEMMA RecordCounts ==
  ASSUME rows \in [Users -> [Refs \X RowTypes -> Nat]],
         NEW u \in Users, NEW ref \in Refs, NEW t \in RowTypes,
         Record(u, ref, t)
  PROVE  CountsOne(u, ref, t)
<1> DEFINE K == Refs \X RowTypes
           x == <<ref, t>>
           row == [rows[u] EXCEPT ![x] = rows[u][x] + 1]
<1>1. x \in K /\ rows \in [Users -> [K -> Nat]]
  OBVIOUS
<1>2. rows' = [rows EXCEPT ![u] = row]
  BY DEF Record
<1> HIDE DEF K, x
<1>3. ASSUME NEW w \in Users, NEW z \in K
      PROVE  /\ w = u /\ z = x => rows'[w][z] = rows[w][z] + 1
             /\ ~(w = u /\ z = x) => rows'[w][z] = rows[w][z]
  <2>1. row[z] = IF x = z THEN rows[u][z] + 1 ELSE rows[u][z]
    BY <1>1
  <2> HIDE DEF row
  <2>2. rows'[w] = IF w = u THEN row ELSE rows[w]
    BY <1>1, <1>2
  <2> QED
    BY <2>1, <2>2
<1> QED
  BY <1>3 DEF K, x, CountsOne

(* A step that buys nothing and records no purchase of credits.            *)
LEMMA NothingBought ==
  ASSUME PurchasePaidOnce, UNCHANGED <<bought, purchased>>,
         \A u \in Users, ref \in Refs :
           rows'[u][<<ref, "credits">>] = rows[u][<<ref, "credits">>]
  PROVE  PurchasePaidOnce'
BY DEF PurchasePaidOnce

LEMMA OtherRecorded ==
  ASSUME TypeOK, PurchasePaidOnce, UNCHANGED <<bought, purchased>>,
         NEW u \in Users, NEW ref \in Refs, NEW t \in RowTypes, t # "credits",
         Record(u, ref, t)
  PROVE  PurchasePaidOnce'
<1>1. rows \in [Users -> [Refs \X RowTypes -> Nat]]
  BY DEF TypeOK
<1>2. CountsOne(u, ref, t)
  BY <1>1, RecordCounts
<1>3. \A v \in Users, k \in Refs : rows'[v][<<k, "credits">>] = rows[v][<<k, "credits">>]
  BY <1>2 DEF CountsOne, RowTypes
<1> QED
  BY <1>3, NothingBought

(* A purchase that commits found its key unused: it is the only one under  *)
(* that key, of any user, and its credits are added once.                  *)
LEMMA PurchaseCommitted ==
  ASSUME TypeOK, PurchasePaidOnce, NEW r \in Requests, CommitBuy(r)
  PROVE  PurchasePaidOnce'
<1> DEFINE q == inflight[r]
<1>1. q.user \in Users /\ q.ref \in Refs
  BY RequestShape DEF CommitBuy, TypeOK
<1>2. PICK u \in Users, ref \in Refs :
        /\ bought[ref] = Nobody
        /\ bought' = [bought EXCEPT ![ref] = u]
        /\ purchased' = [purchased EXCEPT ![u] = @ + PackCredits]
        /\ Record(u, ref, "credits")
  BY <1>1 DEF CommitBuy
<1>3. /\ rows \in [Users -> [Refs \X RowTypes -> Nat]] /\ "credits" \in RowTypes
      /\ bought \in [Refs -> Users \cup {Nobody}] /\ purchased \in [Users -> Nat]
      /\ Nobody \notin Users /\ PackCredits \in Nat
  BY WalletAssumption DEF TypeOK, RowTypes
<1>4. CountsOne(u, ref, "credits")
  BY <1>2, <1>3, RecordCounts
<1>5. ASSUME NEW v \in Users, NEW k \in Refs
      PROVE  rows'[v][<<k, "credits">>] = IF bought'[k] = v THEN 1 ELSE 0
  <2>1. rows[v][<<k, "credits">>] = IF bought[k] = v THEN 1 ELSE 0
    BY DEF PurchasePaidOnce
  <2>2. /\ v = u /\ k = ref => rows'[v][<<k, "credits">>] = rows[v][<<k, "credits">>] + 1
        /\ ~(v = u /\ k = ref) => rows'[v][<<k, "credits">>] = rows[v][<<k, "credits">>]
    BY <1>3, <1>4 DEF CountsOne
  <2>3. bought'[k] = IF k = ref THEN u ELSE bought[k]
    BY <1>2, <1>3
  <2> QED
    BY <1>2, <1>3, <2>1, <2>2, <2>3
<1>6. ASSUME NEW v \in Users
      PROVE  purchased'[v] = PackCredits * Cardinality(KeysOf(bought', v))
  <2> DEFINE n == Cardinality(KeysOf(bought, v))
  <2>1. purchased[v] = PackCredits * n /\ n \in Nat
    <3>1. KeysOf(bought, v) = {k \in Refs : bought[k] = v}
      BY DEF KeysOf
    <3>2. purchased[v] = PackCredits * Cardinality(KeysOf(bought, v))
      BY <3>1 DEF PurchasePaidOnce
    <3> QED
      BY <3>2, KeysFinite
  <2>2. CASE v = u
    <3>1. KeysOf(bought', v) = KeysOf(bought, v) \cup {ref} /\ ref \notin KeysOf(bought, v)
      BY <1>2, <1>3, <2>2 DEF KeysOf
    <3>2. Cardinality(KeysOf(bought', v)) = n + 1
      BY <3>1, KeysFinite, FS_AddElement
    <3>3. purchased'[v] = purchased[v] + PackCredits
      BY <1>2, <1>3, <2>2
    <3> HIDE DEF n
    <3>4. PackCredits * (n + 1) = PackCredits * n + PackCredits
      BY ONLY <1>3, <2>1
    <3> QED
      BY <2>1, <3>2, <3>3, <3>4
  <2>3. CASE v # u
    <3>1. KeysOf(bought', v) = KeysOf(bought, v)
      BY <1>2, <1>3, <2>3 DEF KeysOf
    <3>2. purchased'[v] = purchased[v]
      BY <1>2, <1>3, <2>3
    <3> QED
      BY <2>1, <3>1, <3>2
  <2> QED
    BY <2>2, <2>3
<1> QED
  BY <1>5, <1>6 DEF PurchasePaidOnce, KeysOf

(* A credit purchase is paid once under its key although the pre-check of  *)
(* its key is outside the transaction, and a user's credits are those of   *)
(* the purchases paid.                                                     *)
THEOREM PurchasesPaidOnce == Spec => []PurchasePaidOnce
<1>1. Init => PurchasePaidOnce
  <2> SUFFICES ASSUME Init, NEW u \in Users
               PROVE  /\ \A ref \in Refs : rows[u][<<ref, "credits">>] =
                                             IF bought[ref] = u THEN 1 ELSE 0
                      /\ purchased[u] = PackCredits * Cardinality(KeysOf(bought, u))
    BY DEF PurchasePaidOnce, KeysOf
  <2>1. /\ \A ref \in Refs : bought[ref] = Nobody
        /\ Nobody \notin Users /\ PackCredits \in Nat
        /\ purchased[u] = 0
    BY WalletAssumption DEF Init
  <2>2. \A ref \in Refs : rows[u][<<ref, "credits">>] = 0
    BY DEF Init, RowTypes
  <2>3. KeysOf(bought, u) = {}
    BY <2>1 DEF KeysOf
  <2>4. Cardinality({}) = 0
    BY FS_EmptySet
  <2>5. PackCredits * 0 = 0
    BY ONLY <2>1
  <2> QED
    BY <2>1, <2>2, <2>3, <2>4, <2>5
<1>2. TypeOK /\ PurchasePaidOnce /\ [Next]_vars => PurchasePaidOnce'
  <2> SUFFICES ASSUME TypeOK, PurchasePaidOnce, [Next]_vars PROVE PurchasePaidOnce'
    OBVIOUS
  <2>1. ASSUME UNCHANGED <<rows, bought, purchased>>
        PROVE  PurchasePaidOnce'
    BY <2>1, NothingBought
  <2>2. ASSUME NEW r \in Requests, CommitSpend(r)
        PROVE  PurchasePaidOnce'
    <3>1. inflight[r].hold \in Holds /\ inflight[r].ref \in Refs
      BY <2>2, RequestShape DEF CommitSpend, TypeOK
    <3>2. hold[inflight[r].hold].owner \in Users
      BY <2>2, <3>1 DEF CommitSpend, Active, TypeOK
    <3> QED
      BY <2>2, <3>1, <3>2, OtherRecorded DEF CommitSpend, RowTypes
  <2>3. ASSUME NEW r \in Requests, CommitRelease(r)
        PROVE  PurchasePaidOnce'
    <3>1. inflight[r].hold \in Holds /\ inflight[r].ref \in Refs
      BY <2>3, RequestShape DEF CommitRelease, TypeOK
    <3>2. hold[inflight[r].hold].owner \in Users
      BY <2>3, <3>1 DEF CommitRelease, Unlock, Active, TypeOK
    <3> QED
      BY <2>3, <3>1, <3>2, OtherRecorded DEF CommitRelease, RowTypes
  <2>4. ASSUME NEW r \in Requests, CommitRefund(r)
        PROVE  PurchasePaidOnce'
    <3>1. inflight[r].user \in Users /\ inflight[r].ref \in Refs
      BY <2>4, RequestShape DEF CommitRefund, TypeOK
    <3> QED
      BY <2>4, <3>1, OtherRecorded DEF CommitRefund, RowTypes
  <2>5. ASSUME NEW r \in Requests, CommitBuy(r)
        PROVE  PurchasePaidOnce'
    BY <2>5, PurchaseCommitted
  <2>6. ASSUME NEW r \in Requests,
               Admission(r) \/ CommitHold(r) \/ CommitRebind(r) \/ Abandon(r)
        PROVE  PurchasePaidOnce'
    BY <2>1, <2>6, AdmissionShape DEF Admit, CommitHold, CommitRebind, Abandon
  <2>7. ASSUME NEW k \in Holds, Elapse(k) \/ ExpireHold(k)
        PROVE  PurchasePaidOnce'
    BY <2>1, <2>7 DEF Elapse, ExpireHold
  <2>8. ASSUME NEW u \in Users, NEW a \in Cents, Deposit(u, a)
        PROVE  PurchasePaidOnce'
    BY <2>1, <2>8 DEF Deposit
  <2>9. CASE UNCHANGED vars
    BY <2>1, <2>9 DEF vars
  <2> QED
    BY <2>2, <2>3, <2>4, <2>5, <2>6, <2>7, <2>8, <2>9 DEF Next, Commit
<1> QED
  BY <1>1, <1>2, InitType, TypeStep, PTL DEF Spec

-----------------------------------------------------------------------------
(* The life of a hold.                                                     *)

(* What one step may do to hold k when it is not a rebind of k.            *)
Kept(k) == hold'[k] = hold[k] /\ charged'[k] = charged[k]
Opened(k) == /\ hold[k].status = "absent" /\ hold'[k].status = "active"
             /\ charged'[k] = charged[k]
Spent(k) == /\ hold[k].status = "active" /\ hold'[k].status = "spent"
            /\ hold'[k].cents = hold[k].cents
            /\ \E a \in Cents : /\ a <= hold[k].cents
                                /\ charged'[k] = charged[k] + a
Returned(k) == /\ hold[k].status = "active" /\ hold'[k].status \in {"released", "expired"}
               /\ charged'[k] = charged[k]
               /\ hold'[k].cents = hold[k].cents
Life(k) == Kept(k) \/ Opened(k) \/ Spent(k) \/ Returned(k)

(* Whatever step is taken, a hold that is not rebound is kept, opened from *)
(* nothing, spent while active or returned while active.                   *)
LEMMA HoldLife ==
  ASSUME TypeOK, [Next]_vars, NEW k \in Holds \ Rebound
  PROVE  Life(k)
<1> USE DEF Life
<1>1. ASSUME UNCHANGED <<hold, charged>>
      PROVE  Life(k)
  BY <1>1 DEF Kept
<1>2. ASSUME NEW j \in Holds, NEW s \in {"released", "expired"}, Unlock(j, s),
             UNCHANGED charged
      PROVE  Life(k)
  <2>1. CASE j = k
    BY <1>2, <2>1 DEF Unlock, Active, Returned, TypeOK, HoldRow
  <2>2. CASE j # k
    BY <1>2, <2>2 DEF Unlock, Kept, TypeOK
  <2> QED
    BY <2>1, <2>2
<1>3. ASSUME NEW r \in Requests, CommitHold(r)
      PROVE  Life(k)
  <2>1. inflight[r].hold \in Holds
    BY <1>3, RequestShape DEF CommitHold, TypeOK
  <2>2. CASE inflight[r].hold = k
    BY <1>3, <2>2 DEF CommitHold, Opened, TypeOK
  <2>3. CASE inflight[r].hold # k
    BY <1>3, <2>1, <2>3 DEF CommitHold, Kept, TypeOK
  <2> QED
    BY <2>2, <2>3
<1>4. ASSUME NEW r \in Requests, CommitSpend(r)
      PROVE  Life(k)
  <2>1. inflight[r].hold \in Holds /\ inflight[r].cents \in Cents
    BY <1>4, RequestShape DEF CommitSpend, TypeOK
  <2>2. CASE inflight[r].hold = k
    <3>1. hold[k].status = "active" /\ inflight[r].cents <= hold[k].cents
      BY <1>4, <2>2 DEF CommitSpend, Active
    <3>2. hold'[k].status = "spent" /\ hold'[k].cents = hold[k].cents
      BY <1>4, <2>2 DEF CommitSpend, TypeOK, HoldRow
    <3>3. charged'[k] = charged[k] + inflight[r].cents
      BY <1>4, <2>2 DEF CommitSpend, TypeOK
    <3> QED
      BY <2>1, <3>1, <3>2, <3>3 DEF Spent
  <2>3. CASE inflight[r].hold # k
    BY <1>4, <2>1, <2>3 DEF CommitSpend, Kept, TypeOK
  <2> QED
    BY <2>2, <2>3
<1>5. ASSUME NEW r \in Requests, CommitRelease(r)
      PROVE  Life(k)
  <2>1. inflight[r].hold \in Holds
    BY <1>5, RequestShape DEF CommitRelease, TypeOK
  <2> QED
    BY <1>2, <1>5, <2>1 DEF CommitRelease
<1>6. ASSUME NEW r \in Requests, CommitRebind(r)
      PROVE  Life(k)
  <2>1. inflight[r].hold # k
    BY <1>6, RequestShape DEF CommitRebind, TypeOK
  <2> QED
    BY <1>6, <2>1 DEF CommitRebind, Kept, TypeOK
<1>7. ASSUME NEW r \in Requests, CommitRefund(r) \/ CommitBuy(r) \/ Abandon(r) \/ Admission(r)
      PROVE  Life(k)
  BY <1>1, <1>7, AdmissionShape DEF CommitRefund, CommitBuy, Abandon, Admit
<1>8. ASSUME NEW u \in Users, NEW a \in Cents, Deposit(u, a)
      PROVE  Life(k)
  BY <1>1, <1>8 DEF Deposit
<1>9. ASSUME NEW j \in Holds, Elapse(j) \/ ExpireHold(j)
      PROVE  Life(k)
  BY <1>1, <1>2, <1>9 DEF Elapse, ExpireHold
<1>10. CASE UNCHANGED vars
  BY <1>1, <1>10 DEF vars
<1> QED
  BY <1>3, <1>4, <1>5, <1>6, <1>7, <1>8, <1>9, <1>10 DEF Next, Commit

(* A hold that is not rebound is charged at most its own amount, and only  *)
(* when it ends as spent.                                                  *)
THEOREM ChargedOnlyAsSpent == Spec => []ChargedAsSpent
<1>1. Init => ChargedAsSpent
  BY WalletAssumption DEF Init, ChargedAsSpent, NoRow
<1>2. TypeOK /\ ChargedAsSpent /\ [Next]_vars => ChargedAsSpent'
  <2> SUFFICES ASSUME TypeOK, TypeOK', ChargedAsSpent, [Next]_vars,
                      NEW k \in Holds \ Rebound
               PROVE  /\ charged'[k] <= hold'[k].cents
                      /\ charged'[k] > 0 <=> hold'[k].status = "spent"
    BY TypeStep DEF ChargedAsSpent
  <2>1. /\ charged[k] \in Nat /\ hold[k].cents \in Nat /\ hold'[k].cents \in Nat
        /\ charged[k] <= hold[k].cents
        /\ charged[k] > 0 <=> hold[k].status = "spent"
    BY DEF TypeOK, HoldRow, ChargedAsSpent
  <2>2. \A a \in Cents : a \in Nat /\ a > 0
    BY DEF Cents
  <2>3. Life(k)
    BY HoldLife
  <2> QED
    BY <2>1, <2>2, <2>3 DEF Life, Kept, Opened, Spent, Returned
<1> QED
  BY <1>1, <1>2, InitType, TypeStep, PTL DEF Spec

(* No step of any request or job changes a settled hold that is not        *)
(* rebound.                                                                *)
THEOREM SettledHoldsAreFinal == Spec => SettledIsFinal
<1> DEFINE Final == \A k \in Holds \ Rebound : hold[k].status \in Settled => hold'[k] = hold[k]
<1>1. TypeOK /\ [Next]_vars => [Final]_vars
  <2> SUFFICES ASSUME TypeOK, [Next]_vars, NEW k \in Holds \ Rebound,
                      hold[k].status \in Settled
               PROVE  hold'[k] = hold[k]
    OBVIOUS
  <2>1. hold[k].status \notin {"absent", "active"}
    BY DEF Settled
  <2> QED
    BY <2>1, HoldLife DEF Life, Kept, Opened, Spent, Returned
<1> QED
  BY <1>1, InitType, TypeStep, PTL DEF Spec, SettledIsFinal

-----------------------------------------------------------------------------
(* The wallet implements the promise made to the product flows.            *)

(* A hold whose key was never committed has an empty row.                  *)
LEMMA AbsentStep == TypeOK /\ AbsentRowsBlank /\ [Next]_vars => AbsentRowsBlank'
<1> SUFFICES ASSUME TypeOK, AbsentRowsBlank, [Next]_vars, NEW k \in Holds,
                    hold'[k].status = "absent"
             PROVE  hold'[k] = NoRow
  BY DEF AbsentRowsBlank
<1>1. hold'[k] = hold[k]
  <2>1. CASE k \notin Rebound
    BY <2>1, HoldLife DEF Life, Kept, Opened, Spent, Returned
  <2>2. ASSUME NEW j \in Holds, NEW s \in Settled, Unlock(j, s)
        PROVE  hold'[k] = hold[k]
    BY <2>2 DEF Unlock, TypeOK, HoldRow, Settled
  <2>3. ASSUME NEW r \in Requests, CommitHold(r)
        PROVE  hold'[k] = hold[k]
    BY <2>3, RequestShape DEF CommitHold, TypeOK
  <2>4. ASSUME NEW r \in Requests, CommitSpend(r)
        PROVE  hold'[k] = hold[k]
    BY <2>4, RequestShape DEF CommitSpend, TypeOK, HoldRow
  <2>5. ASSUME NEW r \in Requests, CommitRelease(r)
        PROVE  hold'[k] = hold[k]
    BY <2>2, <2>5, RequestShape DEF CommitRelease, TypeOK, Settled
  <2>6. ASSUME NEW r \in Requests, CommitRebind(r)
        PROVE  hold'[k] = hold[k]
    <3>1. PICK j \in Rebound :
            /\ inflight[r].op = "rebind" /\ inflight[r].hold = j
            /\ hold' = [hold EXCEPT ![j].status = inflight[r].seen]
      BY <2>6 DEF CommitRebind
    <3>2. j # k => hold'[k] = hold[k]
      BY <3>1 DEF TypeOK
    <3>3. j = k => inflight[r].seen = "absent" /\ hold[k].status # "absent"
      BY <3>1 DEF TypeOK, HoldRow
    <3>4. inflight[r].seen # "absent"
      BY <3>1, RequestShape DEF TypeOK, Settled
    <3> QED  BY <3>2, <3>3, <3>4
  <2>7. ASSUME NEW r \in Requests,
               CommitRefund(r) \/ CommitBuy(r) \/ Abandon(r) \/ Admission(r)
        PROVE  hold'[k] = hold[k]
    BY <2>7, AdmissionShape DEF CommitRefund, CommitBuy, Abandon, Admit
  <2>8. ASSUME NEW u \in Users, NEW a \in Cents, Deposit(u, a)
        PROVE  hold'[k] = hold[k]
    BY <2>8 DEF Deposit
  <2>9. ASSUME NEW j \in Holds, Elapse(j) \/ ExpireHold(j)
        PROVE  hold'[k] = hold[k]
    BY <2>2, <2>9 DEF Elapse, ExpireHold, Settled
  <2>10. CASE UNCHANGED vars
    BY <2>10 DEF vars
  <2> QED
    BY <2>3, <2>4, <2>5, <2>6, <2>7, <2>8, <2>9, <2>10 DEF Next, Commit
<1> QED
  BY <1>1 DEF AbsentRowsBlank

(* The contract's variables, as functions of the ledger's state.           *)
Free == [u \in Users |-> Available(u)]
Holder == [k \in Holds |-> hold[k].owner]
Open == {k \in Holds : Active(k)}
Size == [k \in Holds |-> hold[k].cents]

(* Closing an active hold in the ledger, with back cents of it not spent,  *)
(* is closing it in the contract.                                          *)
LEMMA CloseStep ==
  ASSUME TypeOK, NEW k \in Holds, Active(k), NEW s \in Settled,
         NEW cost \in 0..hold[k].cents,
         hold' = [hold EXCEPT ![k].status = s],
         balance' = [balance EXCEPT ![hold[k].owner] = @ - cost],
         locked' = [locked EXCEPT ![hold[k].owner] = @ - hold[k].cents]
  PROVE  Contract!Next
<1> DEFINE back == hold[k].cents - cost
<1>1. /\ hold[k].owner \in Users /\ hold[k].cents \in Nat /\ cost \in Nat
      /\ back \in 0..hold[k].cents
  BY DEF TypeOK, Active, HoldRow
<1>2. Free' = [Free EXCEPT ![hold[k].owner] = @ + back]
  <2>1. \A u \in Users : balance[u] \in Nat /\ locked[u] \in Nat
    BY DEF TypeOK
  <2>2. \A u \in Users :
          balance'[u] - locked'[u] = IF u = hold[k].owner
                                     THEN balance[u] - locked[u] + back
                                     ELSE balance[u] - locked[u]
    BY <1>1, <2>1 DEF TypeOK
  <2> QED
    BY <1>1, <2>2 DEF Free, Available
<1>3. Open' = Open \ {k} /\ k \in Open
  BY DEF Open, Active, TypeOK, HoldRow, Settled
<1>4. Holder' = Holder /\ Size' = Size /\ Holder[k] = hold[k].owner /\ Size[k] = hold[k].cents
  BY DEF Holder, Size, TypeOK, HoldRow
<1>5. Contract!Close(k, back)
  BY <1>2, <1>3, <1>4 DEF Contract!Close, Free, Open, Holder, Size
<1> QED
  BY <1>1, <1>4, <1>5 DEF Contract!Next, Size

(* A step that changes a balance and no hold moves the free balance alone. *)
LEMMA EarnStep ==
  ASSUME TypeOK, NEW u \in Users, NEW a \in Cents,
         balance' = [balance EXCEPT ![u] = @ + a], UNCHANGED <<locked, hold>>
  PROVE  Contract!Next
<1>1. Free' = [Free EXCEPT ![u] = @ + a]
  <2>1. \A v \in Users : balance[v] \in Nat /\ locked[v] \in Nat /\ a \in Nat
    BY DEF TypeOK, Cents
  <2>2. \A v \in Users :
          balance'[v] - locked'[v] = IF v = u THEN balance[v] - locked[v] + a
                                     ELSE balance[v] - locked[v]
    BY <2>1 DEF TypeOK
  <2> QED
    BY <2>2 DEF Free, Available
<1>2. Contract!Earn(u, a)
  BY <1>1 DEF Contract!Earn, Free, Active
<1> QED
  BY <1>2 DEF Contract!Next

(* Creating a hold in the ledger is opening it in the contract.            *)
LEMMA OpenStep ==
  ASSUME TypeOK, NEW u \in Users, NEW k \in Holds, NEW a \in Cents,
         Available(u) >= a, hold[k] = NoRow,
         locked' = [locked EXCEPT ![u] = @ + a],
         hold' = [hold EXCEPT ![k] = [status |-> "active", owner |-> u, cents |-> a]],
         balance' = balance
  PROVE  Contract!Next
<1>1. /\ \A v \in Users : balance[v] \in Nat /\ locked[v] \in Nat
      /\ a \in Nat
  BY DEF TypeOK, Cents
<1>2. \A v \in Users :
        balance'[v] - locked'[v] = IF v = u THEN balance[v] - locked[v] - a
                                   ELSE balance[v] - locked[v]
  BY <1>1 DEF TypeOK
<1>3. Free' = [Free EXCEPT ![u] = @ - a] /\ a <= Free[u]
  BY <1>1, <1>2 DEF Free, Available
<1>4. /\ Holder' = [Holder EXCEPT ![k] = u]
      /\ Size' = [Size EXCEPT ![k] = a]
      /\ Open' = Open \cup {k}
  BY DEF Holder, Size, Open, Active, TypeOK
<1>5. Holder[k] = Nobody
  BY DEF Holder, NoRow
<1>6. Contract!Open(u, k, a)
  BY <1>3, <1>4, <1>5 DEF Contract!Open, Free, Holder, Size, Open
<1> QED
  BY <1>6 DEF Contract!Next

LEMMA ContractStep ==
  ASSUME Rebound = {}, TypeOK, AbsentRowsBlank, [Next]_vars
  PROVE  [Contract!Next]_(Contract!cvars)
<1>0. ASSUME UNCHANGED <<balance, locked, hold>>
      PROVE  UNCHANGED Contract!cvars
  BY <1>0 DEF Contract!cvars, Available, Active
<1>1. ASSUME NEW u \in Users, NEW a \in Cents, Deposit(u, a)
      PROVE  Contract!Next
  BY <1>1, EarnStep DEF Deposit
<1>2. ASSUME NEW r \in Requests, CommitHold(r)
      PROVE  Contract!Next
  <2> DEFINE u == inflight[r].user
             k == inflight[r].hold
             a == inflight[r].cents
  <2>1. u \in Users /\ k \in Holds /\ a \in Cents
    BY <1>2, RequestShape DEF CommitHold, TypeOK
  <2>2. hold[k] = NoRow
    BY <1>2, <2>1 DEF CommitHold, AbsentRowsBlank
  <2>3. /\ Available(u) >= a
        /\ locked' = [locked EXCEPT ![u] = @ + a]
        /\ hold' = [hold EXCEPT ![k] = [status |-> "active", owner |-> u, cents |-> a]]
        /\ balance' = balance
    BY <1>2 DEF CommitHold
  <2> HIDE DEF u, k, a
  <2> QED
    BY <2>1, <2>2, <2>3, OpenStep
<1>3. ASSUME NEW r \in Requests, CommitSpend(r)
      PROVE  Contract!Next
  <2>1. inflight[r].hold \in Holds /\ inflight[r].cents \in Cents
    BY <1>3, RequestShape DEF CommitSpend, TypeOK
  <2>2. inflight[r].cents \in 0..hold[inflight[r].hold].cents /\ "spent" \in Settled
    BY <1>3, <2>1 DEF CommitSpend, Cents, TypeOK, HoldRow, Settled
  <2> DEFINE k == inflight[r].hold
             cost == inflight[r].cents
  <2>3. /\ Active(k)
        /\ hold' = [hold EXCEPT ![k].status = "spent"]
        /\ balance' = [balance EXCEPT ![hold[k].owner] = @ - cost]
        /\ locked' = [locked EXCEPT ![hold[k].owner] = @ - hold[k].cents]
    BY <1>3 DEF CommitSpend
  <2> HIDE DEF k, cost
  <2>4. k \in Holds /\ cost \in 0..hold[k].cents
    BY <2>1, <2>2 DEF k, cost
  <2> QED
    BY <2>2, <2>3, <2>4, CloseStep
<1>4. ASSUME NEW k \in Holds, NEW s \in Settled, Unlock(k, s), UNCHANGED balance
      PROVE  Contract!Next
  <2>1. /\ hold[k].owner \in Users /\ 0 \in 0..hold[k].cents
        /\ balance' = [balance EXCEPT ![hold[k].owner] = @ - 0]
    BY <1>4 DEF Unlock, Active, TypeOK, HoldRow
  <2> QED
    BY <1>4, <2>1, CloseStep DEF Unlock
<1>5. ASSUME NEW r \in Requests, CommitRelease(r)
      PROVE  Contract!Next
  BY <1>4, <1>5, RequestShape DEF CommitRelease, TypeOK, Settled
<1>6. ASSUME NEW r \in Requests, CommitRefund(r)
      PROVE  Contract!Next
  BY <1>6, EarnStep, RequestShape DEF CommitRefund, TypeOK
<1>7. ASSUME NEW r \in Requests, CommitBuy(r)
      PROVE  Contract!Next
  <2>1. inflight[r].user \in Users
    BY <1>7, RequestShape DEF CommitBuy, TypeOK
  <2>2. Free' = [Free EXCEPT ![inflight[r].user] = @ - PackCents]
    BY <1>7, <2>1, WalletAssumption DEF CommitBuy, Free, Available, TypeOK
  <2>3. PackCents <= Free[inflight[r].user]
    BY <1>7, <2>1, WalletAssumption DEF CommitBuy, Free, Available, TypeOK
  <2>4. Contract!Pay(inflight[r].user)
    BY <1>7, <2>2, <2>3 DEF CommitBuy, Contract!Pay, Free, Active
  <2> QED
    BY <2>1, <2>4 DEF Contract!Next
<1>8. ASSUME NEW r \in Requests, CommitRebind(r)
      PROVE  FALSE
  BY <1>8, RequestShape DEF CommitRebind, TypeOK
<1>9. ASSUME NEW r \in Requests, Abandon(r) \/ Admission(r)
      PROVE  UNCHANGED Contract!cvars
  BY <1>0, <1>9, AdmissionShape DEF Abandon, Admit, wallets
<1>10. ASSUME NEW k \in Holds, Elapse(k)
       PROVE  UNCHANGED Contract!cvars
  BY <1>0, <1>10 DEF Elapse, wallets
<1>11. ASSUME NEW k \in Holds, ExpireHold(k)
       PROVE  Contract!Next
  BY <1>4, <1>11 DEF ExpireHold, Settled
<1>12. CASE UNCHANGED vars
  BY <1>0, <1>12 DEF vars
<1> QED
  BY <1>1, <1>2, <1>3, <1>5, <1>6, <1>7, <1>8, <1>9, <1>10, <1>11, <1>12
     DEF Next, Commit

(* Every behaviour of the wallet without rebinding is one the product      *)
(* flows are promised: a hold opened from the free balance once, closed    *)
(* once, giving back at most its own cents.                                *)
THEOREM WalletImplementsContract ==
  ASSUME Rebound = {}
  PROVE  Spec => ImplementsContract
<1>1. Init => Contract!Init
  BY DEF Init, Contract!Init, Available, Active, NoRow
<1>2. Init => AbsentRowsBlank
  BY DEF Init, AbsentRowsBlank
<1>3. TypeOK /\ AbsentRowsBlank /\ [Next]_vars => [Contract!Next]_(Contract!cvars)
  BY ContractStep
<1> QED
  BY <1>1, <1>2, <1>3, InitType, TypeStep, AbsentStep, PTL
     DEF Spec, ImplementsContract, Contract!Spec

=============================================================================
