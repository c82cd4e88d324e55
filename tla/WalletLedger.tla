---------------------------- MODULE WalletLedger ----------------------------
(***************************************************************************)
(* The wallet ledger of CreditsService and UsersService: the wallets row   *)
(* of each user (balance and locked balance), its mirror in users, the     *)
(* wallet_locks rows ("holds"), the reference ids already present in       *)
(* wallet_transactions and the call-credit packages bought from the        *)
(* wallet.                                                                 *)
(*                                                                         *)
(* Every operation has the shape the service gives it.  It first looks for *)
(* an earlier wallet transaction with its idempotency key, OUTSIDE any     *)
(* database transaction (the Admit actions); when there is none it opens a *)
(* transaction that locks the wallet row and does all its reads and writes *)
(* (the Commit actions).  Between the two, other requests and the minutely *)
(* expiry job run.  Abandon stands for everything that ends a request      *)
(* without a commit: a rejected guard, a database error, a crash.          *)
(***************************************************************************)
EXTENDS Integers, FiniteSets

CONSTANTS Users,     \* owners of wallets
          Nobody,    \* the owner of a wallet_locks row that does not exist
          Holds,     \* idempotency keys of createWalletLock, unique in wallet_locks
          Rebound,   \* the holds rebindWalletLockEntity is called on (number provisioning)
          Refs,      \* idempotency keys of the other operations
          Requests,  \* slots for requests in flight
          MaxCents,  \* bound: largest amount of one operation
          MaxBalance,\* bound: largest balance deposits and refunds build up
          PackCents, \* price of the call-credit package
          PackCredits\* base and bonus credits of the package

ASSUME WalletAssumption ==
  /\ IsFiniteSet(Users) /\ Nobody \notin Users
  /\ IsFiniteSet(Holds) /\ Rebound \subseteq Holds
  /\ IsFiniteSet(Refs)
  /\ MaxCents \in Nat \ {0} /\ MaxBalance \in Nat
  /\ PackCents \in Nat \ {0} /\ PackCredits \in Nat \ {0}

VARIABLES balance,   \* wallets.balance_usd_cents
          locked,    \* wallets.locked_balance_usd_cents
          mirror,    \* users.wallet_balance_usd_cents
          hold,      \* wallet_locks
          due,       \* the holds whose expires_at has passed
          rows,      \* wallet_transactions per user: how many rows of a reference and type
          bought,    \* credit_transactions PURCHASE rows: key -> the buyer
          purchased, \* credit_accounts.lifetime_credits_purchased
          inflight,  \* request slot -> the request past its pre-check
          charged,   \* history: cents ever debited against a hold
          drift      \* history: cents stale rebinds made active again (or the reverse)

vars == <<balance, locked, mirror, hold, due, rows, bought, purchased,
          inflight, charged, drift>>

wallets == <<balance, locked, mirror>>

-----------------------------------------------------------------------------
(* Data.                                                                   *)

Cents == 1..MaxCents
Settled == {"spent", "released", "expired"}
RowTypes == {"purchase", "release", "refund", "credits"}

HoldRow == [status : {"absent", "active"} \cup Settled,
            owner : Users \cup {Nobody},
            cents : 0..MaxCents]
NoRow == [status |-> "absent", owner |-> Nobody, cents |-> 0]

Idle == [op |-> "idle"]
Request == {Idle}
  \cup [op : {"hold"}, user : Users, hold : Holds, cents : Cents]
  \cup [op : {"spend"}, hold : Holds, ref : Refs, cents : Cents]
  \cup [op : {"release"}, hold : Holds, ref : Refs]
  \cup [op : {"refund"}, user : Users, ref : Refs, cents : Cents]
  \cup [op : {"buy"}, user : Users, ref : Refs]
  \cup [op : {"rebind"}, hold : Rebound, seen : {"active"} \cup Settled]

Active(k) == hold[k].status = "active"

(* The cents of the user's active holds in a wallet_locks table h, one     *)
(* element per cent: their number is the sum of the amounts.               *)
HeldIn(h, u) == {c \in Holds \X Cents : /\ h[c[1]].status = "active"
                                       /\ h[c[1]].owner = u
                                       /\ c[2] <= h[c[1]].cents}

HeldTotal(u) == Cardinality(HeldIn(hold, u))

Available(u) == balance[u] - locked[u]

(* findWalletTransactionByReference, without and with a type.              *)
Recorded(u, ref) == \E t \in RowTypes : rows[u][<<ref, t>>] > 0
RecordedAs(u, ref, t) == rows[u][<<ref, t>>] > 0

Record(u, ref, t) == rows' = [rows EXCEPT ![u][<<ref, t>>] = @ + 1]

-----------------------------------------------------------------------------
Init ==
  /\ balance = [u \in Users |-> 0]
  /\ locked = [u \in Users |-> 0]
  /\ mirror = [u \in Users |-> 0]
  /\ hold = [k \in Holds |-> NoRow]
  /\ due = {}
  /\ rows = [u \in Users |-> [rt \in Refs \X RowTypes |-> 0]]
  /\ bought = [ref \in Refs |-> Nobody]
  /\ purchased = [u \in Users |-> 0]
  /\ inflight = [r \in Requests |-> Idle]
  /\ charged = [k \in Holds |-> 0]
  /\ drift = [u \in Users |-> 0]

(* UsersService.creditWallet: a paid deposit or a bonus reaches the wallet *)
(* and the mirror in one transaction.                                      *)
Deposit(u, a) ==
  /\ balance[u] + a <= MaxBalance
  /\ balance' = [balance EXCEPT ![u] = @ + a]
  /\ mirror' = [mirror EXCEPT ![u] = balance[u] + a]
  /\ UNCHANGED <<locked, hold, due, rows, bought, purchased, inflight, charged, drift>>

-----------------------------------------------------------------------------
(* The pre-checks.  A request whose key is already recorded answers from   *)
(* the recorded row and changes nothing, so only the others are admitted.  *)

Admit(r, req) ==
  /\ inflight[r] = Idle
  /\ inflight' = [inflight EXCEPT ![r] = req]
  /\ UNCHANGED <<wallets, hold, due, rows, bought, purchased, charged, drift>>

AdmitHold(r, u, k, a) ==
  /\ hold[k].owner # u
  /\ Admit(r, [op |-> "hold", user |-> u, hold |-> k, cents |-> a])

AdmitSpend(r, k, ref, a) ==
  /\ hold[k].status # "absent"
  /\ ~Recorded(hold[k].owner, ref)
  /\ Admit(r, [op |-> "spend", hold |-> k, ref |-> ref, cents |-> a])

AdmitRelease(r, k, ref) ==
  /\ hold[k].status # "absent"
  /\ ~RecordedAs(hold[k].owner, ref, "release")
  /\ Admit(r, [op |-> "release", hold |-> k, ref |-> ref])

AdmitRefund(r, u, ref, a) ==
  /\ ~Recorded(u, ref)
  /\ Admit(r, [op |-> "refund", user |-> u, ref |-> ref, cents |-> a])

AdmitBuy(r, u, ref) ==
  /\ bought[ref] = Nobody
  /\ Admit(r, [op |-> "buy", user |-> u, ref |-> ref])

(* rebindWalletLockEntity reads the whole row without a lock ...           *)
AdmitRebind(r, k) ==
  /\ hold[k].status # "absent"
  /\ Admit(r, [op |-> "rebind", hold |-> k, seen |-> hold[k].status])

-----------------------------------------------------------------------------
(* The transactions.  The wallet row is locked before anything is read, so *)
(* each is one step.  A conjunct that compares with a CHECK constraint of  *)
(* the wallets table (balance and locked balance are never negative) is    *)
(* the database refusing to commit.                                        *)

Finish(r) == inflight' = [inflight EXCEPT ![r] = Idle]

(* Seeded fault: compares with the balance instead of what is available.   *)
CommitHoldOnBalance(r) ==
  LET q == inflight[r] IN
  /\ q.op = "hold"
  /\ balance[q.user] >= q.cents
  /\ hold[q.hold].status = "absent"
  /\ locked' = [locked EXCEPT ![q.user] = @ + q.cents]
  /\ hold' = [hold EXCEPT ![q.hold] =
                [status |-> "active", owner |-> q.user, cents |-> q.cents]]
  /\ Finish(r)
  /\ UNCHANGED <<balance, mirror, due, rows, bought, purchased, charged, drift>>

(* createWalletLock: the key is unique in wallet_locks.                    *)
CommitHold(r) ==
  LET q == inflight[r] IN
  /\ q.op = "hold"
  /\ Available(q.user) >= q.cents
  /\ hold[q.hold].status = "absent"
  /\ locked' = [locked EXCEPT ![q.user] = @ + q.cents]
  /\ hold' = [hold EXCEPT ![q.hold] =
                [status |-> "active", owner |-> q.user, cents |-> q.cents]]
  /\ Finish(r)
  /\ UNCHANGED <<balance, mirror, due, rows, bought, purchased, charged, drift>>

(* Seeded fault: the status of the hold is not looked at again.            *)
CommitSpendSettled(r) ==
  LET q == inflight[r]
      k == q.hold
      u == hold[k].owner IN
  /\ q.op = "spend"
  /\ q.cents <= hold[k].cents
  /\ balance[u] >= q.cents
  /\ balance' = [balance EXCEPT ![u] = @ - q.cents]
  /\ locked' = [locked EXCEPT ![u] = IF Active(k) THEN @ - hold[k].cents ELSE @]
  /\ mirror' = [mirror EXCEPT ![u] = balance[u] - q.cents]
  /\ hold' = [hold EXCEPT ![k].status = "spent"]
  /\ charged' = [charged EXCEPT ![k] = @ + q.cents]
  /\ Record(u, q.ref, "purchase")
  /\ Finish(r)
  /\ UNCHANGED <<due, bought, purchased, drift>>

(* Seeded fault: more can be spent than was held.                          *)
CommitSpendOver(r) ==
  LET q == inflight[r]
      k == q.hold
      u == hold[k].owner IN
  /\ q.op = "spend"
  /\ Active(k)
  /\ balance[u] >= q.cents /\ locked[u] >= hold[k].cents
  /\ balance' = [balance EXCEPT ![u] = @ - q.cents]
  /\ locked' = [locked EXCEPT ![u] = @ - hold[k].cents]
  /\ mirror' = [mirror EXCEPT ![u] = balance[u] - q.cents]
  /\ hold' = [hold EXCEPT ![k].status = "spent"]
  /\ charged' = [charged EXCEPT ![k] = @ + q.cents]
  /\ Record(u, q.ref, "purchase")
  /\ Finish(r)
  /\ UNCHANGED <<due, bought, purchased, drift>>

(* spendWalletLock: the balance loses what is spent, the locked balance    *)
(* the whole hold.                                                         *)
CommitSpend(r) ==
  LET q == inflight[r]
      k == q.hold
      u == hold[k].owner IN
  /\ q.op = "spend"
  /\ Active(k)
  /\ q.cents <= hold[k].cents
  /\ balance[u] >= q.cents /\ locked[u] >= hold[k].cents
  /\ balance' = [balance EXCEPT ![u] = @ - q.cents]
  /\ locked' = [locked EXCEPT ![u] = @ - hold[k].cents]
  /\ mirror' = [mirror EXCEPT ![u] = balance[u] - q.cents]
  /\ hold' = [hold EXCEPT ![k].status = "spent"]
  /\ charged' = [charged EXCEPT ![k] = @ + q.cents]
  /\ Record(u, q.ref, "purchase")
  /\ Finish(r)
  /\ UNCHANGED <<due, bought, purchased, drift>>

(* Seeded fault: the last cents of a locked balance cannot be given back.  *)
UnlockShort(k, s) ==
  LET u == hold[k].owner IN
  /\ Active(k)
  /\ locked[u] > hold[k].cents
  /\ locked' = [locked EXCEPT ![u] = @ - hold[k].cents]
  /\ hold' = [hold EXCEPT ![k].status = s]

(* Give a hold back to the available balance, ending it in status s.       *)
Unlock(k, s) ==
  LET u == hold[k].owner IN
  /\ Active(k)
  /\ locked[u] >= hold[k].cents
  /\ locked' = [locked EXCEPT ![u] = @ - hold[k].cents]
  /\ hold' = [hold EXCEPT ![k].status = s]

CommitRelease(r) ==
  LET q == inflight[r] IN
  /\ q.op = "release"
  /\ Unlock(q.hold, "released")
  /\ Record(hold[q.hold].owner, q.ref, "release")
  /\ Finish(r)
  /\ UNCHANGED <<balance, mirror, due, bought, purchased, charged, drift>>

(* Seeded fault: the mirror is not synchronised.                           *)
CommitRefundUnmirrored(r) ==
  LET q == inflight[r] IN
  /\ q.op = "refund"
  /\ balance[q.user] + q.cents <= MaxBalance
  /\ balance' = [balance EXCEPT ![q.user] = @ + q.cents]
  /\ Record(q.user, q.ref, "refund")
  /\ Finish(r)
  /\ UNCHANGED <<locked, mirror, hold, due, bought, purchased, charged, drift>>

(* refundWallet: nothing in the transaction looks at the key again.        *)
CommitRefund(r) ==
  LET q == inflight[r] IN
  /\ q.op = "refund"
  /\ balance[q.user] + q.cents <= MaxBalance
  /\ balance' = [balance EXCEPT ![q.user] = @ + q.cents]
  /\ mirror' = [mirror EXCEPT ![q.user] = balance[q.user] + q.cents]
  /\ Record(q.user, q.ref, "refund")
  /\ Finish(r)
  /\ UNCHANGED <<locked, hold, due, bought, purchased, charged, drift>>

(* Seeded fault: the key of a purchase is not unique.                      *)
CommitBuyAgain(r) ==
  LET q == inflight[r] IN
  /\ q.op = "buy"
  /\ Available(q.user) >= PackCents
  /\ balance' = [balance EXCEPT ![q.user] = @ - PackCents]
  /\ mirror' = [mirror EXCEPT ![q.user] = balance[q.user] - PackCents]
  /\ bought' = [bought EXCEPT ![q.ref] = q.user]
  /\ purchased' = [purchased EXCEPT ![q.user] = @ + PackCredits]
  /\ Record(q.user, q.ref, "credits")
  /\ Finish(r)
  /\ UNCHANGED <<locked, hold, due, charged, drift>>

(* purchaseCredits: the key is unique in credit_transactions.              *)
CommitBuy(r) ==
  LET q == inflight[r] IN
  /\ q.op = "buy"
  /\ Available(q.user) >= PackCents
  /\ bought[q.ref] = Nobody
  /\ balance' = [balance EXCEPT ![q.user] = @ - PackCents]
  /\ mirror' = [mirror EXCEPT ![q.user] = balance[q.user] - PackCents]
  /\ bought' = [bought EXCEPT ![q.ref] = q.user]
  /\ purchased' = [purchased EXCEPT ![q.user] = @ + PackCredits]
  /\ Record(q.user, q.ref, "credits")
  /\ Finish(r)
  /\ UNCHANGED <<locked, hold, due, charged, drift>>

(* ... and save() writes back every column that differs from the row as it *)
(* is by then: a status that changed since the read is overwritten.        *)
CommitRebind(r) ==
  \E k \in Rebound :
    LET q == inflight[r] IN
    /\ q.op = "rebind" /\ q.hold = k
    /\ hold' = [hold EXCEPT ![k].status = q.seen]
    /\ drift' = [drift EXCEPT ![hold[k].owner] =
                   @ + CASE q.seen = "active" /\ ~Active(k) -> hold[k].cents
                         [] q.seen # "active" /\ Active(k) -> -hold[k].cents
                         [] OTHER -> 0]
    /\ Finish(r)
    /\ UNCHANGED <<wallets, due, rows, bought, purchased, charged>>

Abandon(r) ==
  /\ inflight[r] # Idle
  /\ Finish(r)
  /\ UNCHANGED <<wallets, hold, due, rows, bought, purchased, charged, drift>>

-----------------------------------------------------------------------------
(* Every hold is created with an expires_at; time passes it.               *)
Elapse(k) ==
  /\ hold[k].status # "absent" /\ k \notin due
  /\ due' = due \cup {k}
  /\ UNCHANGED <<wallets, hold, rows, bought, purchased, inflight, charged, drift>>

(* Seeded fault: the job trusts the status it listed the hold with.        *)
ExpireHoldStale(k) ==
  LET u == hold[k].owner IN
  /\ k \in due
  /\ locked[u] >= hold[k].cents
  /\ locked' = [locked EXCEPT ![u] = @ - hold[k].cents]
  /\ hold' = [hold EXCEPT ![k].status = "expired"]
  /\ UNCHANGED <<balance, mirror, due, rows, bought, purchased, inflight, charged, drift>>

(* One iteration of the minutely expireWalletLocks: the status is read     *)
(* again under the row lock.  Its release row has a key no request uses.   *)
ExpireHold(k) ==
  /\ k \in due
  /\ Unlock(k, "expired")
  /\ UNCHANGED <<balance, mirror, due, rows, bought, purchased, inflight, charged, drift>>

-----------------------------------------------------------------------------
Admission(r) ==
  \/ \E u \in Users, k \in Holds, a \in Cents : AdmitHold(r, u, k, a)
  \/ \E k \in Holds, ref \in Refs, a \in Cents : AdmitSpend(r, k, ref, a)
  \/ \E k \in Holds, ref \in Refs : AdmitRelease(r, k, ref)
  \/ \E u \in Users, ref \in Refs, a \in Cents : AdmitRefund(r, u, ref, a)
  \/ \E u \in Users, ref \in Refs : AdmitBuy(r, u, ref)
  \/ \E k \in Rebound : AdmitRebind(r, k)

Commit(r) ==
  \/ CommitHold(r)
  \/ CommitSpend(r)
  \/ CommitRelease(r)
  \/ CommitRefund(r)
  \/ CommitBuy(r)
  \/ CommitRebind(r)

Next ==
  \/ \E u \in Users, a \in Cents : Deposit(u, a)
  \/ \E r \in Requests : Admission(r) \/ Commit(r) \/ Abandon(r)
  \/ \E k \in Holds : Elapse(k) \/ ExpireHold(k)

Spec == Init /\ [][Next]_vars

(* The expiry job runs every minute and logs and retries what fails; no    *)
(* request is obliged to arrive, to commit or to be retried.               *)
FairSpec == Spec /\ \A k \in Holds : WF_vars(Elapse(k)) /\ WF_vars(ExpireHold(k))

-----------------------------------------------------------------------------
(* Correctness.                                                            *)

(* Every variable has the type its column and its uses give it.            *)
TypeOK ==
  /\ balance \in [Users -> Nat]
  /\ locked \in [Users -> Nat]
  /\ mirror \in [Users -> Nat]
  /\ hold \in [Holds -> HoldRow]
  /\ \A k \in Holds : hold[k].status # "absent" => hold[k].owner \in Users
  /\ due \subseteq Holds
  /\ rows \in [Users -> [Refs \X RowTypes -> Nat]]
  /\ bought \in [Refs -> Users \cup {Nobody}]
  /\ purchased \in [Users -> Nat]
  /\ inflight \in [Requests -> Request]
  /\ \A r \in Requests :
       inflight[r].op = "rebind" => hold[inflight[r].hold].status # "absent"
  /\ charged \in [Holds -> Nat]
  /\ drift \in [Users -> Int]

(* The locked balance of a wallet row is the sum of the user's active      *)
(* holds, whatever creates, spends, releases and expires them in whatever  *)
(* order; only a rebind that writes back a stale status takes the two      *)
(* apart, and by exactly the cents of that hold.                           *)
HoldsAccounted ==
  \A u \in Users : locked[u] + drift[u] = HeldTotal(u)

(* No more is locked than the wallet holds: concurrent holds and credit    *)
(* purchases together never promise the same cent twice.                   *)
NeverOvercommitted == \A u \in Users : locked[u] <= balance[u]

(* The two copies of the balance, wallets and users, never disagree        *)
(* between transactions of the credits service (sign-in, which saves a     *)
(* user's whole row from an earlier read, is outside this module).         *)
MirrorAgrees == mirror = balance

(* A key createWalletLock has not committed yet names no row at all.       *)
AbsentRowsBlank == \A k \in Holds : hold[k].status = "absent" => hold[k] = NoRow

(* A hold that is not rebound charges the user at most its own amount, and *)
(* only when it ends as spent: expiry, release and spend race for it and   *)
(* one of them wins.                                                       *)
ChargedAsSpent ==
  \A k \in Holds \ Rebound :
    /\ charged[k] <= hold[k].cents
    /\ charged[k] > 0 <=> hold[k].status = "spent"

(* A credit purchase is paid once under its key even when two requests     *)
(* with the key pass the pre-check together, and the credits granted are   *)
(* exactly those of the purchases paid.                                    *)
PurchasePaidOnce ==
  \A u \in Users :
    /\ \A ref \in Refs : rows[u][<<ref, "credits">>] = IF bought[ref] = u THEN 1 ELSE 0
    /\ purchased[u] = PackCredits * Cardinality({ref \in Refs : bought[ref] = u})

(* A settled hold that is not rebound stays as it was settled: no retry,   *)
(* late release or expiry changes its status, its owner or its amount.     *)
SettledIsFinal ==
  [][\A k \in Holds \ Rebound : hold[k].status \in Settled => hold'[k] = hold[k]]_vars

(* Without rebinding, every hold is eventually settled and its cents are   *)
(* available again, although no client ever comes back.                    *)
HoldsSettle == \A k \in Holds : Active(k) ~> hold[k].status \in Settled

(* The wallet implements the promise made to the product flows, when no    *)
(* hold is rebound.                                                        *)
Contract == INSTANCE HoldContract WITH
              free <- [u \in Users |-> Available(u)],
              holder <- [k \in Holds |-> hold[k].owner],
              open <- {k \in Holds : Active(k)},
              size <- [k \in Holds |-> hold[k].cents],
              Amounts <- Cents

ImplementsContract == Contract!Spec
=============================================================================
