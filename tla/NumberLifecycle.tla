--------------------------- MODULE NumberLifecycle ---------------------------
(***************************************************************************)
(* Phone numbers: NumbersService buys a number at a carrier against a hold *)
(* on the wallet, renews and releases it; LifecycleService expires and     *)
(* renews the numbers whose time is over; the minute job of CreditsService *)
(* expires holds and, with the hold of a verification, its number.         *)
(*                                                                         *)
(* Every request is a sequence of separate writes and calls.  The carriers *)
(* are called without a timeout, so a hold may expire at any step.  That   *)
(* rebinding a hold can write back a stale status is WalletLedger's        *)
(* subject: here it only changes the number the hold is for.               *)
(***************************************************************************)
EXTENDS Integers, FiniteSets

CONSTANTS Numbers, NoNumber, \* phone numbers, unique in phone_numbers
          Requests,          \* provision requests
          Number,            \* [Requests -> Numbers]
          Kind,              \* [Requests -> Kinds]
          Keys, Key,         \* idempotency keys, and [Requests -> Keys]
          Together,          \* bound: the sets of requests made in one behaviour
          MaxFunds,          \* bound: purchases the wallet can pay at a time
          MaxPeriods,        \* [Numbers -> Nat], bound: periods a number is paid for
          WritesMayFail      \* whether database writes of a request may fail

Kinds == {"rental", "burner", "verification"}

ASSUME NumbersAssumption ==
  /\ NoNumber \notin Numbers /\ Number \in [Requests -> Numbers]
  /\ Kind \in [Requests -> Kinds] /\ Key \in [Requests -> Keys]
  /\ Together \subseteq SUBSET Requests /\ Keys \cap (Numbers \X Nat) = {}
  /\ MaxFunds \in Nat /\ MaxPeriods \in [Numbers -> Nat \ {0}] /\ WritesMayFail \in BOOLEAN

VARIABLES asked,   \* the requests of this behaviour
          funds,   \* how many prices the free balance covers
          hold,    \* wallet_locks of provisions and renewals
          row,     \* phone_numbers; mark is metadata.paymentStatus
          elapsed, \* periods of a number's time that have gone by
          held,    \* the numbers the carriers keep for us
          request, \* provision requests
          renewal, \* renew, called by the owner or by the job
          cut,     \* history: numbers a renewal of which stopped half way
          erased,  \* history: numbers whose mark of a failed renewal a provision wrote over
          leaving, \* release, per number
          job,     \* what the hourly job has still to do with a number
          sweep    \* what the minute job has still to do with a verify_hub hold

nvars ==
  <<asked, funds, hold, row, elapsed, held, request, renewal, cut, erased, leaving, job, sweep>>

-----------------------------------------------------------------------------
(* Data.                                                                   *)

Callers == {"owner", "job"}
NumberStatuses == {"active", "expired", "released"}
HoldStatuses == {"none", "active", "spent", "released", "expired"}

(* The hold of a renewal is keyed by the number and the expiry it extends. *)
Renewals == UNION {{n} \X (1..(MaxPeriods[n] - 1)) : n \in Numbers}
Holds == Keys \cup Renewals

NoRow == [status |-> "none", periods |-> 0, mark |-> "none", auto |-> FALSE, verify |-> FALSE]
NoRenewal == [at |-> "idle", from |-> 0]
NoHold == [status |-> "none", for |-> NoNumber]

Sessions == {p \in Requests : Kind[p] = "verification"}

(* The verify_hub holds.                                                   *)
Verifications == {Key[p] : p \in Sessions}

Past(n) == elapsed[n] >= row[n].periods

Step(p, s) == request' = [request EXCEPT ![p] = s]
RenewStep(w, n, s) == renewal' = [renewal EXCEPT ![<<w, n>>].at = s]
EndRenewal(w, n) == renewal' = [renewal EXCEPT ![<<w, n>>] = NoRenewal]

Init ==
  /\ asked \in Together
  /\ funds = 0
  /\ hold = [k \in Holds |-> NoHold]
  /\ row = [n \in Numbers |-> NoRow]
  /\ elapsed = [n \in Numbers |-> 0]
  /\ held = {}
  /\ request = [p \in Requests |-> "idle"]
  /\ renewal = [x \in Callers \X Numbers |-> NoRenewal]
  /\ cut = {} /\ erased = {}
  /\ leaving = [n \in Numbers |-> "idle"]
  /\ job = [n \in Numbers |-> "idle"]
  /\ sweep = [k \in Verifications |-> "idle"]

Deposit ==
  /\ funds < MaxFunds
  /\ funds' = funds + 1
  /\ UNCHANGED <<asked, hold, row, elapsed, held, request,
                 renewal, cut, erased, leaving, job, sweep>>

(* Time passes for a number.                                               *)
Elapse(n) ==
  /\ row[n].status # "none" /\ ~Past(n)
  /\ elapsed' = [elapsed EXCEPT ![n] = @ + 1]
  /\ UNCHANGED <<asked, funds, hold, row, held, request,
                 renewal, cut, erased, leaving, job, sweep>>

-----------------------------------------------------------------------------
(* The wallet's operations on one hold, each a transaction.                *)

Take(k, for) ==
  /\ hold[k].status = "none" /\ funds > 0
  /\ funds' = funds - 1
  /\ hold' = [hold EXCEPT ![k] = [status |-> "active", for |-> for]]

Spend(k) ==
  /\ hold[k].status = "active"
  /\ hold' = [hold EXCEPT ![k].status = "spent"]
  /\ UNCHANGED funds

Return(k, status) ==
  /\ hold[k].status = "active"
  /\ hold' = [hold EXCEPT ![k].status = status]
  /\ funds' = funds + 1

wallet == <<funds, hold>>

-----------------------------------------------------------------------------
(* provision.                                                              *)

aside == <<asked, renewal, cut, leaving, job, sweep, elapsed>>
others == <<aside, erased>>

(* createWalletLock: a hold recorded under the key is returned as it is.   *)
Lock(p) ==
  /\ request[p] = "idle" /\ p \in asked
  /\ \/ Take(Key[p], NoNumber)
     \/ hold[Key[p]].status # "none" /\ UNCHANGED wallet
  /\ Step(p, "buy")
  /\ UNCHANGED <<row, held, others>>

LockFails(p) ==
  /\ request[p] = "idle" /\ p \in asked
  /\ WritesMayFail \/ (hold[Key[p]].status = "none" /\ funds = 0)
  /\ Step(p, "failed")
  /\ UNCHANGED <<wallet, row, held, others>>

(* What a carrier holds for us after an order for a number, and after one  *)
(* to disconnect it.                                                       *)
Ordered(n) == held \cup {n}
Disconnected(n) == held \ {n}

(* purchaseNumber: one of the carriers assigns the number, or none does;   *)
(* one that did and whose answer is lost keeps it.                         *)
Buy(p) ==
  /\ request[p] = "buy" /\ Number[p] \notin held
  /\ held' = Ordered(Number[p])
  /\ Step(p, "save")
  /\ UNCHANGED <<wallet, row, others>>

BuyFails(p) ==
  /\ request[p] = "buy"
  /\ held' \in {held, Ordered(Number[p])}
  /\ Step(p, "give back")
  /\ UNCHANGED <<wallet, row, others>>

(* The row is active before the hold is spent.                             *)
Save(p) ==
  /\ request[p] = "save" /\ row[Number[p]] = NoRow
  /\ row' = [row EXCEPT ![Number[p]] =
       [status |-> "active", periods |-> 1, mark |-> "none",
        auto |-> Kind[p] = "rental", verify |-> Kind[p] = "verification"]]
  /\ Step(p, "rebind")
  /\ UNCHANGED <<wallet, held, others>>

(* A number is a row for ever: it cannot be saved a second time.           *)
SaveFails(p) ==
  /\ request[p] = "save"
  /\ WritesMayFail \/ row[Number[p]] # NoRow
  /\ Step(p, "give back")
  /\ UNCHANGED <<wallet, row, held, others>>

(* rebindWalletLockEntity.                                                 *)
Rebind(p) ==
  /\ request[p] = "rebind"
  /\ hold' = [hold EXCEPT ![Key[p]].for = Number[p]]
  /\ Step(p, "link")
  /\ UNCHANGED <<funds, row, held, others>>

(* The metadata that was saved with the row is written again, whatever a   *)
(* renewal wrote there in the meantime.                                    *)
Rewrite(n) ==
  /\ row' = [row EXCEPT ![n].mark = "none"]
  /\ erased' = IF row[n].mark = "failed" THEN erased \cup {n} ELSE erased

(* Seeded fault: the hold of a verification is spent like any other.       *)
LinkToSpend(p) ==
  /\ request[p] = "link"
  /\ Rewrite(Number[p])
  /\ Step(p, "spend")
  /\ UNCHANGED <<wallet, held, aside>>

(* The hold of a verification stays open.                                  *)
Link(p) ==
  /\ request[p] = "link"
  /\ Rewrite(Number[p])
  /\ Step(p, IF Kind[p] = "verification" THEN "ok" ELSE "spend")
  /\ UNCHANGED <<wallet, held, aside>>

(* spendWalletLock: a spend already recorded under the key of the request  *)
(* is answered as it is, otherwise the hold must be active.                *)
Charge(p) ==
  /\ request[p] = "spend"
  /\ Spend(Key[p]) \/ (hold[Key[p]].status = "spent" /\ UNCHANGED wallet)
  /\ Step(p, "ok")
  /\ UNCHANGED <<row, held, others>>

(* Seeded fault: a refused spend does not stop the request.                *)
ChargeRefusedUnseen(p) ==
  /\ request[p] = "spend" /\ hold[Key[p]].status # "active"
  /\ Step(p, "ok")
  /\ UNCHANGED <<wallet, row, held, others>>

(* A hold spent since the record was looked for is refused as well.        *)
ChargeRefused(p) ==
  /\ request[p] = "spend" /\ hold[Key[p]].status # "active"
  /\ Step(p, "give back")
  /\ UNCHANGED <<wallet, row, held, others>>

WriteFails(p) ==
  /\ WritesMayFail /\ request[p] \in {"rebind", "link", "spend"}
  /\ Step(p, "give back")
  /\ UNCHANGED <<wallet, row, held, others>>

(* releaseWalletLock, whose failure is ignored.  The number stays with the *)
(* carrier, and its row, when there is one, stays active.                  *)
GiveBack(p) ==
  /\ request[p] = "give back"
  /\ \/ Return(Key[p], "released")
     \/ (WritesMayFail \/ hold[Key[p]].status # "active") /\ UNCHANGED wallet
  /\ Step(p, "failed")
  /\ UNCHANGED <<row, held, others>>

(* The process stops: the caller has no answer and nothing resumes.        *)
Crash(p) ==
  /\ request[p] \notin {"idle", "ok", "failed"}
  /\ Step(p, "failed")
  /\ UNCHANGED <<wallet, row, held, others>>

Provision(p) ==
  \/ Lock(p) \/ LockFails(p) \/ Buy(p) \/ BuyFails(p) \/ Save(p) \/ SaveFails(p)
  \/ Rebind(p) \/ Link(p) \/ Charge(p) \/ ChargeRefused(p) \/ WriteFails(p)
  \/ GiveBack(p)

-----------------------------------------------------------------------------
(* renew: any row of the owner, whatever its status.  The hold is keyed by *)
(* the expiry that was read, the number is extended before it is spent.    *)

rest == <<asked, elapsed, held, request, erased, leaving, sweep>>
kept == <<rest, cut>>

Failed(w, n) ==
  job' = IF w = "job" THEN [job EXCEPT ![n] = "expire"] ELSE job

ReadForRenewal(w, n) ==
  /\ renewal[<<w, n>>].at = "idle" /\ row[n].status # "none"
  /\ (w = "job") => job[n] = "renew"
  /\ row[n].periods < MaxPeriods[n]
  /\ renewal' = [renewal EXCEPT ![<<w, n>>] = [at |-> "lock", from |-> row[n].periods]]
  /\ UNCHANGED <<wallet, row, job, kept>>

LockRenewal(w, n) ==
  LET k == <<n, renewal[<<w, n>>].from>> IN
  /\ renewal[<<w, n>>].at = "lock"
  /\ \/ Take(k, n)
     \/ hold[k].status # "none" /\ UNCHANGED wallet
  /\ RenewStep(w, n, "extend")
  /\ UNCHANGED <<row, job, kept>>

RefuseRenewal(w, n) ==
  /\ renewal[<<w, n>>].at = "lock"
  /\ hold[<<n, renewal[<<w, n>>].from>>].status = "none" /\ funds = 0
  /\ EndRenewal(w, n)
  /\ Failed(w, n)
  /\ UNCHANGED <<wallet, row, kept>>

Extend(w, n) ==
  /\ renewal[<<w, n>>].at = "extend"
  /\ row' = [row EXCEPT ![n].status = "active", ![n].mark = "paid",
                        ![n].periods = renewal[<<w, n>>].from + 1]
  /\ RenewStep(w, n, "spend")
  /\ UNCHANGED <<wallet, job, kept>>

ChargeRenewal(w, n) ==
  LET k == <<n, renewal[<<w, n>>].from>> IN
  /\ renewal[<<w, n>>].at = "spend"
  /\ Spend(k) \/ (hold[k].status = "spent" /\ UNCHANGED wallet)
  /\ EndRenewal(w, n)
  /\ job' = IF w = "job" THEN [job EXCEPT ![n] = "idle"] ELSE job
  /\ UNCHANGED <<row, kept>>

(* The spend is refused, or a write fails: the number keeps the time it    *)
(* was given and is marked ...                                             *)
RenewalFails(w, n) ==
  \/ renewal[<<w, n>>].at = "spend" /\ hold[<<n, renewal[<<w, n>>].from>>].status # "active"
  \/ WritesMayFail /\ renewal[<<w, n>>].at \in {"extend", "spend"}

(* Seeded fault: the number is not told from one that is paid.             *)
FailRenewalUnmarked(w, n) ==
  /\ RenewalFails(w, n)
  /\ RenewStep(w, n, "release")
  /\ UNCHANGED <<wallet, row, job, kept>>

FailRenewal(w, n) ==
  /\ RenewalFails(w, n)
  /\ row' = [row EXCEPT ![n].mark = "failed"]
  /\ RenewStep(w, n, "release")
  /\ UNCHANGED <<wallet, job, kept>>

(* ... and the hold is released, if that succeeds.                         *)
ReleaseRenewal(w, n) ==
  LET k == <<n, renewal[<<w, n>>].from>> IN
  /\ renewal[<<w, n>>].at = "release"
  /\ \/ Return(k, "released")
     \/ (WritesMayFail \/ hold[k].status # "active") /\ UNCHANGED wallet
  /\ EndRenewal(w, n)
  /\ Failed(w, n)
  /\ UNCHANGED <<row, kept>>

(* The mark cannot be written, or the process stops and the job with it.   *)
StopRenewal(w, n) ==
  /\ renewal[<<w, n>>].at # "idle"
  /\ EndRenewal(w, n)
  /\ cut' = cut \cup {n}
  /\ job' = IF w = "job" THEN [m \in Numbers |-> "idle"] ELSE job
  /\ UNCHANGED <<wallet, row, rest>>

Renew(w, n) ==
  \/ ReadForRenewal(w, n) \/ LockRenewal(w, n) \/ RefuseRenewal(w, n) \/ Extend(w, n)
  \/ ChargeRenewal(w, n) \/ FailRenewal(w, n) \/ ReleaseRenewal(w, n)
  \/ StopRenewal(w, n)

-----------------------------------------------------------------------------
(* release, by the owner or by the cancellation of a verification: the     *)
(* number is read, released at the carrier, marked, and the hold of a      *)
(* verification is released.                                               *)

still == <<asked, elapsed, request, renewal, cut, erased, job, sweep>>

ReleaseAtCarrier(n) ==
  /\ leaving[n] = "idle" /\ row[n].status = "active"
  /\ held' \in {held, Disconnected(n)}
  /\ leaving' = [leaving EXCEPT ![n] = "mark"]
  /\ UNCHANGED <<wallet, row, still>>

MarkReleased(n) ==
  /\ leaving[n] = "mark"
  /\ row' = [row EXCEPT ![n].status = "released"]
  /\ leaving' = [leaving EXCEPT ![n] = IF row[n].verify THEN "free" ELSE "idle"]
  /\ UNCHANGED <<wallet, held, still>>

(* releaseExpiredVerificationWalletLock: the active verify_hub hold of the *)
(* number, if it has one.                                                  *)
HoldOf(n) == {k \in Verifications : hold[k].for = n /\ hold[k].status = "active"}

FreeHold(n) ==
  \/ \E k \in HoldOf(n) : Return(k, "released")
  \/ (WritesMayFail \/ HoldOf(n) = {}) /\ UNCHANGED wallet

FreeReleased(n) ==
  /\ leaving[n] = "free"
  /\ FreeHold(n)
  /\ leaving' = [leaving EXCEPT ![n] = "idle"]
  /\ UNCHANGED <<row, held, still>>

StopRelease(n) ==
  /\ leaving[n] # "idle"
  /\ leaving' = [leaving EXCEPT ![n] = "idle"]
  /\ UNCHANGED <<wallet, row, held, still>>

-----------------------------------------------------------------------------
(* The hourly job lists the active numbers whose time is over and works    *)
(* through the list: it renews or expires them by what it read then.       *)

unheard == <<asked, elapsed, held, request, renewal, cut, erased, leaving, sweep>>

FindExpiring ==
  /\ \A n \in Numbers : job[n] = "idle"
  /\ \E n \in Numbers : row[n].status = "active" /\ Past(n)
  /\ job' = [n \in Numbers |->
       IF row[n].status = "active" /\ Past(n)
       THEN IF row[n].auto THEN "renew" ELSE "expire" ELSE "idle"]
  /\ UNCHANGED <<wallet, row, unheard>>

ExpireNumber(n) ==
  /\ job[n] = "expire"
  /\ row' = [row EXCEPT ![n].status = "expired"]
  /\ job' = [job EXCEPT ![n] = "idle"]
  /\ UNCHANGED <<wallet, unheard>>

(* A failure of that write, or a restart, ends the job.                    *)
StopJob ==
  /\ \E n \in Numbers : job[n] # "idle"
  /\ \A n \in Numbers : renewal[<<"job", n>>].at = "idle"
  /\ job' = [n \in Numbers |-> "idle"]
  /\ UNCHANGED <<wallet, row, unheard>>

(* The minute job gives an abandoned hold back: each is looked at again in *)
(* its own transaction.                                                    *)
ExpireHold(k) ==
  /\ k \notin Verifications
  /\ Return(k, "expired")
  /\ UNCHANGED <<row, job, unheard>>

(* For the hold of a verification the list matters: ...                    *)
ListHold(k) ==
  /\ sweep[k] = "idle" /\ hold[k].status = "active"
  /\ sweep' = [sweep EXCEPT ![k] = IF hold[k].for = NoNumber THEN "expire" ELSE "expire both"]
  /\ UNCHANGED <<asked, wallet, row, job, elapsed, held, request, renewal, cut, erased, leaving>>

(* ... the number it was listed with is marked expired whether or not the  *)
(* hold still was active.                                                  *)
ExpireListed(k) ==
  /\ sweep[k] \in {"expire", "expire both"}
  /\ IF hold[k].status = "active" THEN Return(k, "expired") ELSE UNCHANGED wallet
  /\ sweep' = [sweep EXCEPT ![k] = IF @ = "expire" THEN "idle" ELSE "number"]
  /\ UNCHANGED <<asked, row, job, elapsed, held, request, renewal, cut, erased, leaving>>

ExpireVerification(k) ==
  LET n == hold[k].for IN
  /\ sweep[k] = "number"
  /\ row' = IF row[n].status = "active" THEN [row EXCEPT ![n].status = "expired"] ELSE row
  /\ sweep' = [sweep EXCEPT ![k] = "idle"]
  /\ UNCHANGED <<asked, wallet, job, elapsed, held, request, renewal, cut, erased, leaving>>

ExpiryJobs ==
  \/ FindExpiring \/ StopJob
  \/ \E n \in Numbers : ExpireNumber(n)
  \/ \E k \in Holds : ExpireHold(k)
  \/ \E k \in Verifications : ListHold(k) \/ ExpireListed(k) \/ ExpireVerification(k)
=============================================================================
