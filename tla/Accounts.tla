------------------------------ MODULE Accounts ------------------------------
(***************************************************************************)
(* One customer's account: the users row that registration, sign-in, the   *)
(* exchange of a Supabase session and phone verification read, change and  *)
(* save, and the sessions whose refresh tokens follow one another.         *)
(*                                                                         *)
(* A handler that read the row saves it with its changes after calls to    *)
(* Supabase or Twilio: the save reads the row again and writes every       *)
(* column in which the handler's copy differs from it.  The customer has   *)
(* an e-mail address; Supabase checks passwords and tokens, and is         *)
(* external.                                                               *)
(***************************************************************************)
EXTENDS Naturals, Sequences, FiniteSets

CONSTANTS Visits,      \* requests handled at a time
          Phones,      \* the customer's phone numbers
          NoPhone,
          MaxTime,     \* bound: seconds in which tokens are issued
          MaxWrong,    \* MAX_FAILED_ATTEMPTS
          MaxSends,    \* MAX_SENDS_PER_WINDOW
          MaxAttempts, \* MAX_VERIFY_ATTEMPTS
          MaxCodes     \* bound: phone_otp_sessions

ASSUME AccountsAssumption ==
  /\ NoPhone \notin Phones /\ Phones # {} /\ MaxTime \in Nat
  /\ {MaxWrong, MaxSends, MaxAttempts, MaxCodes} \subseteq Nat \ {0}

VARIABLES metadata,  \* the phone number Supabase got at registration, if any
          supabase,  \* Supabase's user: known or not, and the number it has confirmed
          account,   \* users: the columns these handlers use
          secret,    \* users.two_factor_secret is set
          session,   \* auth_sessions, by the second their token was issued in
          blocked,   \* Redis: the refresh tokens marked as revoked
          code,      \* phone_otp_sessions, oldest first
          visit,     \* the requests
          clock,
          confirmed, \* history: the numbers a right code was given for
          borrowed,  \* history: the numbers a login marked because Supabase had confirmed another
          mixed,     \* history: a save left a row that neither it nor another handler meant
          issued,    \* history: the refresh tokens and those they were changed into
          crossed    \* history: tokens that two refreshes used at the same time

accountvars == <<metadata, supabase, account, secret, session, blocked, code, visit, clock,
                 confirmed, borrowed, mixed, issued, crossed>>

Tokens == 0..MaxTime
NoAccount == [status |-> "none"]
Fresh == [status |-> "pending", terms |-> FALSE, phone |-> NoPhone, verified |-> FALSE,
          two |-> FALSE, wrong |-> 0, shut |-> FALSE]
Rest == [at |-> "rest"]

(* The customer registers here or signed up with Supabase on the web.      *)
AccountInit ==
  /\ \/ metadata \in Phones /\ supabase = [known |-> FALSE, phone |-> NoPhone]
     \/ metadata = NoPhone /\ supabase = [known |-> TRUE, phone |-> NoPhone]
  /\ account = NoAccount /\ secret = FALSE
  /\ session = [t \in Tokens |-> "none"] /\ blocked = {}
  /\ code = <<>> /\ clock = 0
  /\ visit = [v \in Visits |-> Rest]
  /\ confirmed = {} /\ borrowed = {} /\ mixed = FALSE /\ issued = {} /\ crossed = {}

-----------------------------------------------------------------------------
OnVisit(v, step) == visit[v].at = step
Go(v, step) == visit' = [visit EXCEPT ![v].at = step]
Depart(v) == visit' = [visit EXCEPT ![v] = Rest]

history == <<confirmed, borrowed, mixed, issued, crossed>>
tokens == <<session, blocked, clock>>
keptByRow == <<metadata, supabase, secret, tokens, code, history>>
keptByToken ==
  <<metadata, supabase, account, secret, code, clock, confirmed, borrowed, mixed>>

(* A request that has read the row.                                        *)
Enter(v, errand, step, phone) ==
  /\ OnVisit(v, "rest")
  /\ visit' = [visit EXCEPT ![v] =
       [at |-> step, errand |-> errand, copy |-> account, phone |-> phone]]
  /\ UNCHANGED <<keptByRow, account>>

(* A row as the handlers create one; the other columns get their defaults. *)
NewRow(phone, verified, terms, status) ==
  [status |-> status, terms |-> terms, phone |-> phone, verified |-> verified]
Completed(r) == [c \in DOMAIN Fresh |-> IF c \in DOMAIN r THEN r[c] ELSE Fresh[c]]

(* save, the first half: r is compared with the row.                       *)
Compare(v, r) ==
  visit' = [visit EXCEPT ![v] =
    [at |-> "save", errand |-> @.errand, phone |-> @.phone, copy |-> r, row |-> account]]

(* What a request that saved r goes on with.                               *)
Resumed(v, r) ==
  LET errand == visit[v].errand IN
  CASE errand = "register" -> [at |-> "issue", errand |-> errand]
    [] errand \in {"login", "exchange"} ->
         [at |-> "authenticator", errand |-> errand, two |-> r.two]
    [] OTHER -> [at |-> errand, phone |-> visit[v].phone]

NumberOf(r) == <<r.phone, r.verified>>

(* ... the second half: a row of that id is not inserted twice; of one     *)
(* that was there the columns that differed are written.                   *)
Insert(v) ==
  LET r == Completed(visit[v].copy) IN
  /\ OnVisit(v, "save") /\ visit[v].row = NoAccount
  /\ IF account = NoAccount
     THEN /\ account' = r
          /\ visit' = [visit EXCEPT ![v] = Resumed(v, r)]
     ELSE UNCHANGED account /\ Depart(v)
  /\ UNCHANGED keptByRow

Update(v) ==
  LET r == visit[v].copy
      row == visit[v].row
      written == [c \in DOMAIN Fresh |->
                    IF c \in DOMAIN r THEN IF r[c] # row[c] THEN r[c] ELSE account[c]
                    ELSE account[c]]
  IN
  /\ OnVisit(v, "save") /\ row # NoAccount
  /\ account' = written
  /\ mixed' = (mixed \/ NumberOf(written) \notin {NumberOf(r), NumberOf(account)})
  /\ visit' = [visit EXCEPT ![v] = Resumed(v, Completed(r))]
  /\ UNCHANGED <<metadata, supabase, secret, tokens, code, confirmed, borrowed, issued, crossed>>

-----------------------------------------------------------------------------
(* register.                                                               *)

AskToRegister(v) ==
  /\ account = NoAccount /\ metadata # NoPhone
  /\ Enter(v, "register", "signUp", metadata)

SignUp(v) ==
  /\ OnVisit(v, "signUp")
  /\ IF supabase.known THEN Depart(v) ELSE Go(v, "saveNew")
  /\ supabase' = [supabase EXCEPT !.known = TRUE]
  /\ UNCHANGED <<metadata, account, secret, tokens, code, history>>

SaveNew(v) ==
  /\ OnVisit(v, "saveNew")
  /\ Compare(v, NewRow(metadata, FALSE, TRUE, "pending"))
  /\ UNCHANGED <<keptByRow, account>>

-----------------------------------------------------------------------------
(* login.                                                                  *)

(* The customer gives Supabase a right code for a number: phone and        *)
(* phone_confirmed_at of Supabase's user.                                  *)
ConfirmAtSupabase(phone) ==
  /\ supabase.known /\ supabase.phone # phone
  /\ supabase' = [supabase EXCEPT !.phone = phone]
  /\ confirmed' = confirmed \cup {phone}
  /\ UNCHANGED <<metadata, account, secret, tokens, code, visit, borrowed, mixed, issued, crossed>>

Login(v) ==
  /\ supabase.known
  /\ account # NoAccount => ~account.shut /\ account.status # "suspended"
  /\ Enter(v, "login", "password", NoPhone)

(* handleFailedLogin counts from what was read.                            *)
WrongPassword(v) ==
  LET wrong == visit[v].copy.wrong + 1 IN
  /\ OnVisit(v, "password")
  /\ account' = IF visit[v].copy = NoAccount THEN account
                ELSE IF wrong >= MaxWrong THEN [account EXCEPT !.wrong = 0, !.shut = TRUE]
                ELSE [account EXCEPT !.wrong = wrong]
  /\ Depart(v)
  /\ UNCHANGED keptByRow

Lapses ==
  /\ account # NoAccount /\ account.shut
  /\ account' = [account EXCEPT !.shut = FALSE]
  /\ UNCHANGED <<visit, keptByRow>>

(* signInWithPassword answers with Supabase's user.                        *)
RightPassword(v) ==
  /\ OnVisit(v, "password")
  /\ visit' = [visit EXCEPT ![v] =
       [at |-> "sync", errand |-> @.errand, copy |-> @.copy, phone |-> supabase.phone]]
  /\ UNCHANGED <<keptByRow, account>>

(* syncLocalUserFromSupabaseAuthUser, given the number Supabase confirmed; *)
(* the terms may be accepted in the metadata.  A profile with names and    *)
(* terms makes the account active.  The row keeps its number, and takes    *)
(* Supabase's mark whichever number that is of.                            *)
Synced(copy, given, terms, names) ==
  LET accepted == (terms \/ (copy # NoAccount /\ copy.terms))
      number == IF given = NoPhone THEN metadata ELSE given
  IN
  IF copy = NoAccount
  THEN NewRow(number, given # NoPhone, terms, IF accepted /\ names THEN "active" ELSE "pending")
  ELSE [copy EXCEPT !.phone = IF @ = NoPhone THEN number ELSE @,
                    !.verified = @ \/ given # NoPhone, !.terms = accepted,
                    !.status = IF accepted /\ names THEN "active" ELSE @]

Borrows(copy, given) ==
  /\ given # NoPhone /\ copy # NoAccount
  /\ ~copy.verified /\ copy.phone \notin {NoPhone, given}

Sync(v) ==
  LET copy == visit[v].copy IN
  /\ OnVisit(v, "sync")
  /\ \E terms, names \in BOOLEAN : Compare(v, Synced(copy, visit[v].phone, terms, names))
  /\ borrowed' = borrowed \cup (IF Borrows(copy, visit[v].phone) THEN {copy.phone} ELSE {})
  /\ UNCHANGED <<metadata, supabase, account, secret, tokens, code,
                 confirmed, mixed, issued, crossed>>

(* With an authenticator its secret is read now, and a code is asked for.  *)
RightNumbers(v) ==
  /\ OnVisit(v, "authenticator")
  /\ visit[v].two => secret
  /\ visit' = [visit EXCEPT ![v] = [at |-> IF @.errand = "login" THEN "welcome" ELSE "issue",
                                    errand |-> @.errand]]
  /\ UNCHANGED <<keptByRow, account>>

Refused(v) ==
  /\ OnVisit(v, "authenticator") /\ visit[v].two
  /\ Depart(v)
  /\ UNCHANGED <<keptByRow, account>>

Welcome(v) ==
  /\ OnVisit(v, "welcome")
  /\ account' = [account EXCEPT !.wrong = 0, !.shut = FALSE]
  /\ Go(v, "issue")
  /\ UNCHANGED keptByRow

-----------------------------------------------------------------------------
(* exchangeSupabaseSession.                                                *)

(* getUser: the number at Supabase, which it has confirmed, goes before    *)
(* that of the metadata, and this before the one in the profile.           *)
Exchange(v) ==
  /\ supabase.known /\ OnVisit(v, "rest")
  /\ \E given \in IF supabase.phone # NoPhone THEN {supabase.phone}
                  ELSE IF metadata # NoPhone THEN {metadata} ELSE Phones \cup {NoPhone} :
       visit' = [visit EXCEPT ![v] = [at |-> "find", errand |-> "exchange", phone |-> given,
                                      marked |-> supabase.phone # NoPhone]]
  /\ UNCHANGED <<keptByRow, account>>

FindUser(v) ==
  /\ OnVisit(v, "find")
  /\ IF account # NoAccount /\ account.status = "suspended" THEN Depart(v)
     ELSE visit' = [visit EXCEPT ![v] = [at |-> "profile", errand |-> @.errand, copy |-> account,
                                         phone |-> @.phone, marked |-> @.marked]]
  /\ UNCHANGED <<keptByRow, account>>

(* Another number has to be verified again, unless Supabase has.           *)
Profiled(copy, given, marked, terms, names) ==
  LET accepted == (terms \/ (copy # NoAccount /\ copy.terms)) IN
  IF copy = NoAccount
  THEN NewRow(given, marked, terms, IF accepted /\ names THEN "active" ELSE "pending")
  ELSE [copy EXCEPT !.phone = IF given = NoPhone THEN @ ELSE given,
                    !.verified = \/ marked
                                 \/ @ /\ (given = NoPhone \/ copy.phone \in {NoPhone, given}),
                    !.terms = accepted,
                    !.status = IF accepted /\ names THEN "active" ELSE @]

SaveProfile(v) ==
  /\ OnVisit(v, "profile")
  /\ \E terms, names \in BOOLEAN :
       Compare(v, Profiled(visit[v].copy, visit[v].phone, visit[v].marked, terms, names))
  /\ UNCHANGED <<keptByRow, account>>

-----------------------------------------------------------------------------
(* Sessions.                                                               *)

(* generateTokens: two tokens of one second are the same, and the hash of  *)
(* a token is unique.                                                      *)
Issue(v) ==
  /\ OnVisit(v, "issue")
  /\ IF session[clock] # "none" THEN UNCHANGED <<session, issued>>
     ELSE /\ session' = [session EXCEPT ![clock] = "live"]
          /\ issued' = IF visit[v].errand = "refresh" THEN issued \cup {<<visit[v].token, clock>>}
                       ELSE issued
  /\ Depart(v)
  /\ UNCHANGED <<keptByToken, blocked, crossed>>

Refreshing(t) == {v \in Visits : /\ visit[v].at \in {"block", "refresh", "issue"}
                                   /\ visit[v].errand = "refresh" /\ visit[v].token = t}

(* refreshTokens: the token is not revoked in Redis nor in its session.    *)
RefreshTokens(v, t) ==
  /\ OnVisit(v, "rest") /\ account # NoAccount
  /\ t \notin blocked /\ session[t] = "live"
  /\ crossed' = IF Refreshing(t) = {} THEN crossed ELSE crossed \cup {t}
  /\ visit' = [visit EXCEPT ![v] = [at |-> "block", errand |-> "refresh", token |-> t]]
  /\ UNCHANGED <<keptByToken, session, blocked, issued>>

Logout(v, t) ==
  /\ OnVisit(v, "rest") /\ session[t] # "none"
  /\ visit' = [visit EXCEPT ![v] = [at |-> "block", errand |-> "logout", token |-> t]]
  /\ UNCHANGED <<keptByToken, session, blocked, issued, crossed>>

(* Without Redis nothing is kept, and nothing is said.                     *)
Block(v) ==
  /\ OnVisit(v, "block")
  /\ blocked' \in {blocked, blocked \cup {visit[v].token}}
  /\ Go(v, visit[v].errand)
  /\ UNCHANGED <<keptByToken, session, issued, crossed>>

(* Seeded fault: only the time of its use is saved with the session.       *)
UseTouched(v) ==
  /\ OnVisit(v, "refresh")
  /\ Go(v, "issue")
  /\ UNCHANGED <<keptByToken, session, blocked, issued, crossed>>

Use(v) ==
  /\ OnVisit(v, "refresh")
  /\ session' = [session EXCEPT ![visit[v].token] = "revoked"]
  /\ Go(v, "issue")
  /\ UNCHANGED <<keptByToken, blocked, issued, crossed>>

SignOut(v) ==
  /\ OnVisit(v, "logout")
  /\ session' = [session EXCEPT ![visit[v].token] = "revoked"]
  /\ Depart(v)
  /\ UNCHANGED <<keptByToken, blocked, issued, crossed>>

RevokeSession(t) ==
  /\ session[t] = "live"
  /\ session' = [session EXCEPT ![t] = "revoked"]
  /\ UNCHANGED <<keptByToken, visit, blocked, issued, crossed>>

RevokeAllSessions ==
  /\ \E t \in Tokens : session[t] = "live"
  /\ session' = [t \in Tokens |-> IF session[t] = "none" THEN "none" ELSE "revoked"]
  /\ UNCHANGED <<keptByToken, visit, blocked, issued, crossed>>

Tick ==
  /\ clock < MaxTime
  /\ clock' = clock + 1
  /\ UNCHANGED <<metadata, supabase, account, secret, session, blocked, code, visit, history>>

-----------------------------------------------------------------------------
(* The authenticator: what was read is acted upon later.                   *)

keptBySecret == <<metadata, supabase, tokens, code, history>>

SetupTwoFactor(v) ==
  /\ account # NoAccount /\ ~account.two
  /\ Enter(v, "setup", "setup", NoPhone)

StoreSecret(v) ==
  /\ OnVisit(v, "setup")
  /\ secret' = TRUE
  /\ Depart(v)
  /\ UNCHANGED <<keptBySecret, account>>

SwitchTwoFactor(v, errand) ==
  /\ account # NoAccount /\ secret
  /\ Enter(v, errand, errand, NoPhone)

EnableTwoFactor(v) ==
  /\ OnVisit(v, "enable")
  /\ account' = [account EXCEPT !.two = TRUE]
  /\ Depart(v)
  /\ UNCHANGED <<keptBySecret, secret>>

DisableTwoFactor(v) ==
  /\ OnVisit(v, "disable")
  /\ account' = [account EXCEPT !.two = FALSE]
  /\ secret' = FALSE
  /\ Depart(v)
  /\ UNCHANGED keptBySecret

-----------------------------------------------------------------------------
(* Phone verification.                                                     *)

(* assertUserCanVerifyPhone: the number of the row, or any if it has none, *)
(* which then becomes the row's.                                           *)
AskForCode(v, errand, phone) ==
  /\ OnVisit(v, "rest")
  /\ account # NoAccount /\ account.phone \in {NoPhone, phone}
  /\ visit' = [visit EXCEPT ![v] =
       IF account.phone = NoPhone
       THEN [at |-> "claim", errand |-> errand, phone |-> phone, copy |-> account]
       ELSE [at |-> errand, phone |-> phone]]
  /\ UNCHANGED <<keptByRow, account>>

Claim(v) ==
  /\ OnVisit(v, "claim")
  /\ Compare(v, [visit[v].copy EXCEPT !.phone = visit[v].phone, !.verified = FALSE])
  /\ UNCHANGED <<keptByRow, account>>

CodesFor(phone) == {i \in DOMAIN code : code[i].phone = phone}
keptByCode == <<metadata, supabase, account, secret, tokens, borrowed, mixed, issued, crossed>>

(* sendOtp: the codes sent lately are counted, Twilio sends one, ...       *)
CountSends(v) ==
  /\ OnVisit(v, "send")
  /\ IF Cardinality(CodesFor(visit[v].phone)) >= MaxSends THEN Depart(v) ELSE Go(v, "sent")
  /\ UNCHANGED <<keptByCode, code, confirmed>>

(* ... and it is stored.                                                   *)
StoreCode(v) ==
  /\ OnVisit(v, "sent") /\ Len(code) < MaxCodes
  /\ code' = Append(code, [phone |-> visit[v].phone, status |-> "pending", attempts |-> 0])
  /\ Depart(v)
  /\ UNCHANGED <<keptByCode, confirmed>>

(* verifyOtp: the newest pending code, unless it is too old or was tried   *)
(* too often, ...                                                          *)
Pending(phone) == {i \in CodesFor(phone) : code[i].status = "pending"}

FindCode(v) ==
  /\ OnVisit(v, "verify")
  /\ IF Pending(visit[v].phone) = {}
     THEN Depart(v) /\ UNCHANGED code
     ELSE LET i == CHOOSE i \in Pending(visit[v].phone) :
                     \A j \in Pending(visit[v].phone) : j <= i IN
          \/ code' = [code EXCEPT ![i].status = "expired"] /\ Depart(v)
          \/ /\ code[i].attempts >= MaxAttempts
             /\ code' = [code EXCEPT ![i].status = "failed"] /\ Depart(v)
          \/ /\ code[i].attempts < MaxAttempts
             /\ visit' = [visit EXCEPT ![v] =
                  [at |-> "check", phone |-> @.phone, index |-> i, found |-> code[i]]]
             /\ UNCHANGED code
  /\ UNCHANGED <<keptByCode, confirmed>>

(* ... is checked by Twilio, ...                                           *)
WrongCode(v) ==
  LET attempts == visit[v].found.attempts + 1 IN
  /\ OnVisit(v, "check")
  /\ code' = [code EXCEPT ![visit[v].index] =
       [visit[v].found EXCEPT !.attempts = attempts,
                              !.status = IF attempts >= MaxAttempts THEN "failed" ELSE @]]
  /\ Depart(v)
  /\ UNCHANGED <<keptByCode, confirmed>>

RightCode(v) ==
  /\ OnVisit(v, "check")
  /\ confirmed' = confirmed \cup {visit[v].phone}
  /\ Go(v, "approve")
  /\ UNCHANGED <<keptByCode, code>>

Approve(v) ==
  /\ OnVisit(v, "approve")
  /\ code' = [code EXCEPT ![visit[v].index] = [visit[v].found EXCEPT !.status = "approved"]]
  /\ Go(v, "confirm")
  /\ UNCHANGED <<keptByCode, confirmed>>

(* Seeded fault: the row is found by its id alone.                         *)
ConfirmAny(v) ==
  /\ OnVisit(v, "confirm")
  /\ account' = [account EXCEPT !.verified = TRUE]
  /\ Depart(v)
  /\ UNCHANGED keptByRow

(* ... and the row confirmed if it still has this number.                  *)
Confirm(v) ==
  /\ OnVisit(v, "confirm")
  /\ account' = IF account.phone = visit[v].phone THEN [account EXCEPT !.verified = TRUE]
                ELSE account
  /\ Depart(v)
  /\ UNCHANGED keptByRow

-----------------------------------------------------------------------------
(* updateUserStatus, by an administrator.                                  *)
UpdateUserStatus(status) ==
  /\ account # NoAccount /\ account.status # status
  /\ account' = [account EXCEPT !.status = status]
  /\ UNCHANGED <<visit, keptByRow>>

(* A process that stops, a database or a remote call that fails.           *)
Stop(v) ==
  /\ ~OnVisit(v, "rest")
  /\ Depart(v)
  /\ UNCHANGED <<keptByRow, account>>

SaveNext(v) == Insert(v) \/ Update(v)

SignInNext(v) ==
  \/ AskToRegister(v) \/ SignUp(v) \/ SaveNew(v)
  \/ Login(v) \/ WrongPassword(v) \/ RightPassword(v) \/ Sync(v)
  \/ RightNumbers(v) \/ Refused(v) \/ Welcome(v)
  \/ Exchange(v) \/ FindUser(v) \/ SaveProfile(v) \/ Issue(v)

TokenNext(v) ==
  \/ Block(v) \/ Use(v) \/ SignOut(v)
  \/ \E t \in Tokens : RefreshTokens(v, t) \/ Logout(v, t)

SecretNext(v) ==
  \/ SetupTwoFactor(v) \/ StoreSecret(v) \/ EnableTwoFactor(v) \/ DisableTwoFactor(v)
  \/ \E errand \in {"enable", "disable"} : SwitchTwoFactor(v, errand)

PhoneNext(v) ==
  \/ Claim(v) \/ CountSends(v) \/ StoreCode(v) \/ FindCode(v)
  \/ WrongCode(v) \/ RightCode(v) \/ Approve(v) \/ Confirm(v)
  \/ \E errand \in {"send", "verify"}, phone \in Phones : AskForCode(v, errand, phone)

AccountNext ==
  \/ \E v \in Visits :
       \/ SaveNext(v) \/ SignInNext(v) \/ TokenNext(v) \/ SecretNext(v)
       \/ PhoneNext(v) \/ Stop(v)
  \/ \E t \in Tokens : RevokeSession(t)
  \/ \E status \in {"active", "suspended"} : UpdateUserStatus(status)
  \/ \E phone \in Phones : ConfirmAtSupabase(phone)
  \/ RevokeAllSessions \/ Lapses \/ Tick

AccountSpec == AccountInit /\ [][AccountNext]_accountvars

-----------------------------------------------------------------------------
(* Correctness.                                                            *)

(* A number shown as verified is one that a right code was given for, here *)
(* or at Supabase, however profile changes, sign-ins and verifications of  *)
(* several numbers overlap and save the row over each other (phone-auth's  *)
(* conditional update, and the reset in exchangeSupabaseSession).  The     *)
(* code makes two exceptions.  A login (syncLocalUserFromSupabaseAuthUser) *)
(* keeps the number of the row and marks it when Supabase has confirmed    *)
(* another: borrowed.  And a handler may write the row between a save's    *)
(* comparison and its writing, so that the row gets the number of one and  *)
(* the mark of the other: mixed.                                           *)
VerifiedWasConfirmed ==
  account # NoAccount /\ account.verified /\ ~mixed => account.phone \in confirmed \cup borrowed

(* A refresh token is changed into at most one other, with or without      *)
(* Redis, unless two refreshes of it overlap: both read the session before *)
(* either revokes it.                                                      *)
RefreshedOnce ==
  \A a, b \in issued : a[1] = b[1] => a = b \/ a[1] \in crossed
=============================================================================
