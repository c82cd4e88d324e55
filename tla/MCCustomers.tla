----------------------------- MODULE MCCustomers -----------------------------
(***************************************************************************)
(* Customers for model checking: their wallets and their accounts.  The    *)
(* two share users.wallet_balance_usd_cents only, which Accounts leaves    *)
(* out, so a behaviour has the requests of one scope.                      *)
(***************************************************************************)
EXTENDS MCWallet, Accounts

CONSTANTS v1, p1

VARIABLE scope  \* bound: which requests are made

CustomerInit ==
  /\ Init /\ AccountInit
  /\ \/ scope \in {"wallet", "phone"} /\ metadata = NoPhone
     \/ scope \in {"sign in", "sessions", "authenticator"} /\ metadata = p1

(* One comes from the web with other numbers, also such as Supabase has    *)
(* confirmed, and the others verify theirs; the profile stays without      *)
(* terms.                                                                  *)
PhoneScope ==
  \/ \E v \in Visits :
       \/ v = v1 /\ (Exchange(v) \/ FindUser(v) \/ (SaveProfile(v) /\ ~visit'[v].copy.terms))
       \/ v # v1 /\ PhoneNext(v)
       \/ SaveNext(v) \/ Stop(v)
  \/ \E phone \in Phones \ {p1} : ConfirmAtSupabase(phone)

(* One registers and signs in here while the others come from the web.     *)
SignInScope ==
  \/ \E v \in Visits :
       \/ v = v1 /\ SignInNext(v) /\ ~WrongPassword(v)
       \/ v # v1 /\ (Exchange(v) \/ FindUser(v) \/ SaveProfile(v))
       \/ SaveNext(v) \/ Stop(v)
  \/ \E phone \in Phones \ {p1} : ConfirmAtSupabase(phone)

(* Tokens are issued to one who registers and signs in, and used by all.   *)
SessionScope ==
  \/ v1 \in Visits /\ (AskToRegister(v1) \/ SignUp(v1) \/ SaveNew(v1) \/ Insert(v1))
  \/ \E v \in Visits : Issue(v) \/ TokenNext(v) \/ Stop(v)
  \/ \E t \in Tokens : RevokeSession(t)
  \/ RevokeAllSessions \/ Tick

(* An authenticator comes and goes while one registers and signs in, also  *)
(* with wrong passwords.                                                   *)
AuthenticatorScope ==
  \/ \E v \in Visits :
       \/ v = v1 /\ SignInNext(v)
       \/ v # v1 /\ SecretNext(v)
       \/ SaveNext(v) \/ Stop(v)
  \/ Lapses \/ \E status \in {"active", "suspended"} : UpdateUserStatus(status)

CustomerNext ==
  /\ UNCHANGED scope
  /\ \/ scope = "wallet" /\ Next /\ UNCHANGED accountvars
     \/ /\ UNCHANGED vars
        /\ \/ scope = "phone" /\ PhoneScope
           \/ scope = "sign in" /\ SignInScope
           \/ scope = "sessions" /\ SessionScope
           \/ scope = "authenticator" /\ AuthenticatorScope

CustomerSpec == CustomerInit /\ [][CustomerNext]_<<vars, accountvars, scope>>
=============================================================================
