---------------------------- MODULE HoldContract ----------------------------
(***************************************************************************)
(* What the wallet promises the product flows (numbers, verification, eSIM *)
(* and proxy orders): a hold takes its cents out of the free balance when  *)
(* it is opened, it is closed once, and closing it gives back between      *)
(* nothing and all of it.  The free balance is what is neither spent nor   *)
(* held.  How the wallet keeps that promise is WalletLedger.               *)
(***************************************************************************)
EXTENDS Integers

CONSTANTS Users, Nobody, Holds,
          Amounts,    \* the cents one operation can move
          PackCents   \* price of the call-credit package

VARIABLES free,   \* cents a user can still hold or spend
          holder, \* the user a hold was opened for, or Nobody
          open,   \* the holds that are open
          size    \* the cents a hold was opened with

cvars == <<free, holder, open, size>>

Init ==
  /\ free = [u \in Users |-> 0]
  /\ holder = [k \in Holds |-> Nobody]
  /\ open = {}
  /\ size = [k \in Holds |-> 0]

Earn(u, a) ==
  /\ free' = [free EXCEPT ![u] = @ + a]
  /\ UNCHANGED <<holder, open, size>>

Pay(u) ==
  /\ PackCents <= free[u]
  /\ free' = [free EXCEPT ![u] = @ - PackCents]
  /\ UNCHANGED <<holder, open, size>>

Open(u, k, a) ==
  /\ holder[k] = Nobody
  /\ a <= free[u]
  /\ free' = [free EXCEPT ![u] = @ - a]
  /\ holder' = [holder EXCEPT ![k] = u]
  /\ open' = open \cup {k}
  /\ size' = [size EXCEPT ![k] = a]

Close(k, back) ==
  /\ k \in open
  /\ free' = [free EXCEPT ![holder[k]] = @ + back]
  /\ open' = open \ {k}
  /\ UNCHANGED <<holder, size>>

Next ==
  \/ \E u \in Users, a \in Amounts : Earn(u, a)
  \/ \E u \in Users : Pay(u)
  \/ \E u \in Users, k \in Holds, a \in Amounts : Open(u, k, a)
  \/ \E k \in Holds : \E back \in 0..size[k] : Close(k, back)

Spec == Init /\ [][Next]_cvars
=============================================================================
