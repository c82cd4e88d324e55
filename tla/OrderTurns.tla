----------------------------- MODULE OrderTurns -----------------------------
(***************************************************************************)
(* ConnectivityOrders with a history of which orders had two webhooks      *)
(* handled at the same time.                                               *)
(***************************************************************************)
EXTENDS ConnectivityOrders

VARIABLE together  \* history: these orders

turnvars == <<vars, together>>

Overlapping(o) ==
  \E g, h \in Handlers : /\ g # h /\ handler[g] # NoHandler /\ handler[h] # NoHandler
                         /\ handler[g].order = o /\ handler[h].order = o

TurnInit == Init /\ together = {}

TurnNext ==
  /\ Next
  /\ together' = together \cup {o \in Orders : Overlapping(o)'}

TurnSpec == TurnInit /\ [][TurnNext]_turnvars

(* A failed order is refunded at most once, as long as its reports are     *)
(* handled one after the other (order_refund_twice shows the rest).        *)
RefundedInTurn == \A o \in Orders \ together : refunds[o] <= 1
=============================================================================
