---------------------------- MODULE MCOrderFlows ----------------------------
(***************************************************************************)
(* Two scopes of ConnectivityOrders for TLC, which together are about both *)
(* sides of an order:                                                      *)
(*   purchases  an eSIM and a proxy order of one wallet, with every        *)
(*              failure of their requests;                                 *)
(*   webhooks   one order of any kind, with two webhooks at a time, which  *)
(*              may overtake the request; a proxy order, which tries       *)
(*              several providers, with one webhook at a time.             *)
(* Smartproxy alone is configured, or it, Airalo and Oxylabs, or all.      *)
(***************************************************************************)
EXTENDS MCOrders, OrderTurns

VARIABLE scope

busy == {h \in Handlers : handler[h] # NoHandler}
taken == {o \in Orders : row[o] # NoRow}

InScope ==
  \/ scope = "purchases" /\ vpn \notin taken /\ busy = {}
  \/ /\ scope = "webhooks" /\ Cardinality(taken) <= 1
     /\ \/ proxy \notin taken
        \/ Cardinality(busy) <= 1 /\ seen = {} /\ \A h \in busy : handler[h].word = "fail"

MCEnvironments == Primary \cup Everything

MCInit ==
  /\ TurnInit
  /\ \/ scope = "purchases" /\ configured \in Primary
     \/ scope = "webhooks" /\ configured \in Everything

MCNext ==
  /\ UNCHANGED scope /\ TurnNext /\ InScope'

MCSpec == MCInit /\ [][MCNext]_<<turnvars, scope>>
=============================================================================
