------------------------------ MODULE MCOrders ------------------------------
(***************************************************************************)
(* Instances of ConnectivityOrders for TLC: one order of each product a    *)
(* run is about, all of one user.                                          *)
(***************************************************************************)
EXTENDS ConnectivityOrders, TLC

CONSTANTS u1, esim, proxy, vpn, k1, k2, k3

OneOwner == [o \in Orders |-> u1]
OwnKeys == (esim :> k1) @@ (proxy :> k2) @@ (vpn :> k3)
OwnKey == [o \in Orders |-> OwnKeys[o]]
SameKey == [o \in Orders |-> k1]

Everything == {Providers}
Primary == {{"airalo", "oxylabs", "smartproxy"}, {"smartproxy"}}

Symmetry == Permutations(Handlers)
=============================================================================
