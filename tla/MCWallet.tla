------------------------------ MODULE MCWallet ------------------------------
(***************************************************************************)
(* Instances of WalletLedger for TLC.  Requests and Refs are only compared *)
(* with each other, so permuting them is a symmetry; the liveness and      *)
(* refinement runs do without it.                                          *)
(***************************************************************************)
EXTENDS WalletLedger, TLC

Symmetry == Permutations(Requests) \cup Permutations(Refs)
=============================================================================
