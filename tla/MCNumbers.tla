------------------------------ MODULE MCNumbers ------------------------------
(***************************************************************************)
(* Instances of VerificationHub for TLC: one rental r, one burner number   *)
(* asked for twice with one key (b1, b2), one verification order v; every  *)
(* behaviour is about one of the three.                                    *)
(***************************************************************************)
EXTENDS VerificationHub

CONSTANTS n1, n2, r, b1, b2, v, k1, k2

NumberOf == [p \in Requests |-> IF p = r THEN n1 ELSE n2]
KindOf == [p \in Requests |-> CASE p = r -> "rental" [] p = v -> "verification"
                                [] OTHER -> "burner"]
KeyOf == [p \in Requests |-> IF p = v THEN k2 ELSE k1]

(* The rental is renewed once.                                             *)
Periods == [n \in Numbers |-> IF n = n1 THEN 2 ELSE 1]
Apart == {{r}, {v}, {b1, b2}}
Order == {{v}}
=============================================================================
