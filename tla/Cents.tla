-------------------------------- MODULE Cents --------------------------------
(* Whole amounts of money: Math.max, Math.ceil and Math.round of the code.  *)
EXTENDS Integers

Larger(a, b) == IF a > b THEN a ELSE b
Ceil(a, b) == (a + b - 1) \div b            \* a / b rounded up
Nearest(a, b) == (2 * a + b) \div (2 * b)   \* a / b rounded half up
=============================================================================
