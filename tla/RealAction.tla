------------------------------ MODULE RealAction ------------------------------
(***************************************************************************)
(* Normalized actions (testbed/testbed/backends/real/contracts.py), one    *)
(* axis of them, in units of which the full command 1.0 has Full.          *)
(***************************************************************************)
EXTENDS Integers

CONSTANT Full   \* 1.0

ASSUME FullAssumption == Full \in Nat \ {0}

Magnitude(v) == IF v < 0 THEN -v ELSE v
SignOf(v) == IF v < 0 THEN -1 ELSE IF v > 0 THEN 1 ELSE 0
Clamp(v, low, high) == IF v < low THEN low ELSE IF v > high THEN high ELSE v

\* A product that the program has in floating point, rounded toward zero.
Proportion(v, num, den) == SignOf(v) * ((Magnitude(v) * num) \div den)

\* as_real_action, with clip
AsRealAction(v) == Clamp(v, -Full, Full)
=============================================================================
