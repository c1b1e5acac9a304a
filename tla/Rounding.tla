--------------------------------- MODULE Rounding ---------------------------------
(***************************************************************************)
(* How the code rounds a to a multiple of step: Python's round() takes the *)
(* even one of two equally near multiples, ROUND_HALF_UP the one further   *)
(* from zero.                                                              *)
(***************************************************************************)
EXTENDS Integers

Rounded(a, step) ==
    LET q == a \div step
        twice == 2 * (a % step)
    IN  IF twice > step \/ (twice = step /\ q % 2 = 1) THEN q + 1 ELSE q

\* A fault: the amount is cut off.
CutOff(a, step) == a \div step

HalfUp(a, step) ==
    IF a < 0 THEN -((2 * (-a) + step) \div (2 * step)) ELSE (2 * a + step) \div (2 * step)

Ceiling(a, step) == -((-a) \div step)
=============================================================================
