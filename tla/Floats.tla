------------------------------- MODULE Floats -------------------------------
(***************************************************************************)
(* Go's float64: binary floating point with a significand of fixed length, *)
(* rounded to the nearest, ties to the even significand (IEEE 754).  Model *)
(* checking uses a format of fewer bits, in which everything that rounding *)
(* does to float64 happens at small numbers; the theorems hold for every   *)
(* format.                                                                 *)
(*                                                                         *)
(* A float is an integer number of grains.  A grain is finer than what the *)
(* results below need; overflow to an infinity is not part of this module. *)
(***************************************************************************)
EXTENDS Integers

CONSTANTS
    Significand,   \* 2^53 in float64: significands are smaller
    Quanta         \* the spacings of floats, in grains: 1, 2, 4, ...

ASSUME FloatAssumption ==
    /\ Significand \in Nat \ {0} /\ Significand % 2 = 0
    /\ Quanta \subseteq Nat \ {0} /\ 1 \in Quanta
    /\ \A q \in Quanta : q # 1 => q % 2 = 0 /\ q \div 2 \in Quanta
    /\ \A p, q \in Quanta : p < q => q % p = 0

\* The spacings of floats that can hold a/b grains (a >= 0, b > 0).
Fitting(a, b) == {q \in Quanta : a \div b < Significand * q}

\* The floats around a/b lie that far apart.
Spacing(a, b) == CHOOSE q \in Fitting(a, b) : q = 1 \/ q \div 2 \notin Fitting(a, b)

\* a/b to the nearest integer, ties to even.
RoundEven(a, b) ==
    LET m == a \div b  twice == 2 * (a % b) IN
    IF twice > b \/ (twice = b /\ m % 2 = 1) THEN m + 1 ELSE m

Rounded(a, b) == RoundEven(a, b * Spacing(a, b)) * Spacing(a, b)

\* The float nearest to a non-negative a/b; beyond the largest spacing, a whole grain.
Nearest(a, b) == IF Fitting(a, b) = {} THEN a \div b ELSE Rounded(a, b)

\* The float nearest to a/b, for b > 0.
Fl(a, b) == IF a >= 0 THEN Nearest(a, b) ELSE -Nearest(-a, b)

\* Whether the integer number of grains a is a float.
IsFloat(a) == Fl(a, 1) = a
=============================================================================
