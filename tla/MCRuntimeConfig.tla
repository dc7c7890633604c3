-------------------------- MODULE MCRuntimeConfig --------------------------
(***************************************************************************)
(* Instances of RuntimeConfig for TLC.  Keys: two hot ones and one that    *)
(* needs a restart.                                                        *)
(***************************************************************************)
EXTENDS RuntimeConfig, TLC

CONSTANTS hot1, hot2, restart, w1, w2, r1

\* The raw value json1 decodes to int1; any other is out of bounds.  The default
\* of every key is int0.
MCDecode == [p \in Keys \X Raws |-> IF p[2] = "json1" THEN "int1" ELSE Invalid]
MCDefault == [k \in Keys |-> "int0"]
WriterSymmetry == Permutations(Writers)
=============================================================================
