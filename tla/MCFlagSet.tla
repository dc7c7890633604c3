----------------------------- MODULE MCFlagSet -----------------------------
EXTENDS FlagSet
CONSTANTS f1, f2, retired, g1, g2
MCDefault == [f \in Known |-> f = f1]
\* The row of a flag that is no longer declared, which nobody touches.
MCInit == Init /\ table[retired] = "true"
MCSpec == MCInit /\ [][Next]_vars /\ Fairness
=============================================================================
