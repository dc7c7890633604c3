------------------------------ MODULE FlagDecl ------------------------------
(***************************************************************************)
(* The declared feature flags and the rows their Store may hold: the pure  *)
(* part of the admin FlagSet.                                              *)
(***************************************************************************)
CONSTANTS
    FlagNames,    \* the names a caller may pass or a row may have
    Known,        \* the declared flags
    FlagDefault,  \* [Known -> BOOLEAN]
    NoRow         \* no row in the table

ASSUME FlagAssumption ==
    /\ Known \subseteq FlagNames
    /\ FlagDefault \in [Known -> BOOLEAN]

FlagRows == {"true", "false", "null", "junk", NoRow}

\* json.Marshal and json.Unmarshal of a bool.  null decodes, to false; a row that
\* is no bool is dropped.
Marshal(b) == IF b THEN "true" ELSE "false"
Decodes(row) == row \in {"true", "false", "null"}

\* The snapshot LoadAtBoot builds: rows of undeclared flags are skipped.
LoadedFlags(t) ==
    [f \in Known |-> IF Decodes(t[f]) THEN t[f] = "true" ELSE FlagDefault[f]]
=============================================================================
