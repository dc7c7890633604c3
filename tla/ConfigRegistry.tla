--------------------------- MODULE ConfigRegistry ---------------------------
(***************************************************************************)
(* The runtimeconfig Registry and the pure functions of the Manager over   *)
(* it: which key a name denotes, what a raw row decodes to, which overlay  *)
(* a set of rows or an edit produces, and how an overlay is shown.         *)
(*                                                                         *)
(* Registration is over before a Manager exists (Register panics are       *)
(* programmer errors at start-up), so the registry is a set of constants.  *)
(* What validateAgainst accepts is the constant Decode here; the module    *)
(* KeyValidation models how it decides.                                    *)
(***************************************************************************)

CONSTANTS
    Names,            \* the names a caller may pass, registered or not
    Keys,             \* the names registered in the Registry
    Mutable,          \* keys with Mutable = true
    RestartRequired,  \* keys with RestartRequired = true
    Secret,           \* keys with Secret = true
    Raws,             \* raw JSON values a caller may pass or a row may hold
    Values,           \* normalised typed values
    Decode,           \* validateAgainst: [Keys \X Raws -> Values \cup {Invalid}]
    Default,          \* the registry defaults: [Keys -> Values]
    EmptyString,      \* the normalised value ""
    None,             \* no row, no override, no holder
    Invalid,          \* validateAgainst returned an error
    Mask              \* the marker "********" of redact

ASSUME NamesAssumption ==
    /\ Keys \subseteq Names
    /\ Mutable \subseteq Keys
    /\ RestartRequired \subseteq Keys
    /\ Secret \subseteq Keys

ASSUME DecodeAssumption ==
    /\ Decode \in [Keys \X Raws -> Values \cup {Invalid}]
    /\ Default \in [Keys -> Values]
    /\ None \notin Raws \cup Values
    /\ Invalid \notin Values \cup {None}

-----------------------------------------------------------------------------
Rows == Raws \cup {None}
Overlays == [Keys -> Values \cup {None}]

newOverlay == [k \in Keys |-> None]

NoEntry == [value |-> None, source |-> "none"]

\* Mutant: a stored row is taken without validation.
LiveOfUnchecked(k, row) == IF row \in Raws THEN Decode[<<k, row>>] ELSE None

\* Registry.Validate on one stored row, as LoadAtBoot uses it: a row that does
\* not decode is dropped.
LiveOf(k, row) ==
    IF row \in Raws /\ Decode[<<k, row>>] # Invalid THEN Decode[<<k, row>>]
                                                   ELSE None

\* The overlay LoadAtBoot builds: every row of a registered key that decodes,
\* immutable and RestartRequired keys included.
LoadedOverlay(rows) == [k \in Keys |-> LiveOf(k, rows[k])]

\* Mutant: the edit starts from an empty overlay instead of a clone.
EditedFresh(o, c) == [newOverlay EXCEPT ![c.name] = LiveOf(c.name, c.row)]

\* The overlay Apply and Clear build: a clone with one entry changed.
Edited(o, c) == [o EXCEPT ![c.name] = LiveOf(c.name, c.row)]

\* The effective value of a key: the live override or the registry default.
resolve(o, k) == IF o[k] # None THEN o[k] ELSE Default[k]

redact(k, v) ==
    IF k \notin Secret THEN v
    ELSE IF v = EmptyString THEN EmptyString ELSE Mask

\* The entry of MergedView for one key.
KeyView(o, k) ==
    [value  |-> redact(k, resolve(o, k)),
     source |-> IF o[k] # None THEN "override" ELSE "default"]

Entries == [value  : Values \cup {Mask, None},
            source : {"override", "default", "none"}]

\* The checks Apply (row = raw) and Clear (row = None) make before they take the
\* lock, in the code's order.
Refusal(name, row) ==
    IF name \notin Keys THEN "ErrUnknownKey"
    ELSE IF name \notin Mutable THEN "ErrImmutable"
    ELSE IF row \in Raws /\ Decode[<<name, row>>] = Invalid THEN "ErrInvalidValue"
    ELSE "none"
=============================================================================
