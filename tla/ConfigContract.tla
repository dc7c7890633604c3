--------------------------- MODULE ConfigContract ---------------------------
(***************************************************************************)
(* What the runtimeconfig Manager promises, without a lock, a goroutine or *)
(* a clone: a table of rows, a live overlay, and the entries that are due  *)
(* to become live.  A write changes one row and owes exactly that entry to *)
(* the overlay; a load owes all of them; publishing changes the owed       *)
(* entries and nothing else.  RuntimeConfig is shown to implement this.    *)
(***************************************************************************)
EXTENDS ConfigRegistry

CONSTANT Durable    \* TRUE: the rows survive a restart

VARIABLES
    rows,    \* key -> persisted row
    live,    \* key -> live override
    due      \* partial function: key -> override owed to the live overlay

contractVars == <<rows, live, due>>

Nothing == [k \in {} |-> None]

Writable(k, row) == Refusal(k, row) = "none"

Init ==
    /\ rows \in [Keys -> IF Durable THEN Rows ELSE {None}]
    /\ live = newOverlay
    /\ due = Nothing

\* An accepted write is persisted; a hot key is due to be published.
Commit(k, row) ==
    /\ due = Nothing
    /\ Writable(k, row)
    /\ rows' = [rows EXCEPT ![k] = row]
    /\ due' = IF k \in RestartRequired THEN Nothing
              ELSE [x \in {k} |-> LiveOf(x, row)]
    /\ UNCHANGED live

\* A write that was reported as failed is persisted nevertheless, and possibly
\* late; it stays out of the live overlay.
Stray(k, row) ==
    /\ Durable
    /\ Writable(k, row)
    /\ rows' = [rows EXCEPT ![k] = row]
    /\ UNCHANGED <<live, due>>

\* A boot reads all rows.
Load ==
    /\ due = Nothing
    /\ due' = LoadedOverlay(rows)
    /\ UNCHANGED <<rows, live>>

PublishDue ==
    /\ due # Nothing
    /\ live' = [k \in Keys |-> IF k \in DOMAIN due THEN due[k] ELSE live[k]]
    /\ due' = Nothing
    /\ UNCHANGED rows

Restart ==
    /\ rows' = IF Durable THEN rows ELSE newOverlay
    /\ live' = newOverlay
    /\ due' = Nothing

Next ==
    \/ \E k \in Keys, row \in Rows : Commit(k, row) \/ Stray(k, row)
    \/ Load
    \/ PublishDue
    \/ Restart

Spec == Init /\ [][Next]_contractVars

\* What is due is published unless the process restarts.
FairSpec == Spec /\ WF_contractVars(PublishDue)
=============================================================================
