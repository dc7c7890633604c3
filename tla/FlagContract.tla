---------------------------- MODULE FlagContract ----------------------------
(***************************************************************************)
(* What the admin FlagSet promises, without a lock, a goroutine or a copied *)
(* snapshot: a table of rows, the live flags, and the flags that are due to *)
(* change.  A toggle changes one row and owes exactly that flag; a load     *)
(* owes all of them; publishing changes the owed flags and nothing else.    *)
(* FlagSet is shown to implement this; AdminService is built on it.         *)
(***************************************************************************)
EXTENDS FlagDecl

VARIABLES
    flagRows,     \* name -> persisted row
    flags,        \* flag -> live value
    flagsDue      \* partial function: flag -> value owed to the live flags

flagContractVars == <<flagRows, flags, flagsDue>>

Settled == [f \in {} |-> FALSE]

Init ==
    /\ flagRows \in [FlagNames -> FlagRows]
    /\ flags = FlagDefault
    /\ flagsDue = Settled

\* A toggle is persisted and its flag is due.
Toggle(f, v) ==
    /\ flagsDue = Settled
    /\ f \in Known
    /\ flagRows' = [flagRows EXCEPT ![f] = Marshal(v)]
    /\ flagsDue' = [x \in {f} |-> v]
    /\ UNCHANGED flags

\* A toggle that was reported as failed is persisted nevertheless, and possibly
\* late; the live flag keeps its value.
StrayToggle(f, v) ==
    /\ f \in Known
    /\ flagRows' = [flagRows EXCEPT ![f] = Marshal(v)]
    /\ UNCHANGED <<flags, flagsDue>>

LoadFlags ==
    /\ flagsDue = Settled
    /\ flagsDue' = LoadedFlags(flagRows)
    /\ UNCHANGED <<flagRows, flags>>

PublishFlags ==
    /\ flagsDue # Settled
    /\ flags' = [f \in Known |-> IF f \in DOMAIN flagsDue THEN flagsDue[f] ELSE flags[f]]
    /\ flagsDue' = Settled
    /\ UNCHANGED flagRows

RestartFlags ==
    /\ flags' = FlagDefault
    /\ flagsDue' = Settled
    /\ UNCHANGED flagRows

Next ==
    \/ \E f \in Known, v \in BOOLEAN : Toggle(f, v) \/ StrayToggle(f, v)
    \/ LoadFlags
    \/ PublishFlags
    \/ RestartFlags

Spec == Init /\ [][Next]_flagContractVars

\* What is due is published unless the process restarts.
FairSpec == Spec /\ WF_flagContractVars(PublishFlags)
=============================================================================
