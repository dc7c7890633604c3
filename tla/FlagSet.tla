------------------------------ MODULE FlagSet ------------------------------
(***************************************************************************)
(* The admin FlagSet: a closed set of boolean kill-switches with a Store   *)
(* of its own.  Set persists and then publishes a copied snapshot under    *)
(* writeMu; LoadAtBoot overlays the persisted values onto the declared     *)
(* defaults.  Enabled and Snapshot read the pointer without a lock.        *)
(***************************************************************************)
EXTENDS FlagDecl, FiniteSets, Naturals

CONSTANTS
    Togglers,     \* goroutines that call Set
    Boot,         \* the goroutine that calls LoadAtBoot
    MaxLate,      \* bound: failed statements still on their way to Postgres
    None          \* no holder, no flag

ASSUME TogglerAssumption ==
    /\ Boot \notin Togglers
    /\ None \notin Togglers \cup {Boot} \cup Known
    /\ NoRow \notin {"true", "false", "null", "junk", "unknown", "pending"}
    /\ MaxLate \in Nat

VARIABLES
    table,    \* the Store: name -> row
    late,     \* statements that failed for their caller and may still run
    flags,    \* FlagSet.state
    writeMu,  \* the holder of FlagSet.writeMu
    pc,
    arg,      \* the arguments of Set
    next,     \* the local snapshot about to be published
    told      \* history: what callers know of a flag, live and after a restart

vars == <<table, late, flags, writeMu, pc, arg, next, told>>

Procs == Togglers \cup {Boot}
NoArg == [flag |-> None, value |-> FALSE]

TypeOK ==
    /\ table \in [FlagNames -> FlagRows]
    /\ late \subseteq [flag : Known, value : BOOLEAN]
    /\ flags \in [Known -> BOOLEAN]
    /\ writeMu \in Procs \cup {None}
    /\ pc \in [Procs -> {"down", "idle", "lock", "load", "persist", "copy",
                         "publish", "unlock", "up"}]
    /\ arg \in [Togglers -> [flag : Known \cup {None}, value : BOOLEAN]]
    /\ next \in [Procs -> [Known -> BOOLEAN]]
    /\ told \in [Known -> [live : {"true", "false", "unknown"},
                           row : FlagRows \cup {"unknown", "pending"}]]

Init ==
    /\ table \in [FlagNames -> FlagRows]
    /\ late = {}
    /\ flags = FlagDefault
    /\ writeMu = None
    /\ pc = [p \in Procs |-> IF p = Boot THEN "down" ELSE "idle"]
    /\ arg = [g \in Togglers |-> NoArg]
    /\ next = [p \in Procs |-> FlagDefault]
    /\ told = [f \in Known |-> [live |-> Marshal(FlagDefault[f]), row |-> table[f]]]

GoTo(p, at) == pc' = [pc EXCEPT ![p] = at]

NewFlagSet ==
    /\ pc[Boot] = "down"
    /\ flags' = FlagDefault
    /\ GoTo(Boot, "lock")
    /\ UNCHANGED <<table, late, writeMu, arg, next, told>>

\* Mutant: Set without writeMu.
LockNoWait(p) ==
    /\ pc[p] = "lock"
    /\ writeMu' = p
    /\ GoTo(p, IF p = Boot THEN "load" ELSE "persist")
    /\ UNCHANGED <<table, late, flags, arg, next, told>>

Lock(p) ==
    /\ pc[p] = "lock"
    /\ writeMu = None
    /\ writeMu' = p
    /\ GoTo(p, IF p = Boot THEN "load" ELSE "persist")
    /\ UNCHANGED <<table, late, flags, arg, next, told>>

\* LoadAll fails: the defaults stay.
LoadFails ==
    /\ pc[Boot] = "load"
    /\ GoTo(Boot, "unlock")
    /\ UNCHANGED <<table, late, flags, writeMu, arg, next, told>>

Load ==
    /\ pc[Boot] = "load"
    /\ next' = [next EXCEPT ![Boot] = LoadedFlags(table)]
    /\ GoTo(Boot, "publish")
    /\ UNCHANGED <<table, late, flags, writeMu, arg, told>>

\* A caller who knows the row knows from here on what is live.
LoadPublish ==
    /\ pc[Boot] = "publish"
    /\ flags' = next[Boot]
    /\ told' = [f \in Known |->
                  [told[f] EXCEPT !.live =
                     IF told[f].row = "unknown" THEN "unknown"
                     ELSE IF Decodes(told[f].row) THEN Marshal(told[f].row = "true")
                     ELSE Marshal(FlagDefault[f])]]
    /\ GoTo(Boot, "unlock")
    /\ UNCHANGED <<table, late, writeMu, arg, next>>

LoadReturn ==
    /\ pc[Boot] = "unlock"
    /\ writeMu' = None
    /\ GoTo(Boot, "up")
    /\ UNCHANGED <<table, late, flags, arg, next, told>>

\* Set waits for the lock.  An unknown flag is refused with ErrUnknownFlag before
\* anything happens, which is no step here (AdminService has it).
Set(g, f, v) ==
    /\ pc[Boot] # "down"
    /\ pc[g] = "idle"
    /\ f \in Known
    /\ arg' = [arg EXCEPT ![g] = [flag |-> f, value |-> v]]
    /\ GoTo(g, "lock")
    /\ UNCHANGED <<table, late, flags, writeMu, next, told>>

Persist(g) ==
    /\ pc[g] = "persist"
    /\ table' = [table EXCEPT ![arg[g].flag] = Marshal(arg[g].value)]
    /\ told' = [told EXCEPT ![arg[g].flag].row = "pending"]
    /\ GoTo(g, "copy")
    /\ UNCHANGED <<late, flags, writeMu, arg, next>>

\* The statement fails, executed or not, or still on its way; Set returns the
\* error.
PersistFails(g) ==
    /\ pc[g] = "persist"
    /\ \/ UNCHANGED <<table, late>>
       \/ table' = [table EXCEPT ![arg[g].flag] = Marshal(arg[g].value)] /\ UNCHANGED late
       \/ /\ Cardinality(late) < MaxLate
          /\ late' = late \cup {arg[g]}
          /\ UNCHANGED table
    /\ told' = [told EXCEPT ![arg[g].flag].row = "unknown"]
    /\ arg' = [arg EXCEPT ![g] = NoArg]
    /\ writeMu' = None
    /\ GoTo(g, "idle")
    /\ UNCHANGED <<flags, next>>

\* Mutant: the new snapshot starts from the defaults.
CopyDefaults(g) ==
    /\ pc[g] = "copy"
    /\ next' = [next EXCEPT ![g] = [FlagDefault EXCEPT ![arg[g].flag] = arg[g].value]]
    /\ GoTo(g, "publish")
    /\ UNCHANGED <<table, late, flags, writeMu, arg, told>>

\* The live map is copied and the one flag set.
Copy(g) ==
    /\ pc[g] = "copy"
    /\ next' = [next EXCEPT ![g] = [flags EXCEPT ![arg[g].flag] = arg[g].value]]
    /\ GoTo(g, "publish")
    /\ UNCHANGED <<table, late, flags, writeMu, arg, told>>

Publish(g) ==
    /\ pc[g] = "publish"
    /\ flags' = next[g]
    /\ told' = [told EXCEPT ![arg[g].flag].live = "unknown"]
    /\ GoTo(g, "unlock")
    /\ UNCHANGED <<table, late, writeMu, arg, next>>

\* The deferred Unlock and a nil error, which tells the caller that the flag is
\* live and stored (unless a late statement overtook it).
Return(g) ==
    /\ pc[g] = "unlock"
    /\ told' = [told EXCEPT ![arg[g].flag] =
                   [live |-> Marshal(arg[g].value),
                    row  |-> IF @.row = "pending" THEN Marshal(arg[g].value) ELSE @.row]]
    /\ writeMu' = None
    /\ arg' = [arg EXCEPT ![g] = NoArg]
    /\ next' = [next EXCEPT ![g] = FlagDefault]
    /\ GoTo(g, "idle")
    /\ UNCHANGED <<table, late, flags>>

\* A late statement reaches the database, or never does.
LateCommit(o) ==
    /\ o \in late
    /\ late' = late \ {o}
    /\ table' = [table EXCEPT ![o.flag] = Marshal(o.value)]
    /\ told' = [told EXCEPT ![o.flag].row = "unknown"]
    /\ UNCHANGED <<flags, writeMu, pc, arg, next>>

LateDrop(o) ==
    /\ o \in late
    /\ late' = late \ {o}
    /\ UNCHANGED <<table, flags, writeMu, pc, arg, next, told>>

Crash ==
    /\ pc[Boot] # "down"
    /\ flags' = FlagDefault
    /\ writeMu' = None
    /\ pc' = [p \in Procs |-> IF p = Boot THEN "down" ELSE "idle"]
    /\ arg' = [g \in Togglers |-> NoArg]
    /\ next' = [p \in Procs |-> FlagDefault]
    /\ told' = [f \in Known |-> [live |-> Marshal(FlagDefault[f]),
                                 row  |-> IF told[f].row = "pending" THEN "unknown"
                                          ELSE told[f].row]]
    /\ UNCHANGED <<table, late>>

LoadAtBoot == Lock(Boot) \/ Load \/ LoadFails \/ LoadPublish \/ LoadReturn

Toggle(g) ==
    \/ \E f \in FlagNames, v \in BOOLEAN : Set(g, f, v)
    \/ Lock(g) \/ Persist(g) \/ PersistFails(g) \/ Copy(g) \/ Publish(g) \/ Return(g)

Next ==
    \/ NewFlagSet \/ LoadAtBoot \/ Crash
    \/ \E g \in Togglers : Toggle(g)
    \/ \E o \in late : LateCommit(o) \/ LateDrop(o)

Spec == Init /\ [][Next]_vars

\* The Go scheduler: a goroutine that waits for nothing goes on.  Nothing is assumed
\* of the store.
Fairness ==
    /\ WF_vars(LoadPublish)
    /\ \A g \in Togglers : WF_vars(Copy(g) \/ Publish(g))

FairSpec == Spec /\ Fairness

-----------------------------------------------------------------------------
(* The contract.  The lock holder that has persisted, or loaded, and has not *)
(* published owes its change to the live flags.                              *)

Due ==
    IF pc[Boot] = "publish" THEN next[Boot]
    ELSE [f \in {arg[g].flag : g \in {h \in Togglers : pc[h] \in {"copy", "publish"}}} |->
             \E g \in Togglers : pc[g] \in {"copy", "publish"} /\ arg[g].flag = f
                                /\ arg[g].value]

Contract == INSTANCE FlagContract WITH flagRows <- table, flagsDue <- Due

\* Set and LoadAtBoot have the effect of toggling one row and one live flag, or of
\* loading them all, although Set copies the whole map and may fail half way: the
\* FlagSet implements its contract.  What was persisted is also published, unless
\* the process dies first.
ImplementsFlagContract == Contract!FairSpec

-----------------------------------------------------------------------------
\* A flag has the live value its callers were told, whatever togglers of other
\* flags did at the same time ("a concurrent toggle of another flag is never
\* dropped from the snapshot"), and its default where nothing was ever stored.  An
\* acknowledged toggle is in the store, so the next boot reads it again; a toggle
\* whose statement failed leaves the live flag alone.
FlagsAsTold ==
    \A f \in Known :
        /\ told[f].live # "unknown" => Marshal(flags[f]) = told[f].live
        /\ told[f].row \in FlagRows => table[f] = told[f].row
=============================================================================
