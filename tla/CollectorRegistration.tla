----------------------- MODULE CollectorRegistration -----------------------
(***************************************************************************)
(* RegisterDefaultCollectors: several starters of one process (the fx hook *)
(* and a service's own wiring) call it, a sync.Once lets one of them       *)
(* register the collectors one after the other, and another package may    *)
(* already have taken one of their names in the default registry.          *)
(***************************************************************************)
EXTENDS Naturals, Sequences

CONSTANTS Starters     \* goroutines that call RegisterDefaultCollectors

VARIABLES
    once,          \* registerOnce: "new", "running" or "done"
    registered,    \* the collectors of this package in the default registry
    foreign,       \* names taken by collectors of others
    registerErr,   \* the collector that could not be registered, "nil"
    at,            \* starter -> where it is
    returned       \* starter -> the error it was given

Pending == ""    \* a starter whose call has not returned
registration == <<once, registered, foreign, registerErr, at, returned>>

collectors == <<"HTTPRequestsTotal", "HTTPRequestDuration", "HTTPRequestsInFlight">>
CollectorNames == {collectors[i] : i \in DOMAIN collectors}

RegistrationInit ==
    /\ once = "new"
    /\ registered = {}
    /\ foreign = {}
    /\ registerErr = "nil"
    /\ at = [s \in Starters |-> 0]
    /\ returned = [s \in Starters |-> Pending]

\* A consumer registers a collector of its own, under a name of this package.
RegisterCollector(x) ==
    /\ x \notin registered \cup foreign
    /\ foreign' = foreign \cup {x}
    /\ UNCHANGED <<once, registered, registerErr, at, returned>>

\* Mutant: a flag that is set first instead of a Once; nobody waits.
DoFlag(s) ==
    /\ at[s] = 0
    /\ IF once = "new"
         THEN once' = "running" /\ at' = [at EXCEPT ![s] = 1]
         ELSE UNCHANGED once /\ at' = [at EXCEPT ![s] = Len(collectors) + 1]
    /\ UNCHANGED <<registered, foreign, registerErr, returned>>

\* registerOnce.Do: the first caller runs the function, the others wait for it.
Do(s) ==
    /\ at[s] = 0
    /\ once # "running"
    /\ IF once = "new"
         THEN once' = "running" /\ at' = [at EXCEPT ![s] = 1]
         ELSE UNCHANGED once /\ at' = [at EXCEPT ![s] = Len(collectors) + 1]
    /\ UNCHANGED <<registered, foreign, registerErr, returned>>

\* prometheus.Register of the next collector; the first error ends the function.
Register(s) ==
    LET x == collectors[at[s]] IN
    /\ at[s] \in DOMAIN collectors
    /\ IF x \in registered \cup foreign
         THEN /\ registerErr' = x
              /\ at' = [at EXCEPT ![s] = Len(collectors) + 1]
              /\ UNCHANGED registered
         ELSE /\ registered' = registered \cup {x}
              /\ at' = [at EXCEPT ![s] = @ + 1]
              /\ UNCHANGED registerErr
    /\ once' = IF at'[s] > Len(collectors) THEN "done" ELSE once
    /\ UNCHANGED <<foreign, returned>>

Return(s) ==
    /\ at[s] = Len(collectors) + 1
    /\ returned[s] = Pending
    /\ returned' = [returned EXCEPT ![s] = registerErr]
    /\ UNCHANGED <<once, registered, foreign, registerErr, at>>

RegisterDefaultCollectors(s) == Do(s) \/ Register(s) \/ Return(s)

Started == \A s \in Starters : returned[s] # Pending

-----------------------------------------------------------------------------
\* Every starter gets the same verdict, and a true one: nil means that all the
\* collectors are scraped, an error names the first one whose name was taken, and
\* then the ones before it are registered and the ones after it are not.
CollectorsRegisteredOnce ==
    \A s \in Starters : returned[s] # Pending =>
        /\ returned[s] = "nil" => registered = CollectorNames
        /\ returned[s] # "nil" => \E i \in DOMAIN collectors :
              /\ collectors[i] = returned[s] /\ returned[s] \in foreign
              /\ registered = {collectors[j] : j \in 1..(i - 1)}
        /\ \A t \in Starters : returned[t] \in {Pending, returned[s]}
=============================================================================
