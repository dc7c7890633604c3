--------------------------- MODULE RuntimeConfig ---------------------------
(***************************************************************************)
(* The runtimeconfig Manager: a registry of keys, a persistent Store of    *)
(* raw JSON rows, and one live Overlay behind an atomic pointer.  Apply,   *)
(* Clear and LoadAtBoot persist first and publish second under writeMu;    *)
(* the getters and MergedView read the pointer without a lock.             *)
(*                                                                         *)
(* A step of the model is what a goroutine does between two accesses to    *)
(* state that others can see: the mutex, the store, the overlay pointer.   *)
(* The process may crash between any two of them.  A Postgres statement    *)
(* whose call returned an error (a cancelled context, a lost connection)   *)
(* may still have been executed, or may be executed later.                 *)
(***************************************************************************)
EXTENDS ConfigRegistry, Naturals, FiniteSets

CONSTANTS
    Writers,          \* goroutines that call Apply and Clear
    Readers,          \* goroutines that call MergedView
    Boot,             \* the goroutine of the fx OnStart hook
    Durable,          \* TRUE: pgxstore.  FALSE: MemStore
    MaxOrphans,       \* bound: failed statements still on their way to Postgres
    Unknown,          \* history only: the callers cannot know
    Pending           \* history only: persisted, the caller not yet told

ASSUME HistoryAssumption ==
    /\ Unknown \notin Raws \cup Values \cup {None}
    /\ Pending \notin Raws \cup {None, Unknown}

ASSUME ProcessAssumption ==
    /\ Boot \notin Writers
    /\ None \notin Writers \cup {Boot}
    /\ Durable \in BOOLEAN
    /\ MaxOrphans \in Nat

Procs == Writers \cup {Boot}

VARIABLES
    store,      \* the table: name -> raw JSON row
    orphans,    \* statements that failed for their caller and may still run
    overlay,    \* Manager.state: key -> normalised override
    writeMu,    \* the holder of Manager.writeMu
    pc,         \* where each goroutine is
    call,       \* the arguments of Apply (row = raw) or Clear (row = None)
    next,       \* the local Overlay a goroutine is about to publish
    ret,        \* the error a call returns
    cur,        \* MergedView: the snapshot it loaded
    todo,       \* MergedView: the keys it has still to visit
    view,       \* MergedView: the entries built so far
    acked,      \* history: the row the callers know to be persisted
    effective,  \* history: the override the callers know to be live
    seen        \* history: the overlays live at some moment of a MergedView

writerVars == <<pc, call, next, ret>>
readerVars == <<cur, todo, view, seen>>
vars == <<store, orphans, overlay, writeMu, pc, call, next, ret,
          cur, todo, view, acked, effective, seen>>

NoCall == [name |-> None, row |-> None]

-----------------------------------------------------------------------------
TypeOK ==
    /\ store \in [Names -> Rows]
    /\ orphans \subseteq [name : Keys, row : Rows]
    /\ overlay \in Overlays
    /\ writeMu \in Procs \cup {None}
    /\ pc \in [Procs -> {"down", "idle", "lock", "persist", "clone", "publish",
                         "unlock", "replied", "load", "up"}]
    /\ call \in [Writers -> [name : Names \cup {None}, row : Rows]]
    /\ next \in [Procs -> Overlays]
    /\ ret \in [Writers -> {"none", "nil", "ErrUnknownKey", "ErrImmutable",
                            "ErrInvalidValue", "ErrStore"}]
    /\ cur \in [Readers -> Overlays]
    /\ todo \in [Readers -> SUBSET Keys]
    /\ view \in [Readers -> [Keys -> Entries]]
    /\ acked \in [Keys -> Rows \cup {Unknown, Pending}]
    /\ effective \in [Keys -> Values \cup {None, Unknown}]
    /\ seen \in [Readers -> SUBSET Overlays]

\* The process is down; the table holds whatever earlier releases wrote, rows
\* of keys that are unknown, immutable or no longer valid included.
Init ==
    /\ store \in [Names -> IF Durable THEN Rows ELSE {None}]
    /\ orphans = {}
    /\ overlay = newOverlay
    /\ writeMu = None
    /\ pc = [p \in Procs |-> IF p = Boot THEN "down" ELSE "idle"]
    /\ call = [w \in Writers |-> NoCall]
    /\ next = [p \in Procs |-> newOverlay]
    /\ ret = [w \in Writers |-> "none"]
    /\ cur = [r \in Readers |-> newOverlay]
    /\ todo = [r \in Readers |-> {}]
    /\ view = [r \in Readers |-> [k \in Keys |-> NoEntry]]
    /\ acked = [k \in Keys |-> store[k]]
    /\ effective = newOverlay
    /\ seen = [r \in Readers |-> {}]

GoTo(p, at) == pc' = [pc EXCEPT ![p] = at]

\* state.Store(next): the pointer is swapped; a MergedView that is running may
\* from now on be answered from the new snapshot.
Publish(o) ==
    /\ overlay' = o
    /\ seen' = [r \in Readers |-> IF todo[r] # {} THEN seen[r] \cup {o} ELSE seen[r]]

-----------------------------------------------------------------------------
(* Boot: NewManager, then LoadAtBoot from the OnStart hook. *)

NewManager ==
    /\ pc[Boot] = "down"
    /\ GoTo(Boot, "lock")
    /\ overlay' = newOverlay
    /\ UNCHANGED <<store, orphans, writeMu, call, next, ret, readerVars, acked,
                   effective>>

\* Mutant: Apply and Clear without writeMu.
LockNoWait(p) ==
    /\ pc[p] = "lock"
    /\ writeMu' = p
    /\ GoTo(p, IF p = Boot THEN "load" ELSE "persist")
    /\ UNCHANGED <<store, orphans, overlay, call, next, ret, readerVars, acked,
                   effective>>

\* writeMu.Lock(), for LoadAtBoot and for Apply and Clear.
Lock(p) ==
    /\ pc[p] = "lock"
    /\ writeMu = None
    /\ writeMu' = p
    /\ GoTo(p, IF p = Boot THEN "load" ELSE "persist")
    /\ UNCHANGED <<store, orphans, overlay, call, next, ret, readerVars, acked,
                   effective>>

\* LoadAll succeeds and every row passes through Registry.Validate.
LoadAll ==
    /\ pc[Boot] = "load"
    /\ next' = [next EXCEPT ![Boot] = LoadedOverlay(store)]
    /\ GoTo(Boot, "publish")
    /\ UNCHANGED <<store, orphans, overlay, writeMu, call, ret, readerVars,
                   acked, effective>>

\* LoadAll fails: LoadAtBoot warns and returns nil, the overlay stays.
LoadAllFails ==
    /\ Durable
    /\ pc[Boot] = "load"
    /\ GoTo(Boot, "unlock")
    /\ UNCHANGED <<store, orphans, overlay, writeMu, call, next, ret,
                   readerVars, acked, effective>>

LoadPublish ==
    /\ pc[Boot] = "publish"
    /\ Publish(next[Boot])
    /\ effective' = [k \in Keys |-> IF acked[k] \in Rows THEN LiveOf(k, acked[k])
                                    ELSE Unknown]
    /\ GoTo(Boot, "unlock")
    /\ UNCHANGED <<store, orphans, writeMu, call, next, ret, cur, todo, view,
                   acked>>

LoadReturn ==
    /\ pc[Boot] = "unlock"
    /\ writeMu' = None
    /\ GoTo(Boot, "up")
    /\ UNCHANGED <<store, orphans, overlay, call, next, ret, readerVars, acked,
                   effective>>

-----------------------------------------------------------------------------
(* Apply and Clear. *)

\* A call enters Apply(name, row), or Clear(name) when row = None.
Enter(w, name, row) ==
    /\ pc[Boot] # "down"
    /\ pc[w] = "idle"
    /\ call' = [call EXCEPT ![w] = [name |-> name, row |-> row]]
    /\ ret' = [ret EXCEPT ![w] = Refusal(name, row)]
    /\ GoTo(w, IF Refusal(name, row) = "none" THEN "lock" ELSE "replied")
    /\ UNCHANGED <<store, orphans, overlay, writeMu, next, readerVars, acked,
                   effective>>

Apply(w, name, raw) == Enter(w, name, raw)
Clear(w, name) == Enter(w, name, None)

\* Mutant: a RestartRequired key is hot-swapped too.
PersistSwapsAll(w) ==
    LET k == call[w].name IN
    /\ pc[w] = "persist"
    /\ store' = [store EXCEPT ![k] = call[w].row]
    /\ acked' = [acked EXCEPT ![k] = Pending]
    /\ GoTo(w, "clone")
    /\ UNCHANGED <<orphans, overlay, writeMu, call, next, ret, readerVars,
                   effective>>

\* Store.Upsert or Store.Delete returns nil.  A RestartRequired key is not
\* hot-swapped: the call returns from here.
Persist(w) ==
    LET k == call[w].name IN
    /\ pc[w] = "persist"
    /\ store' = [store EXCEPT ![k] = call[w].row]
    /\ acked' = [acked EXCEPT ![k] = Pending]
    /\ IF k \in RestartRequired
         THEN GoTo(w, "unlock") /\ ret' = [ret EXCEPT ![w] = "nil"]
         ELSE GoTo(w, "clone") /\ ret' = ret
    /\ UNCHANGED <<orphans, overlay, writeMu, call, next, readerVars, effective>>

\* Mutants: the error is ignored and the value published; the error path
\* returns without unlocking.
PersistFailsPublishes(w) ==
    /\ Durable
    /\ pc[w] = "persist"
    /\ acked' = [acked EXCEPT ![call[w].name] = Unknown]
    /\ GoTo(w, "clone")
    /\ UNCHANGED <<store, orphans, overlay, writeMu, call, next, ret, readerVars,
                   effective>>

PersistFailsLocked(w) ==
    /\ Durable
    /\ pc[w] = "persist"
    /\ acked' = [acked EXCEPT ![call[w].name] = Unknown]
    /\ ret' = [ret EXCEPT ![w] = "ErrStore"]
    /\ GoTo(w, "replied")
    /\ UNCHANGED <<store, orphans, overlay, writeMu, call, next, readerVars,
                   effective>>

\* The statement fails.  The row was not written, or it was and only the
\* answer was lost, or the statement is still on its way.
PersistFails(w) ==
    LET k == call[w].name IN
    /\ Durable
    /\ pc[w] = "persist"
    /\ \/ UNCHANGED <<store, orphans>>
       \/ store' = [store EXCEPT ![k] = call[w].row] /\ UNCHANGED orphans
       \/ /\ Cardinality(orphans) < MaxOrphans
          /\ orphans' = orphans \cup {call[w]}
          /\ UNCHANGED store
    /\ acked' = [acked EXCEPT ![k] = Unknown]
    /\ ret' = [ret EXCEPT ![w] = "ErrStore"]
    /\ GoTo(w, "unlock")
    /\ UNCHANGED <<overlay, writeMu, call, next, readerVars, effective>>

\* Mutant: the overlay is cloned by a helper that locks writeMu again.
CloneLocks(w) ==
    /\ pc[w] = "clone"
    /\ writeMu = None
    /\ next' = [next EXCEPT ![w] = Edited(overlay, call[w])]
    /\ GoTo(w, "publish")
    /\ UNCHANGED <<store, orphans, overlay, writeMu, call, ret, readerVars,
                   acked, effective>>

\* next := state.Load().clone(), with the one key set or deleted.
Clone(w) ==
    /\ pc[w] = "clone"
    /\ next' = [next EXCEPT ![w] = Edited(overlay, call[w])]
    /\ GoTo(w, "publish")
    /\ UNCHANGED <<store, orphans, overlay, writeMu, call, ret, readerVars,
                   acked, effective>>

WriterPublish(w) ==
    /\ pc[w] = "publish"
    /\ Publish(next[w])
    /\ effective' = [effective EXCEPT ![call[w].name] = Unknown]
    /\ ret' = [ret EXCEPT ![w] = "nil"]
    /\ GoTo(w, "unlock")
    /\ UNCHANGED <<store, orphans, writeMu, call, next, cur, todo, view, acked>>

\* The deferred Unlock and the return.  A nil error tells the caller that the
\* row is persisted (unless a late statement overtook it) and, unless the key
\* needs a restart, live.
Return(w) ==
    LET k == call[w].name IN
    /\ pc[w] = "unlock"
    /\ writeMu' = None
    /\ GoTo(w, "replied")
    /\ IF ret[w] # "nil" THEN UNCHANGED <<acked, effective>>
       ELSE /\ acked' = [acked EXCEPT ![k] =
                             IF @ = Pending THEN call[w].row ELSE @]
            /\ effective' = IF k \in RestartRequired THEN effective
                            ELSE [effective EXCEPT ![k] = LiveOf(k, call[w].row)]
    /\ UNCHANGED <<store, orphans, overlay, call, next, ret, readerVars>>

\* The caller takes the result.
Done(w) ==
    /\ pc[w] = "replied"
    /\ GoTo(w, "idle")
    /\ call' = [call EXCEPT ![w] = NoCall]
    /\ next' = [next EXCEPT ![w] = newOverlay]
    /\ ret' = [ret EXCEPT ![w] = "none"]
    /\ UNCHANGED <<store, orphans, overlay, writeMu, readerVars, acked,
                   effective>>

-----------------------------------------------------------------------------
(* MergedView: one load of the pointer, then a loop over the keys. *)

ViewLoad(r) ==
    /\ pc[Boot] # "down"
    /\ todo[r] = {}
    /\ cur' = [cur EXCEPT ![r] = overlay]
    /\ seen' = [seen EXCEPT ![r] = {overlay}]
    /\ todo' = [todo EXCEPT ![r] = Keys]
    /\ view' = [view EXCEPT ![r] = [k \in Keys |-> NoEntry]]
    /\ UNCHANGED <<store, orphans, overlay, writeMu, writerVars, acked,
                   effective>>

\* Mutant: every entry loads the pointer anew.
ViewKeyReloads(r, k) ==
    /\ k \in todo[r]
    /\ view' = [view EXCEPT ![r][k] = KeyView(overlay, k)]
    /\ todo' = [todo EXCEPT ![r] = @ \ {k}]
    /\ UNCHANGED <<store, orphans, overlay, writeMu, writerVars, cur, acked,
                   effective, seen>>

ViewKey(r, k) ==
    /\ k \in todo[r]
    /\ view' = [view EXCEPT ![r][k] = KeyView(cur[r], k)]
    /\ todo' = [todo EXCEPT ![r] = @ \ {k}]
    /\ UNCHANGED <<store, orphans, overlay, writeMu, writerVars, cur, acked,
                   effective, seen>>

-----------------------------------------------------------------------------
(* The environment. *)

\* An orphaned statement reaches Postgres after its caller gave it up.
LateCommit(o) ==
    /\ o \in orphans
    /\ orphans' = orphans \ {o}
    /\ store' = [store EXCEPT ![o.name] = o.row]
    /\ acked' = [acked EXCEPT ![o.name] = Unknown]
    /\ UNCHANGED <<overlay, writeMu, writerVars, readerVars, effective>>

LateDrop(o) ==
    /\ o \in orphans
    /\ orphans' = orphans \ {o}
    /\ UNCHANGED <<store, overlay, writeMu, writerVars, readerVars, acked,
                   effective>>

\* The process dies: its memory goes, a MemStore with it.
Crash ==
    /\ pc[Boot] # "down"
    /\ pc' = [p \in Procs |-> IF p = Boot THEN "down" ELSE "idle"]
    /\ store' = IF Durable THEN store ELSE [n \in Names |-> None]
    /\ acked' = IF Durable THEN acked ELSE [k \in Keys |-> None]
    /\ overlay' = newOverlay
    /\ effective' = newOverlay
    /\ writeMu' = None
    /\ call' = [w \in Writers |-> NoCall]
    /\ next' = [p \in Procs |-> newOverlay]
    /\ ret' = [w \in Writers |-> "none"]
    /\ cur' = [r \in Readers |-> newOverlay]
    /\ todo' = [r \in Readers |-> {}]
    /\ view' = [r \in Readers |-> [k \in Keys |-> NoEntry]]
    /\ seen' = [r \in Readers |-> {}]
    /\ UNCHANGED orphans

-----------------------------------------------------------------------------
LoadAtBoot == Lock(Boot) \/ LoadAll \/ LoadAllFails \/ LoadPublish \/ LoadReturn

WriterStep(w) ==
    \/ \E n \in Names : Clear(w, n) \/ \E raw \in Raws : Apply(w, n, raw)
    \/ Lock(w) \/ Persist(w) \/ PersistFails(w)
    \/ Clone(w) \/ WriterPublish(w) \/ Return(w) \/ Done(w)

MergedView(r) == ViewLoad(r) \/ \E k \in Keys : ViewKey(r, k)

Next ==
    \/ NewManager
    \/ LoadAtBoot
    \/ \E w \in Writers : WriterStep(w)
    \/ \E r \in Readers : MergedView(r)
    \/ \E o \in orphans : LateCommit(o) \/ LateDrop(o)
    \/ Crash

Spec == Init /\ [][Next]_vars

\* The Go scheduler runs every goroutine that can run, a sync.Mutex in
\* starvation mode is handed to the longest waiter, and the store answers every
\* statement, with success or with an error.
Fairness ==
    /\ \A p \in Procs : SF_vars(Lock(p))
    /\ WF_vars(LoadAll \/ LoadAllFails)
    /\ WF_vars(LoadPublish)
    /\ WF_vars(LoadReturn)
    /\ \A w \in Writers :
         /\ WF_vars(Persist(w) \/ PersistFails(w))
         /\ WF_vars(Clone(w))
         /\ WF_vars(WriterPublish(w))
         /\ WF_vars(Return(w))
         /\ WF_vars(Done(w))

FairSpec == Spec /\ Fairness

-----------------------------------------------------------------------------
(* Properties. *)

\* Apply and Clear return nil only when the row is in the store, and there it
\* stays, through every write of another key, every failure and every crash of
\* the process, until a later write of the same key reaches the store
\* ("Persist-first guarantees a restart re-reads the same value").
AckedPersisted ==
    \A k \in Keys : acked[k] \in Rows => store[k] = acked[k]

\* The live overlay holds for every key what the callers were told: the last
\* acknowledged write of a hot key, whatever concurrent writers of other keys
\* did (no clone of an old snapshot drops it); the value of the last boot for a
\* RestartRequired key; the old value when the store failed.
EffectiveLive ==
    \A k \in Keys : effective[k] # Unknown => overlay[k] = effective[k]

\* MergedView answers from a single snapshot that was live at some moment of
\* the call, although it builds its entries one by one without a lock.
ViewIsSnapshot ==
    \A r \in Readers :
        seen[r] # {} /\ todo[r] = {} =>
            \E o \in seen[r] : \A k \in Keys : view[r][k] = KeyView(o, k)

\* An override becomes live only through a running Apply or Clear of its own
\* key, and that only for a mutable key that needs no restart, or through
\* LoadAtBoot.
HotSwapOnly ==
    [][\A k \in Keys :
          overlay'[k] # overlay[k] =>
              \/ pc'[Boot] = "down"
              \/ pc[Boot] = "publish"
              \/ /\ k \in Mutable \ RestartRequired
                 /\ \E w \in Writers : pc[w] = "publish" /\ call[w].name = k]_vars

\* Every Apply and Clear returns, however many callers queue on writeMu, and
\* whether the store answers or fails; and LoadAtBoot returns even when writers
\* compete with it for writeMu: a store error never keeps the service from
\* booting.
CallsReturn ==
    /\ \A w \in Writers :
          pc[w] \in {"lock", "persist"} ~> pc[w] \in {"replied", "idle"}
    /\ pc[Boot] = "lock" ~> pc[Boot] \in {"up", "down"}

-----------------------------------------------------------------------------
(* The Manager implements ConfigContract.  What is due is the entry of the   *)
(* writer that has persisted and not yet published, or the loaded overlay.   *)

Due ==
    IF writeMu \in Writers /\ pc[writeMu] \in {"clone", "publish"}
      THEN [k \in {call[writeMu].name} |-> LiveOf(k, call[writeMu].row)]
    ELSE IF writeMu = Boot /\ pc[Boot] = "publish" THEN next[Boot]
    ELSE [k \in {} |-> None]

Contract == INSTANCE ConfigContract WITH
                rows <- [k \in Keys |-> store[k]], live <- overlay, due <- Due

\* Swapping a whole cloned overlay under writeMu has the effect of publishing
\* the one entry the writer persisted: no other key's override moves, none is
\* lost, and a failed statement never becomes live before a restart.
ImplementsContract == Contract!Spec

\* And what was persisted with success is published, unless the process dies.
ImplementsFairContract == Contract!FairSpec
=============================================================================
