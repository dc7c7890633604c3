-------------------------- MODULE LocationRegistry --------------------------
(***************************************************************************)
(* The package-level registries of location (StationMap,                   *)
(* LocationShortcutsMap, ActiveShapeProvider) behind registryMu, and       *)
(* ParseLocation on a name, which takes and releases the read lock up to   *)
(* four times while Register* and SetShapeProvider change what it reads.   *)
(*                                                                         *)
(* The maps are reached through the accessors only: the deprecated direct  *)
(* writes to the exported variables are not modelled.  sync.RWMutex is     *)
(* external: a writer that waits keeps new readers out, and the readers it *)
(* kept waiting go first when it unlocks.                                  *)
(***************************************************************************)
EXTENDS ShapeLookup

CONSTANTS
    LocNames,     \* names, lower-cased
    Payloads,     \* points of stations and rectangles of shortcuts
    Zero,         \* the zero PointLocation or RectangleLocation
    Providers,    \* shape providers that may be installed
    Features,     \* [Providers -> sequences of features]: their data
    Parsers,      \* goroutines that call ParseLocation
    Setters,      \* goroutines that call Register* or SetShapeProvider
    None

ASSUME RegistryAssumption ==
    /\ None \notin Payloads \cup Providers \cup Setters
    /\ Zero \notin Payloads
    /\ Parsers \cap Setters = {}

VARIABLES
    stations, shortcuts, provider,
    readers,    \* registryMu: who holds it for reading
    queued,     \* registryMu: readers a writer keeps waiting
    turn,       \* registryMu: the writer that holds or waits for it
    at,         \* goroutine -> the lookup or the update it is at
    held,       \* goroutine -> it is inside registryMu
    arg,        \* parser -> the name; setter -> its update
    answer,     \* parser -> the Location
    known,      \* history: parser -> what the call could find when it began
    seen        \* history: parser -> the values registered during the call

locks == <<readers, queued, turn, held>>
maps == <<stations, shortcuts, provider>>
vars == <<maps, locks, at, arg, answer, known, seen>>

Procs == Parsers \cup Setters
lookup == [pr \in Providers |-> NewShapeProvider(Features[pr])]

\* A nil provider finds nothing.
ShapeOf(pr, name) ==
    IF pr # None /\ name \in DOMAIN lookup[pr] THEN lookup[pr][name] ELSE None

\* A polygon is not the zero value of another type.
ASSUME ShapeAssumption == \A pr \in Providers, n \in LocNames : ShapeOf(pr, n) # Zero

Lookups == {"isStation", "station", "isShortcut", "shape", "shortcut", "prefixed"}

NoAnswer == [type |-> "none", value |-> None]
NoUpdate == [map |-> "none", name |-> None, value |-> None]

\* What the three registries hold for a name.
Entry(st, sh, pr, name) ==
    { <<"point", st[name]>>, <<"rectangle", sh[name]>>,
      <<"polygon", ShapeOf(pr, name)>>, <<"provider", pr>> }

Registered(name) == {e \in Entry(stations, shortcuts, provider, name) : e[2] # None}

\* A writer is never inside together with anybody else.
TypeOK ==
    /\ stations \in [LocNames -> Payloads \cup {None}]
    /\ shortcuts \in [LocNames -> Payloads \cup {None}]
    /\ provider \in Providers \cup {None}
    /\ readers \subseteq Parsers /\ queued \subseteq Parsers
    /\ readers \cap queued = {}
    /\ turn \in Setters \cup {None}
    /\ at \in [Procs -> Lookups \cup {"idle", "update", "answered"}]
    /\ held \in [Procs -> BOOLEAN]
    /\ \A p \in Parsers : held[p] <=> p \in readers
    /\ \A s \in Setters : held[s] => turn = s /\ readers = {}

Init ==
    /\ stations = [x \in LocNames |-> None]
    /\ shortcuts = [x \in LocNames |-> None]
    /\ provider = None
    /\ readers = {} /\ queued = {} /\ turn = None
    /\ at = [p \in Procs |-> "idle"]
    /\ held = [p \in Procs |-> FALSE]
    /\ arg = [p \in Procs |-> IF p \in Parsers THEN None ELSE NoUpdate]
    /\ answer = [p \in Parsers |-> NoAnswer]
    /\ known = [p \in Parsers |-> {}]
    /\ seen = [p \in Parsers |-> {}]

-----------------------------------------------------------------------------
(* registryMu. *)

RLock(p) ==
    /\ at[p] \in Lookups /\ ~held[p] /\ p \notin queued
    /\ IF turn = None
         THEN readers' = readers \cup {p} /\ held' = [held EXCEPT ![p] = TRUE]
              /\ UNCHANGED queued
         ELSE queued' = queued \cup {p} /\ UNCHANGED <<readers, held>>
    /\ UNCHANGED <<maps, turn, at, arg, answer, known, seen>>

\* Lock: the writer announces itself; with the last reader gone it is in.
Announce(s) ==
    /\ at[s] = "update" /\ turn = None
    /\ turn' = s
    /\ UNCHANGED <<maps, readers, queued, held, at, arg, answer, known, seen>>

WLock(s) ==
    /\ turn = s /\ ~held[s]
    /\ readers = {}
    /\ held' = [held EXCEPT ![s] = TRUE]
    /\ UNCHANGED <<maps, readers, queued, turn, at, arg, answer, known, seen>>

-----------------------------------------------------------------------------
(* ParseLocation. *)

\* A call with a bare name, or with "station:name".
Begin(p, name, prefixed) ==
    /\ at[p] = "idle"
    /\ at' = [at EXCEPT ![p] = IF prefixed THEN "prefixed" ELSE "isStation"]
    /\ arg' = [arg EXCEPT ![p] = name]
    /\ answer' = [answer EXCEPT ![p] = NoAnswer]
    /\ known' = [known EXCEPT ![p] = {e \in Registered(name) : prefixed => e[1] = "point"}]
    /\ seen' = [seen EXCEPT ![p] = Entry(stations, shortcuts, provider, name)]
    /\ UNCHANGED <<maps, locks>>

\* The lookup under the read lock and the deferred RUnlock; then ParseLocation
\* goes on to the next lookup or answers.
RUnlock(p) ==
    /\ readers' = readers \ {p}
    /\ held' = [held EXCEPT ![p] = FALSE]
    /\ UNCHANGED <<queued, turn>>

GoOn(p, next) ==
    /\ RUnlock(p)
    /\ at' = [at EXCEPT ![p] = next]
    /\ UNCHANGED <<maps, arg, answer, known, seen>>

AnswerWith(p, type, value) ==
    /\ RUnlock(p)
    /\ at' = [at EXCEPT ![p] = "answered"]
    /\ answer' = [answer EXCEPT ![p] = [type |-> type, value |-> value]]
    /\ UNCHANGED <<maps, arg, known, seen>>

OrZero(v) == IF v = None THEN Zero ELSE v

\* Mutant: ok is ignored.
isPredefinedStationAny(p) ==
    /\ at[p] = "isStation" /\ held[p]
    /\ GoOn(p, "station")

isPredefinedStation(p) ==
    /\ at[p] = "isStation" /\ held[p]
    /\ GoOn(p, IF stations[arg[p]] # None THEN "station" ELSE "isShortcut")

\* The second lookup of the name ignores ok.
getLocationFromStationID(p) ==
    /\ at[p] = "station" /\ held[p]
    /\ AnswerWith(p, "point", OrZero(stations[arg[p]]))

\* Neither station nor shortcut: the name goes on to the coordinate parsers,
\* which refuse it.
isPredefinedShortcut(p) ==
    /\ at[p] = "isShortcut" /\ held[p]
    /\ IF shortcuts[arg[p]] # None THEN GoOn(p, "shape")
       ELSE AnswerWith(p, "error", None)

\* Mutant: without a polygon the name is looked up all over again.
tryPolygonFromShortcutRetries(p) ==
    /\ at[p] = "shape" /\ held[p]
    /\ IF ShapeOf(provider, arg[p]) # None
         THEN AnswerWith(p, "polygon", ShapeOf(provider, arg[p]))
         ELSE GoOn(p, "isShortcut")

tryPolygonFromShortcut(p) ==
    /\ at[p] = "shape" /\ held[p]
    /\ IF ShapeOf(provider, arg[p]) # None
         THEN AnswerWith(p, "polygon", ShapeOf(provider, arg[p]))
         ELSE GoOn(p, "shortcut")

getLocationFromShortcut(p) ==
    /\ at[p] = "shortcut" /\ held[p]
    /\ AnswerWith(p, "rectangle", OrZero(shortcuts[arg[p]]))

parsePrefixedStation(p) ==
    /\ at[p] = "prefixed" /\ held[p]
    /\ IF stations[arg[p]] # None THEN AnswerWith(p, "point", stations[arg[p]])
       ELSE AnswerWith(p, "error", None)

Take(p) ==
    /\ at[p] = "answered"
    /\ at' = [at EXCEPT ![p] = "idle"]
    /\ arg' = [arg EXCEPT ![p] = None]
    /\ answer' = [answer EXCEPT ![p] = NoAnswer]
    /\ known' = [known EXCEPT ![p] = {}]
    /\ seen' = [seen EXCEPT ![p] = {}]
    /\ UNCHANGED <<maps, locks>>

-----------------------------------------------------------------------------
(* RegisterStation, RegisterLocationShortcut, SetShapeProvider. *)

Update(s, u) ==
    /\ at[s] = "idle"
    /\ at' = [at EXCEPT ![s] = "update"]
    /\ arg' = [arg EXCEPT ![s] = u]
    /\ UNCHANGED <<maps, locks, answer, known, seen>>

Updated(m, u) == [m EXCEPT ![u.name] = u.value]

Release == readers' = queued /\ queued' = {} /\ turn' = None

\* The assignment and the deferred Unlock.
Write(s) ==
    LET u == arg[s] IN
    /\ at[s] = "update" /\ held[s]
    /\ stations' = IF u.map = "station" THEN Updated(stations, u) ELSE stations
    /\ shortcuts' = IF u.map = "shortcut" THEN Updated(shortcuts, u) ELSE shortcuts
    /\ provider' = IF u.map = "shape" THEN u.value ELSE provider
    /\ seen' = [p \in Parsers |-> IF at[p] \in Lookups
                  THEN seen[p] \cup Entry(stations', shortcuts', provider', arg[p])
                  ELSE seen[p]]
    /\ Release
    /\ held' = [p \in Procs |-> p # s /\ (held[p] \/ p \in queued)]
    /\ at' = [at EXCEPT ![s] = "idle"]
    /\ arg' = [arg EXCEPT ![s] = NoUpdate]
    /\ UNCHANGED <<answer, known>>

Updates ==
    [map : {"station", "shortcut"}, name : LocNames, value : Payloads]
      \cup [map : {"shape"}, name : {None}, value : Providers \cup {None}]

Lookup(p) ==
    \/ isPredefinedStation(p) \/ getLocationFromStationID(p)
    \/ isPredefinedShortcut(p) \/ tryPolygonFromShortcut(p)
    \/ getLocationFromShortcut(p) \/ parsePrefixedStation(p)

Next ==
    \/ \E p \in Parsers :
         \/ \E name \in LocNames, prefixed \in BOOLEAN : Begin(p, name, prefixed)
         \/ RLock(p) \/ Lookup(p) \/ Take(p)
    \/ \E s \in Setters :
         \/ \E u \in Updates : Update(s, u)
         \/ Announce(s) \/ WLock(s) \/ Write(s)

Spec == Init /\ [][Next]_vars

\* The Go scheduler, and the starvation mode of the mutex the writers queue on.
FairSpec ==
    /\ Spec
    /\ \A p \in Parsers : WF_vars(RLock(p)) /\ WF_vars(Lookup(p))
    /\ \A s \in Setters : SF_vars(Announce(s)) /\ WF_vars(WLock(s)) /\ WF_vars(Write(s))

-----------------------------------------------------------------------------
\* Although ParseLocation looks a name up, lets go of the lock and looks it up
\* again, it answers with a payload that was registered under that name during
\* the call: never with the zero location a missed second lookup would give.
AnswerWasRegistered ==
    \A p \in Parsers :
        answer[p].type \in {"point", "rectangle", "polygon"} =>
            /\ answer[p].value # Zero
            /\ <<answer[p].type, answer[p].value>> \in seen[p]

\* The names under which a feature should be found: its own, with or without
\* spaces, its aliases, and for each ISO code the de-facto one if there is none.
Called(f) ==
    ({f.name, f.squashed}
       \cup {a.alias : a \in {x \in Range(countryAliases) : x.naturalEarthName = f.name}}
       \cup (IF f.a2 \in {"", "-99"} THEN {f.a2eh} ELSE {f.a2})
       \cup (IF f.a3 \in {"", "-99"} THEN {f.a3eh} ELSE {f.a3})) \ {"", "-99"}

CountriesCalled(pr, name) ==
    {f.name : f \in {x \in Range(Features[pr]) : parseGeometry(x) /\ name \in Called(x)}}

\* A provider finds each of its countries under all of its names, and nothing
\* under any other name.
LookupIsFaithful(pr) ==
    \A n \in LocNames \cup UNION {Called(f) : f \in Range(Features[pr])} :
        IF CountriesCalled(pr, n) = {} THEN ShapeOf(pr, n) = None
        ELSE ShapeOf(pr, n) # None /\ ShapeOf(pr, n) \in CountriesCalled(pr, n)

\* A name that was registered when the call began is always resolved, and as
\* the type its precedence says: a station as a point, a shortcut as the outline of
\* a country of that name, and as a rectangle only where at some moment of the call
\* no provider with such a country was installed.  The lookup map of the installed
\* provider is faithful to its data.
KnownNamesResolve ==
    /\ provider # None => LookupIsFaithful(provider)
    /\ \A p \in Parsers : at[p] = "answered" =>
        LET name == arg[p] IN
        /\ {e \in known[p] : e[1] = "point"} # {} => answer[p].type = "point"
        /\ answer[p].type = "error" => {e \in known[p] : e[1] \in {"point", "rectangle"}} = {}
        /\ answer[p].type = "rectangle" =>
             /\ <<"point", None>> \in seen[p]
             /\ \/ <<"provider", None>> \in seen[p]
                \/ \E pr \in Providers : <<"provider", pr>> \in seen[p]
                                         /\ CountriesCalled(pr, name) = {}
        /\ answer[p].type = "polygon" =>
             \E pr \in Providers : <<"provider", pr>> \in seen[p]
                                   /\ answer[p].value \in CountriesCalled(pr, name)

\* ParseLocation and every registration return: no reader is left behind by a
\* writer, no writer by the readers, and no lookup waits for a lock it holds.
RegistryReturns ==
    /\ \A p \in Parsers : at[p] = "isStation" ~> at[p] = "answered"
    /\ \A s \in Setters : at[s] = "update" ~> at[s] = "idle"
=============================================================================
