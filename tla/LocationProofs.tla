--------------------------- MODULE LocationProofs ---------------------------
(***************************************************************************)
(* Proofs about LocationRegistry, for any number of goroutines, names,     *)
(* payloads and shape providers, and about LocationExpansion, for any      *)
(* caps, units, inputs and format of floats.  How a provider builds its    *)
(* lookup map is a fold over its data and plays no part here: ShapeOf and  *)
(* CountriesCalled are not expanded.                                       *)
(***************************************************************************)
EXTENDS LocationRegistry, LocationExpansion, WellFoundedInduction, TLAPS

(* ParseLocation and the registrations: the inductive invariant. *)

Places == Lookups \cup {"idle", "answered"}

\* Who is where, and with what argument; a writer that has announced itself has
\* its update still to do.
PlaceInv ==
    /\ DOMAIN arg = Procs
    /\ DOMAIN answer = Parsers /\ DOMAIN known = Parsers /\ DOMAIN seen = Parsers
    /\ \A p \in Parsers : at[p] \in Places /\ (at[p] # "idle" => arg[p] \in LocNames)
    /\ \A s \in Setters : /\ at[s] \in {"idle", "update"}
                          /\ at[s] = "update" => arg[s] \in Updates
                          /\ turn = s => at[s] = "update"

TypeInv == TypeOK /\ PlaceInv

\* During a call everything that is registered under its name has been seen.
SeesAll(p) ==
    at[p] \in Lookups => Entry(stations, shortcuts, provider, arg[p]) \subseteq seen[p]

\* What an earlier lookup found is still there for a later one, because nothing is
\* ever unregistered.
StillThere(p) ==
    /\ at[p] = "station" => stations[arg[p]] # None
    /\ at[p] \in {"shape", "shortcut"} => shortcuts[arg[p]] # None

KnownAs(p, type) == {e \in known[p] : e[1] = type}

\* What was known when the call began is still registered, and once the call has
\* gone past the stations no station was known.
KnownStill(p) ==
    /\ at[p] \in {"isStation", "prefixed"} /\ KnownAs(p, "point") # {} =>
          stations[arg[p]] # None
    /\ at[p] \in Lookups \ {"station", "prefixed"} /\ KnownAs(p, "rectangle") # {} =>
          shortcuts[arg[p]] # None
    /\ at[p] = "prefixed" => KnownAs(p, "rectangle") = {}
    /\ at[p] \in {"isShortcut", "shape", "shortcut"} =>
          KnownAs(p, "point") = {} /\ <<"point", None>> \in seen[p]

\* The rectangle is read after a provider, or none, had no outline of that name.
NoOutline(p) ==
    \/ <<"provider", None>> \in seen[p]
    \/ \E pr \in Providers : <<"provider", pr>> \in seen[p] /\ ShapeOf(pr, arg[p]) = None

Outline(p) ==
    \E pr \in Providers : /\ <<"provider", pr>> \in seen[p]
                          /\ answer[p].value = ShapeOf(pr, arg[p])
                          /\ answer[p].value # None

\* What an answer was found under.
Justified(p) ==
    /\ at[p] # "answered" => answer[p] = NoAnswer
    /\ at[p] = "shortcut" => NoOutline(p)
    /\ at[p] = "answered" =>
         /\ answer[p].type \in {"point", "rectangle", "polygon", "error"}
         /\ answer[p].type # "error" =>
              /\ answer[p].value # Zero
              /\ <<answer[p].type, answer[p].value>> \in seen[p]
         /\ KnownAs(p, "point") # {} => answer[p].type = "point"
         /\ answer[p].type = "error" => KnownAs(p, "rectangle") = {}
         /\ answer[p].type = "rectangle" => <<"point", None>> \in seen[p] /\ NoOutline(p)
         /\ answer[p].type = "polygon" => Outline(p)

Sound(p) == SeesAll(p) /\ StillThere(p) /\ KnownStill(p) /\ Justified(p)

AnswerInv == \A p \in Parsers : Sound(p)

-----------------------------------------------------------------------------
(* Types, and the exclusion of the RWMutex. *)

LEMMA TypeInit == Init => TypeInv
  BY RegistryAssumption
     DEF Init, TypeInv, TypeOK, PlaceInv, Procs, Places

\* A lookup ends with the deferred RUnlock and goes on or answers.
LEMMA LookupEnds ==
    ASSUME NEW p \in Parsers, Lookup(p)
    PROVE  /\ at[p] \in Lookups /\ held[p]
           /\ RUnlock(p)
           /\ \E next \in Lookups \cup {"answered"} : at' = [at EXCEPT ![p] = next]
           /\ answer' = answer \/ \E a : answer' = [answer EXCEPT ![p] = a]
           /\ UNCHANGED <<maps, arg, known, seen>>
  BY DEF Lookup, isPredefinedStation, getLocationFromStationID, isPredefinedShortcut,
         tryPolygonFromShortcut, getLocationFromShortcut, parsePrefixedStation,
         GoOn, AnswerWith, Lookups, maps

\* The update under the lock, and who is let in when the writer unlocks.
LEMMA WriteTypes ==
    ASSUME TypeInv, NEW s \in Setters, Write(s)
    PROVE  TypeInv'
  <1> DEFINE u == arg[s]
  <1> TypeOK /\ PlaceInv
    BY DEF TypeInv
  <1>1. u \in Updates /\ turn = s /\ readers = {} /\ s \in Procs
    BY DEF Write, TypeOK, PlaceInv, Procs
  <1>2. /\ stations' \in [LocNames -> Payloads \cup {None}]
        /\ shortcuts' \in [LocNames -> Payloads \cup {None}]
        /\ provider' \in Providers \cup {None}
    BY <1>1 DEF Write, TypeOK, Updated, Updates
  <1>3. /\ readers' = queued /\ queued' = {} /\ turn' = None
        /\ held' \in [Procs -> BOOLEAN]
        /\ \A p \in Procs : held'[p] <=> p # s /\ (held[p] \/ p \in queued)
    BY <1>1 DEF Write, Release, TypeOK
  <1>4. /\ readers' \subseteq Parsers /\ queued' \subseteq Parsers
        /\ readers' \cap queued' = {}
        /\ \A p \in Parsers : held'[p] <=> p \in readers'
        /\ \A t \in Setters : ~held'[t]
    BY <1>1, <1>3, RegistryAssumption DEF TypeOK, Procs
  <1>5. TypeOK'
    BY <1>2, <1>3, <1>4 DEF Write, TypeOK
  <1>6. PlaceInv'
    BY <1>1, <1>3, RegistryAssumption DEF Write, TypeOK, PlaceInv, Procs, Places
  <1>7. QED
    BY <1>5, <1>6 DEF TypeInv

LEMMA TypeStep == TypeInv /\ [Next]_vars => TypeInv'
  <1> SUFFICES ASSUME TypeInv, [Next]_vars PROVE TypeInv'
    OBVIOUS
  <1> TypeOK /\ PlaceInv
    BY DEF TypeInv
  <1> USE RegistryAssumption DEF maps, locks, Procs, TypeInv
  <1>1. ASSUME NEW p \in Parsers, NEW name \in LocNames, NEW prefixed \in BOOLEAN,
              Begin(p, name, prefixed)
        PROVE  TypeInv'
    BY <1>1 DEF Begin, TypeOK, PlaceInv, Places, Lookups
  <1>2. ASSUME NEW p \in Parsers, RLock(p) PROVE TypeInv'
    <2>1. CASE turn = None
      <3>1. /\ held' = [held EXCEPT ![p] = TRUE]
            /\ readers' = readers \cup {p} /\ queued' = queued /\ p \notin queued
            /\ UNCHANGED <<stations, shortcuts, provider, turn, at, arg, answer, known, seen>>
        BY <1>2, <2>1 DEF RLock
      <3>2. \A s \in Setters : s # p /\ ~held[s]
        BY <2>1 DEF TypeOK
      <3>3. /\ held' \in [Procs -> BOOLEAN] /\ held'[p]
            /\ \A q \in Procs : q # p => held'[q] = held[q]
        BY <3>1 DEF TypeOK
      <3>4. /\ \A q \in Parsers : held'[q] <=> q \in readers'
            /\ \A s \in Setters : ~held'[s]
        BY <3>1, <3>2, <3>3 DEF TypeOK
      <3>5. QED
        BY <3>1, <3>3, <3>4 DEF TypeOK, PlaceInv
    <2>2. CASE turn # None
      BY <1>2, <2>2 DEF RLock, TypeOK, PlaceInv
    <2>3. QED
      BY <2>1, <2>2
  <1>3. ASSUME NEW p \in Parsers, Lookup(p) PROVE TypeInv'
    <2>1. /\ held' \in [Procs -> BOOLEAN] /\ ~held'[p]
          /\ \A q \in Procs : q # p => held'[q] = held[q]
          /\ readers' = readers \ {p} /\ UNCHANGED <<queued, turn>>
      BY <1>3, LookupEnds DEF RUnlock, TypeOK
    <2>2. /\ \A q \in Parsers : held'[q] <=> q \in readers'
          /\ \A s \in Setters : held'[s] => turn' = s /\ readers' = {}
      BY <2>1 DEF TypeOK
    <2>3. at' \in [Procs -> Lookups \cup {"idle", "update", "answered"}]
      BY <1>3, LookupEnds DEF TypeOK
    <2>4. TypeOK'
      BY <1>3, LookupEnds, <2>1, <2>2, <2>3 DEF TypeOK
    <2>5. PlaceInv'
      BY <1>3, LookupEnds DEF RUnlock, TypeOK, PlaceInv, Places, Lookups
    <2>6. QED
      BY <2>4, <2>5
  <1>4. ASSUME NEW p \in Parsers, Take(p) PROVE TypeInv'
    BY <1>4 DEF Take, TypeOK, PlaceInv, Places
  <1>5. ASSUME NEW s \in Setters, NEW u \in Updates, Update(s, u) PROVE TypeInv'
    BY <1>5 DEF Update, TypeOK, PlaceInv
  <1>6. ASSUME NEW s \in Setters, Announce(s) PROVE TypeInv'
    BY <1>6 DEF Announce, TypeOK, PlaceInv
  <1>7. ASSUME NEW s \in Setters, WLock(s) PROVE TypeInv'
    BY <1>7 DEF WLock, TypeOK, PlaceInv
  <1>8. ASSUME NEW s \in Setters, Write(s) PROVE TypeInv'
    BY <1>8, WriteTypes
  <1>9. CASE UNCHANGED vars
    BY <1>9 DEF vars, TypeOK, PlaceInv
  <1>10. QED
    BY <1>1, <1>2, <1>3, <1>4, <1>5, <1>6, <1>7, <1>8, <1>9 DEF Next

LEMMA TypeInvariant == Spec => []TypeInv
  BY TypeInit, TypeStep, PTL DEF Spec

\* Whatever the goroutines do, the registries keep their types, a writer is alone
\* inside registryMu, and exactly the readers that hold it are inside with others.
THEOREM RegistryTypes == Spec => []TypeOK
  <1>1. TypeInv => TypeOK
    BY DEF TypeInv
  <1>2. QED
    BY <1>1, TypeInvariant, PTL

-----------------------------------------------------------------------------
(* What an answer rests on. *)

\* What is registered under a name when a call begins.
LEMMA KnownAtFirst ==
    ASSUME NEW name
    PROVE  /\ (\E e \in Registered(name) : e[1] = "point") => stations[name] # None
           /\ (\E e \in Registered(name) : e[1] = "rectangle") => shortcuts[name] # None
  BY DEF Registered, Entry

LEMMA EntryHas ==
    ASSUME NEW p \in Parsers, SeesAll(p), at[p] \in Lookups
    PROVE  /\ <<"point", stations[arg[p]]>> \in seen[p]
           /\ <<"rectangle", shortcuts[arg[p]]>> \in seen[p]
           /\ <<"polygon", ShapeOf(provider, arg[p])>> \in seen[p]
           /\ <<"provider", provider>> \in seen[p]
  BY DEF SeesAll, Entry

\* A call that does not move keeps what is known of it, as long as nothing is
\* unregistered and everything new is seen.
LEMMA SoundKept ==
    ASSUME NEW p \in Parsers, Sound(p),
           at'[p] = at[p], arg'[p] = arg[p], answer'[p] = answer[p], known'[p] = known[p],
           seen[p] \subseteq seen'[p],
           at[p] \in Lookups =>
             /\ Entry(stations', shortcuts', provider', arg[p]) \subseteq seen'[p]
             /\ stations[arg[p]] # None => stations'[arg[p]] # None
             /\ shortcuts[arg[p]] # None => shortcuts'[arg[p]] # None
    PROVE  Sound(p)'
  <1>1. SeesAll(p)'
    BY DEF SeesAll
  <1>2. StillThere(p)'
    BY DEF Sound, StillThere, Lookups
  <1>3. KnownStill(p)'
    BY DEF Sound, KnownStill, KnownAs, Lookups
  <1>4. Justified(p)'
    BY DEF Sound, Justified, KnownAs, NoOutline, Outline
  <1>5. QED
    BY <1>1, <1>2, <1>3, <1>4 DEF Sound

\* Registrations are never taken back, and a call in progress sees them.
LEMMA WriteKeeps ==
    ASSUME TypeInv, NEW s \in Setters, Write(s), NEW p \in Parsers, Sound(p)
    PROVE  Sound(p)'
  <1> TypeOK /\ PlaceInv
    BY DEF TypeInv
  <1>1. arg[s] \in Updates /\ s # p
    BY RegistryAssumption DEF Write, TypeOK, PlaceInv
  <1>2. /\ at'[p] = at[p] /\ arg'[p] = arg[p]
        /\ answer' = answer /\ known' = known
    BY <1>1 DEF Write, TypeOK, PlaceInv, Procs
  <1>3. \A n \in LocNames : /\ stations[n] # None => stations'[n] # None
                            /\ shortcuts[n] # None => shortcuts'[n] # None
    BY <1>1, RegistryAssumption DEF Write, TypeOK, Updated, Updates
  <1>4. seen'[p] = IF at[p] \in Lookups
                     THEN seen[p] \cup Entry(stations', shortcuts', provider', arg[p])
                     ELSE seen[p]
    BY DEF Write
  <1>5. at[p] \in Lookups => arg[p] \in LocNames
    BY DEF PlaceInv, Lookups
  <1>6. /\ seen[p] \subseteq seen'[p]
        /\ at[p] \in Lookups =>
             Entry(stations', shortcuts', provider', arg[p]) \subseteq seen'[p]
    BY <1>4, Zenon
  <1>7. at[p] \in Lookups => /\ stations[arg[p]] # None => stations'[arg[p]] # None
                             /\ shortcuts[arg[p]] # None => shortcuts'[arg[p]] # None
    BY <1>3, <1>5
  <1>8. QED
    BY <1>2, <1>6, <1>7, SoundKept

\* A call that is looked at by nobody else keeps what is known of it.
LEMMA OthersKeep ==
    ASSUME TypeInv, NEW p \in Parsers, Sound(p), UNCHANGED maps,
           at'[p] = at[p], arg'[p] = arg[p], answer'[p] = answer[p],
           known'[p] = known[p], seen'[p] = seen[p]
    PROVE  Sound(p)'
  <1>1. at[p] \in Lookups =>
             /\ Entry(stations', shortcuts', provider', arg[p]) \subseteq seen'[p]
             /\ stations[arg[p]] # None => stations'[arg[p]] # None
             /\ shortcuts[arg[p]] # None => shortcuts'[arg[p]] # None
    BY DEF Sound, SeesAll, maps
  <1>2. QED
    BY <1>1, SoundKept

-----------------------------------------------------------------------------
(* The steps of the call itself. *)

LEMMA BeginSound ==
    ASSUME TypeInv, NEW p \in Parsers, NEW name \in LocNames, NEW prefixed \in BOOLEAN,
           Begin(p, name, prefixed)
    PROVE  Sound(p)'
  <1> TypeOK /\ PlaceInv
    BY DEF TypeInv
  <1>1. /\ at'[p] = IF prefixed THEN "prefixed" ELSE "isStation"
        /\ arg'[p] = name /\ answer'[p] = NoAnswer
        /\ known'[p] = {e \in Registered(name) : prefixed => e[1] = "point"}
        /\ seen'[p] = Entry(stations, shortcuts, provider, name)
        /\ UNCHANGED <<stations, shortcuts, provider>>
    BY DEF Begin, TypeOK, PlaceInv, Procs, maps
  <1>2. SeesAll(p)'
    BY <1>1 DEF SeesAll
  <1>3. /\ KnownAs(p, "point")' # {} => stations[name] # None
        /\ KnownAs(p, "rectangle")' # {} => shortcuts[name] # None
        /\ prefixed => KnownAs(p, "rectangle")' = {}
    BY <1>1, KnownAtFirst DEF KnownAs
  <1>4. StillThere(p)' /\ KnownStill(p)'
    BY <1>1, <1>3 DEF StillThere, KnownStill, Lookups
  <1>5. Justified(p)'
    BY <1>1 DEF Justified
  <1>6. QED
    BY <1>2, <1>4, <1>5 DEF Sound

\* A lookup that goes on leaves everything but the place of the call alone.
LEMMA GoOnKeeps ==
    ASSUME TypeInv, NEW p \in Parsers, Sound(p), at[p] \in Lookups,
           NEW next \in Lookups, GoOn(p, next)
    PROVE  /\ at'[p] = next
           /\ UNCHANGED <<stations, shortcuts, provider, arg, answer, known, seen>>
           /\ SeesAll(p)'
           /\ \A type : KnownAs(p, type)' = KnownAs(p, type)
           /\ answer'[p] = NoAnswer
           /\ at[p] # "answered" /\ at'[p] # "answered"
  <1>1. /\ at'[p] = next
        /\ UNCHANGED <<stations, shortcuts, provider, arg, answer, known, seen>>
    BY DEF GoOn, TypeInv, TypeOK, Procs, maps
  <1>2. SeesAll(p)' /\ answer[p] = NoAnswer
    BY <1>1 DEF Sound, SeesAll, Justified, Lookups
  <1>3. QED
    BY <1>1, <1>2 DEF KnownAs, Lookups

LEMMA AnswerKeeps ==
    ASSUME TypeInv, NEW p \in Parsers, Sound(p), NEW type, NEW value,
           AnswerWith(p, type, value)
    PROVE  /\ at'[p] = "answered"
           /\ answer'[p].type = type /\ answer'[p].value = value
           /\ UNCHANGED <<stations, shortcuts, provider, arg, known, seen>>
           /\ SeesAll(p)' /\ StillThere(p)' /\ KnownStill(p)'
           /\ \A t : KnownAs(p, t)' = KnownAs(p, t)
           /\ NoOutline(p)' = NoOutline(p)
  <1>1. /\ at'[p] = "answered"
        /\ answer'[p] = [type |-> type, value |-> value]
        /\ UNCHANGED <<stations, shortcuts, provider, arg, known, seen>>
    BY DEF AnswerWith, TypeInv, TypeOK, PlaceInv, Procs, maps
  <1>2. SeesAll(p)' /\ StillThere(p)' /\ KnownStill(p)'
    BY <1>1 DEF SeesAll, StillThere, KnownStill, Lookups
  <1>3. QED
    BY <1>1, <1>2 DEF KnownAs, NoOutline

LEMMA LookupSound ==
    ASSUME TypeInv, NEW p \in Parsers, Sound(p), Lookup(p)
    PROVE  Sound(p)'
  <1> TypeOK /\ PlaceInv
    BY DEF TypeInv
  <1>1. at[p] \in Lookups /\ arg[p] \in LocNames
    BY LookupEnds DEF PlaceInv, Lookups
  <1>2. SeesAll(p) /\ StillThere(p) /\ KnownStill(p) /\ Justified(p)
    BY DEF Sound
  <1>3. \A v \in Payloads \cup {None} : v # None => v # Zero /\ OrZero(v) = v
    BY RegistryAssumption DEF OrZero
  <1>4. stations[arg[p]] \in Payloads \cup {None} /\ shortcuts[arg[p]] \in Payloads \cup {None}
    BY <1>1 DEF TypeOK
  <1>5. CASE isPredefinedStation(p)
    <2> DEFINE next == IF stations[arg[p]] # None THEN "station" ELSE "isShortcut"
    <2>1. at[p] = "isStation" /\ GoOn(p, next) /\ next \in Lookups
      BY <1>5 DEF isPredefinedStation, Lookups
    <2>2. stations[arg[p]] = None => <<"point", None>> \in seen[p] /\ KnownAs(p, "point") = {}
      BY <1>1, <1>2, <2>1, EntryHas DEF KnownStill
    <2>3. KnownAs(p, "rectangle") # {} => shortcuts[arg[p]] # None
      BY <1>2, <2>1 DEF KnownStill, Lookups
    <2> HIDE DEF next
    <2>4. StillThere(p)' /\ KnownStill(p)'
      BY <1>1, <2>1, <2>2, <2>3, GoOnKeeps DEF next, StillThere, KnownStill
    <2>5. Justified(p)'
      BY <1>1, <2>1, GoOnKeeps DEF next, Justified
    <2>6. QED
      BY <1>1, <2>1, <2>4, <2>5, GoOnKeeps DEF Sound
  <1>6. CASE getLocationFromStationID(p)
    <2>1. at[p] = "station" /\ AnswerWith(p, "point", OrZero(stations[arg[p]]))
      BY <1>6 DEF getLocationFromStationID
    <2>2. /\ stations[arg[p]] # None
          /\ OrZero(stations[arg[p]]) = stations[arg[p]] /\ stations[arg[p]] # Zero
      BY <1>2, <1>3, <1>4, <2>1 DEF StillThere
    <2>3. <<"point", stations[arg[p]]>> \in seen[p]
      BY <1>1, <1>2, EntryHas
    <2>4. Justified(p)'
      BY <2>1, <2>2, <2>3, AnswerKeeps DEF Justified
    <2>5. QED
      BY <2>1, <2>4, AnswerKeeps DEF Sound
  <1>7. CASE isPredefinedShortcut(p)
    <2>1. at[p] = "isShortcut"
      BY <1>7 DEF isPredefinedShortcut
    <2>2. CASE shortcuts[arg[p]] # None
      <3>1. GoOn(p, "shape") /\ "shape" \in Lookups
        BY <1>7, <2>2 DEF isPredefinedShortcut, Lookups
      <3>2. StillThere(p)' /\ KnownStill(p)' /\ Justified(p)'
        BY <1>1, <1>2, <2>1, <2>2, <3>1, GoOnKeeps DEF StillThere, KnownStill, Justified
      <3>3. QED
        BY <1>1, <3>1, <3>2, GoOnKeeps DEF Sound
    <2>3. CASE shortcuts[arg[p]] = None
      <3>1. AnswerWith(p, "error", None)
        BY <1>7, <2>3 DEF isPredefinedShortcut
      <3>2. KnownAs(p, "point") = {} /\ KnownAs(p, "rectangle") = {}
        BY <1>1, <1>2, <2>1, <2>3 DEF KnownStill
      <3>3. Justified(p)'
        BY <3>1, <3>2, AnswerKeeps DEF Justified
      <3>4. QED
        BY <3>1, <3>3, AnswerKeeps DEF Sound
    <2>4. QED
      BY <2>2, <2>3
  <1>8. CASE tryPolygonFromShortcut(p)
    <2> DEFINE v == ShapeOf(provider, arg[p])
    <2>1. at[p] = "shape"
      BY <1>8 DEF tryPolygonFromShortcut
    <2>2. KnownAs(p, "point") = {} /\ <<"point", None>> \in seen[p]
      BY <1>2, <2>1 DEF KnownStill
    <2>3. <<"polygon", v>> \in seen[p] /\ <<"provider", provider>> \in seen[p]
      BY <1>1, <1>2, EntryHas
    <2>4. CASE v # None
      <3>1. AnswerWith(p, "polygon", v)
        BY <1>8, <2>4 DEF tryPolygonFromShortcut
      <3>2. provider \in Providers /\ v # Zero
        BY <1>1, <2>4, ShapeAssumption DEF ShapeOf, TypeOK
      <3> HIDE DEF v
      <3>3. Outline(p)'
        <4>1. provider \in Providers /\ <<"provider", provider>> \in seen'[p]
          BY <2>3, <3>1, <3>2, AnswerKeeps
        <4>2. answer'[p].value = ShapeOf(provider, arg'[p]) /\ answer'[p].value # None
          BY <2>4, <3>1, AnswerKeeps DEF v
        <4>3. QED
          BY <4>1, <4>2 DEF Outline
      <3>4. Justified(p)'
        BY <2>2, <2>3, <3>1, <3>2, <3>3, AnswerKeeps DEF Justified
      <3>5. QED
        BY <3>1, <3>4, AnswerKeeps DEF Sound
    <2>5. CASE v = None
      <3>1. GoOn(p, "shortcut") /\ "shortcut" \in Lookups
        BY <1>8, <2>5 DEF tryPolygonFromShortcut, Lookups
      <3>2. NoOutline(p)
        BY <2>3, <2>5 DEF NoOutline, TypeOK
      <3>3. StillThere(p)' /\ KnownStill(p)'
        BY <1>1, <1>2, <2>1, <3>1, GoOnKeeps DEF StillThere, KnownStill, Lookups
      <3>4. Justified(p)'
        BY <1>1, <3>1, <3>2, GoOnKeeps DEF Justified, NoOutline
      <3>5. QED
        BY <1>1, <3>1, <3>3, <3>4, GoOnKeeps DEF Sound
    <2>6. QED
      BY <2>4, <2>5
  <1>9. CASE getLocationFromShortcut(p)
    <2>1. at[p] = "shortcut" /\ AnswerWith(p, "rectangle", OrZero(shortcuts[arg[p]]))
      BY <1>9 DEF getLocationFromShortcut
    <2>2. /\ shortcuts[arg[p]] # None
          /\ OrZero(shortcuts[arg[p]]) = shortcuts[arg[p]] /\ shortcuts[arg[p]] # Zero
      BY <1>2, <1>3, <1>4, <2>1 DEF StillThere
    <2>3. <<"rectangle", shortcuts[arg[p]]>> \in seen[p] /\ NoOutline(p)
          /\ KnownAs(p, "point") = {} /\ <<"point", None>> \in seen[p]
      BY <1>1, <1>2, <2>1, EntryHas DEF KnownStill, Justified
    <2>4. Justified(p)'
      BY <2>1, <2>2, <2>3, AnswerKeeps DEF Justified
    <2>5. QED
      BY <2>1, <2>4, AnswerKeeps DEF Sound
  <1>10. CASE parsePrefixedStation(p)
    <2>1. at[p] = "prefixed" /\ KnownAs(p, "rectangle") = {}
      BY <1>2, <1>10 DEF parsePrefixedStation, KnownStill
    <2>2. CASE stations[arg[p]] # None
      <3>1. AnswerWith(p, "point", stations[arg[p]])
        BY <1>10, <2>2 DEF parsePrefixedStation
      <3>2. <<"point", stations[arg[p]]>> \in seen[p] /\ stations[arg[p]] # Zero
        BY <1>1, <1>2, <1>3, <1>4, <2>2, EntryHas
      <3>3. Justified(p)'
        BY <3>1, <3>2, AnswerKeeps DEF Justified
      <3>4. QED
        BY <3>1, <3>3, AnswerKeeps DEF Sound
    <2>3. CASE stations[arg[p]] = None
      <3>1. AnswerWith(p, "error", None)
        BY <1>10, <2>3 DEF parsePrefixedStation
      <3>2. KnownAs(p, "point") = {}
        BY <1>2, <2>1, <2>3 DEF KnownStill
      <3>3. Justified(p)'
        BY <2>1, <3>1, <3>2, AnswerKeeps DEF Justified
      <3>4. QED
        BY <3>1, <3>3, AnswerKeeps DEF Sound
    <2>4. QED
      BY <2>2, <2>3
  <1>11. QED
    BY <1>5, <1>6, <1>7, <1>8, <1>9, <1>10 DEF Lookup

-----------------------------------------------------------------------------
(* The invariant and what it implies. *)

LEMMA AnswerInit == Init => AnswerInv
  BY DEF Init, AnswerInv, Sound, SeesAll, StillThere, KnownStill, Justified, Procs, Lookups

LEMMA AnswerStep == TypeInv /\ AnswerInv /\ [Next]_vars => AnswerInv'
  <1> SUFFICES ASSUME TypeInv, AnswerInv, [Next]_vars, NEW p \in Parsers PROVE Sound(p)'
    BY DEF AnswerInv
  <1> Sound(p)
    BY DEF AnswerInv
  <1> TypeOK /\ PlaceInv
    BY DEF TypeInv
  <1>1. ASSUME NEW q \in Parsers, NEW name \in LocNames, NEW prefixed \in BOOLEAN,
              Begin(q, name, prefixed)
        PROVE  Sound(p)'
    <2>1. CASE q = p
      BY <1>1, <2>1, BeginSound
    <2>2. CASE q # p
      <3>1. /\ at'[p] = at[p] /\ arg'[p] = arg[p] /\ answer'[p] = answer[p]
            /\ known'[p] = known[p] /\ seen'[p] = seen[p] /\ UNCHANGED maps
        BY <1>1, <2>2 DEF Begin, TypeOK, PlaceInv, Procs
      <3>2. QED
        BY <3>1, OthersKeep
    <2>3. QED
      BY <2>1, <2>2
  <1>2. ASSUME NEW q \in Parsers, RLock(q) PROVE Sound(p)'
    BY <1>2, OthersKeep DEF RLock
  <1>3. ASSUME NEW q \in Parsers, Lookup(q) PROVE Sound(p)'
    <2>1. CASE q = p
      BY <1>3, <2>1, LookupSound
    <2>2. CASE q # p
      <3>1. /\ at'[p] = at[p] /\ arg'[p] = arg[p] /\ answer'[p] = answer[p]
            /\ known'[p] = known[p] /\ seen'[p] = seen[p] /\ UNCHANGED maps
        BY <1>3, <2>2, LookupEnds DEF TypeOK, PlaceInv, Procs
      <3>2. QED
        BY <3>1, OthersKeep
    <2>3. QED
      BY <2>1, <2>2
  <1>4. ASSUME NEW q \in Parsers, Take(q) PROVE Sound(p)'
    <2>1. CASE q = p
      <3>1. at'[p] = "idle" /\ answer'[p] = NoAnswer
        BY <1>4, <2>1 DEF Take, TypeOK, PlaceInv, Procs
      <3>2. QED
        BY <3>1 DEF Sound, SeesAll, StillThere, KnownStill, Justified, Lookups
    <2>2. CASE q # p
      <3>1. /\ at'[p] = at[p] /\ arg'[p] = arg[p] /\ answer'[p] = answer[p]
            /\ known'[p] = known[p] /\ seen'[p] = seen[p] /\ UNCHANGED maps
        BY <1>4, <2>2 DEF Take, TypeOK, PlaceInv, Procs
      <3>2. QED
        BY <3>1, OthersKeep
    <2>3. QED
      BY <2>1, <2>2
  <1>5. ASSUME NEW s \in Setters, NEW u \in Updates, Update(s, u) PROVE Sound(p)'
    <2>1. /\ at'[p] = at[p] /\ arg'[p] = arg[p] /\ answer'[p] = answer[p]
          /\ known'[p] = known[p] /\ seen'[p] = seen[p] /\ UNCHANGED maps
      BY <1>5, RegistryAssumption DEF Update, TypeOK, PlaceInv, Procs
    <2>2. QED
      BY <2>1, OthersKeep
  <1>6. ASSUME NEW s \in Setters, Announce(s) \/ WLock(s) PROVE Sound(p)'
    BY <1>6, OthersKeep DEF Announce, WLock
  <1>7. ASSUME NEW s \in Setters, Write(s) PROVE Sound(p)'
    BY <1>7, WriteKeeps
  <1>8. CASE UNCHANGED vars
    BY <1>8, OthersKeep DEF vars
  <1>9. QED
    BY <1>1, <1>2, <1>3, <1>4, <1>5, <1>6, <1>7, <1>8 DEF Next

LEMMA AnswerInvariant == Spec => []AnswerInv
  BY AnswerInit, AnswerStep, TypeInvariant, PTL DEF Spec

\* ParseLocation answers with a payload that was registered under its name during
\* the call, whatever the Register and SetShapeProvider calls do between its
\* separately locked lookups: never with the zero location.
THEOREM AnswersWereRegistered == Spec => []AnswerWasRegistered
  <1>1. TypeInv /\ AnswerInv => AnswerWasRegistered
    BY DEF AnswerInv, Sound, Justified, AnswerWasRegistered, NoAnswer
  <1>2. QED
    BY <1>1, TypeInvariant, AnswerInvariant, PTL

\* Where the lookup maps of the providers are faithful to their data (a fact about
\* the fold over that data, evaluated by TLC), a name that was registered when the
\* call began is resolved, and as the type its precedence says.
THEOREM KnownNamesAreResolved ==
    (\A pr \in Providers : LookupIsFaithful(pr)) => (Spec => []KnownNamesResolve)
  <1> SUFFICES ASSUME \A pr \in Providers : LookupIsFaithful(pr)
               PROVE  Spec => []KnownNamesResolve
    OBVIOUS
  <1>1. ASSUME NEW pr \in Providers, NEW n \in LocNames
        PROVE  /\ ShapeOf(pr, n) = None => CountriesCalled(pr, n) = {}
               /\ ShapeOf(pr, n) # None => ShapeOf(pr, n) \in CountriesCalled(pr, n)
    BY DEF LookupIsFaithful
  <1>2. TypeInv /\ AnswerInv => KnownNamesResolve
    <2> SUFFICES ASSUME TypeInv, AnswerInv PROVE KnownNamesResolve
      OBVIOUS
    <2>1. provider # None => LookupIsFaithful(provider)
      BY DEF TypeInv, TypeOK
    <2>2. ASSUME NEW p \in Parsers, at[p] = "answered"
          PROVE  /\ KnownAs(p, "point") # {} => answer[p].type = "point"
                 /\ answer[p].type = "error" =>
                      {e \in known[p] : e[1] \in {"point", "rectangle"}} = {}
                 /\ answer[p].type = "rectangle" => <<"point", None>> \in seen[p]
      BY <2>2 DEF AnswerInv, Sound, Justified, KnownAs
    <2>3. ASSUME NEW p \in Parsers, at[p] = "answered", answer[p].type = "rectangle"
          PROVE  \/ <<"provider", None>> \in seen[p]
                 \/ \E pr \in Providers : <<"provider", pr>> \in seen[p]
                                          /\ CountriesCalled(pr, arg[p]) = {}
      <3>1. NoOutline(p) /\ arg[p] \in LocNames
        BY <2>3 DEF AnswerInv, Sound, Justified, TypeInv, PlaceInv
      <3>2. QED
        BY <1>1, <3>1 DEF NoOutline
    <2>4. ASSUME NEW p \in Parsers, at[p] = "answered", answer[p].type = "polygon"
          PROVE  \E pr \in Providers : <<"provider", pr>> \in seen[p]
                                       /\ answer[p].value \in CountriesCalled(pr, arg[p])
      <3>1. Outline(p) /\ arg[p] \in LocNames
        BY <2>4 DEF AnswerInv, Sound, Justified, TypeInv, PlaceInv
      <3>2. QED
        BY <1>1, <3>1 DEF Outline
    <2>5. QED
      BY <2>1, <2>2, <2>3, <2>4 DEF KnownNamesResolve, KnownAs
  <1>3. QED
    BY <1>2, TypeInvariant, AnswerInvariant, PTL

-----------------------------------------------------------------------------
(* ExpandLocations and the parse caps.  Division. *)

LEMMA DivMod ==
    ASSUME NEW a \in Int, NEW b \in Nat \ {0}
    PROVE  /\ a \div b \in Int /\ a % b \in 0..(b - 1)
           /\ a = (a \div b) * b + (a % b)
           /\ (a \div b) * b \in Int
  OBVIOUS

LEMMA Scaled ==
    ASSUME NEW j \in Int, NEW k \in Int, NEW b \in Nat \ {0}, j < k
    PROVE  j * b + b <= k * b
  OBVIOUS

\* The quotient is the only integer that fits.
LEMMA Quotient ==
    ASSUME NEW a \in Int, NEW b \in Nat \ {0}, NEW k \in Int,
           k * b <= a, a < k * b + b
    PROVE  a \div b = k
  <1> DEFINE d == a \div b
  <1>1. d \in Int /\ d * b <= a /\ a < d * b + b
    BY DivMod
  <1>2. /\ d < k => d * b + b <= k * b
        /\ k < d => k * b + b <= d * b
    BY <1>1, Scaled
  <1>3. d * b \in Int /\ k * b \in Int
    BY <1>1
  <1> HIDE DEF d
  <1>4. QED
    BY <1>1, <1>2, <1>3 DEF d

LEMMA NatQuotient ==
    ASSUME NEW a \in Nat, NEW b \in Nat \ {0}
    PROVE  a \div b \in Nat
  OBVIOUS

\* A span that is not a whole number of steps takes one more.
LEMMA CeilDivIs ==
    ASSUME NEW a \in Nat, NEW b \in Nat \ {0}
    PROVE  /\ CeilDiv(a, b) = IF a % b = 0 THEN a \div b ELSE a \div b + 1
           /\ CeilDiv(a, b) \in Nat /\ a \div b <= CeilDiv(a, b)
  <1> DEFINE d == a \div b
             r == a % b
  <1>1. d \in Nat /\ r \in 0..(b - 1) /\ a = d * b + r /\ d * b \in Int
    <2>1. d \in Nat
      BY NatQuotient
    <2>2. QED
      BY <2>1, DivMod
  <1>2. (d + 1) * b = d * b + b
    BY <1>1
  <1> HIDE DEF d, r
  <1>3. r = 0 => (a + b - 1) \div b = d
    BY <1>1, Quotient
  <1>4. r # 0 => (a + b - 1) \div b = d + 1
    BY <1>1, <1>2, Quotient
  <1>5. CeilDiv(a, b) = (a + b - 1) \div b
    BY DEF CeilDiv
  <1>6. CeilDiv(a, b) = IF r = 0 THEN d ELSE d + 1
    BY <1>3, <1>4, <1>5
  <1>7. CeilDiv(a, b) \in Nat /\ d <= CeilDiv(a, b)
    BY <1>1, <1>6
  <1>8. QED
    BY <1>6, <1>7 DEF d, r

\* A product of two positive numbers is no less than either.
LEMMA Factors ==
    ASSUME NEW a \in Nat \ {0}, NEW b \in Nat \ {0}
    PROVE  a * b \in Nat /\ a <= a * b /\ b <= a * b
  <1>1. a - 1 \in Nat /\ b - 1 \in Nat
    OBVIOUS
  <1>2. (a - 1) * b \in Nat /\ a * (b - 1) \in Nat
    BY <1>1
  <1>3. a * b = (a - 1) * b + b /\ a * b = a * (b - 1) + a
    OBVIOUS
  <1>4. QED
    BY <1>2, <1>3

LEMMA Products ==
    ASSUME NEW m \in Nat, NEW a \in 1..m, NEW b \in 1..m
    PROVE  a * b \in 1..m * m
  <1>1. a \in Nat \ {0} /\ b \in Nat \ {0} /\ m - a \in Nat /\ m - b \in Nat
    OBVIOUS
  <1>2. a * b \in Nat /\ a <= a * b
    BY <1>1, Factors
  <1>3. (m - a) * m \in Nat /\ a * (m - b) \in Nat
    BY <1>1
  <1>4. m * m = a * b + a * (m - b) + (m - a) * m
    BY <1>1
  <1>5. QED
    BY <1>1, <1>2, <1>3, <1>4

-----------------------------------------------------------------------------
(* Floats.  Whatever is rounded away, a float is a number of grains. *)

LEMMA LeastNat ==
    ASSUME NEW S \in SUBSET Nat, S # {}
    PROVE  \E x \in S : \A y \in S : x <= y
  <1> DEFINE R == {ss \in Nat \X Nat : ss[1] < ss[2]}
  <1>1. IsWellFoundedOn(R, Nat)
    BY NatLessThanWellFounded DEF OpToRel
  <1> HIDE DEF R
  <1>2. PICK x \in S : \A y \in S : ~(<<y, x>> \in R)
    BY <1>1, WFMin
  <1>3. ASSUME NEW y \in S PROVE x <= y
    <2>1. x \in Nat /\ y \in Nat /\ ~(y < x)
      BY <1>2 DEF R
    <2>2. QED
      BY <2>1
  <1>4. QED
    BY <1>3

LEMMA SpacingType ==
    ASSUME NEW a, NEW b, Fitting(a, b) # {}
    PROVE  Spacing(a, b) \in Nat \ {0}
  <1> DEFINE S == Fitting(a, b)
  <1>1. /\ S \subseteq Quanta /\ Quanta \subseteq Nat \ {0}
        /\ \A q \in Quanta : q # 1 => q % 2 = 0
    BY FloatAssumption DEF Fitting
  <1>2. PICK x \in S : \A y \in S : x <= y
    <2>1. S \in SUBSET Nat /\ S # {}
      BY <1>1
    <2> HIDE DEF S
    <2>2. QED
      BY <2>1, LeastNat
  <1>3. x = 1 \/ x \div 2 \notin S
    <2>1. CASE x # 1
      <3>1. x \in Nat \ {0} /\ x % 2 = 0
        BY <1>1, <2>1
      <3>2. x \div 2 < x /\ x \div 2 \in Int
        BY <3>1
      <3>3. QED
        BY <1>1, <1>2, <3>1, <3>2
    <2>2. QED
      BY <2>1
  <1>4. Spacing(a, b) \in S
    BY <1>2, <1>3 DEF Spacing
  <1>5. QED
    BY <1>1, <1>4

LEMMA NearestType ==
    ASSUME NEW a \in Nat, NEW b \in Nat \ {0}
    PROVE  Nearest(a, b) \in Nat
  <1>1. CASE Fitting(a, b) = {}
    BY <1>1, NatQuotient DEF Nearest
  <1>2. CASE Fitting(a, b) # {}
    <2> DEFINE q == Spacing(a, b)
    <2>1. q \in Nat \ {0}
      BY <1>2, SpacingType
    <2>2. Nearest(a, b) = RoundEven(a, b * q) * q
      BY <1>2 DEF Nearest, Rounded
    <2> HIDE DEF q
    <2>3. b * q \in Nat \ {0}
      BY <2>1, Factors
    <2>4. a \div (b * q) \in Nat
      BY <2>3, NatQuotient
    <2>5. RoundEven(a, b * q) \in Nat
      BY <2>4 DEF RoundEven
    <2>6. QED
      BY <2>1, <2>2, <2>5
  <1>3. QED
    BY <1>1, <1>2

LEMMA FlType ==
    ASSUME NEW a \in Int, NEW b \in Nat \ {0}
    PROVE  Fl(a, b) \in Int /\ (a >= 0 => Fl(a, b) \in Nat)
  <1>1. CASE a >= 0
    BY <1>1, NearestType DEF Fl
  <1>2. CASE a < 0
    <2>1. -a \in Nat
      BY <1>2
    <2>2. Nearest(-a, b) \in Nat
      BY <2>1, NearestType
    <2>3. QED
      BY <1>2, <2>2 DEF Fl
  <1>3. QED
    BY <1>1, <1>2

-----------------------------------------------------------------------------
(* The grid of a bbox. *)

LEMMA GridDims ==
    ASSUME Degree \in Nat \ {0}, NEW a \in Int, NEW b \in Nat \ {0}
    PROVE  /\ RoundDiv(a, b) \in Int
           /\ 2 * a < b => RoundDiv(a, b) <= 0
  <1> DEFINE q == RoundDiv(a, b)
             m == 2 * b
  <1>1. m \in Nat \ {0} /\ 2 * a + b \in Int
    OBVIOUS
  <1>2. q = (2 * a + b) \div m
    BY DEF RoundDiv
  <1> HIDE DEF q, m
  <1>3. q \in Int /\ q * m <= 2 * a + b
    BY <1>1, <1>2, DivMod
  <1>4. 0 < q => 0 * m + m <= q * m
    BY <1>1, <1>3, Scaled
  <1>5. q * m \in Int
    BY <1>1, <1>3
  <1>6. 2 * a < b /\ 0 < q => FALSE
    BY <1>1, <1>3, <1>4, <1>5 DEF m
  <1>7. QED
    BY <1>3, <1>6 DEF q

\* The grid has at least one point, and once the divisor is at its bound just one.
LEMMA GridSizes ==
    ASSUME NEW b \in [lat : Spans, lon : Spans, density : Densities],
           NEW divisor \in Nat \ {0}
    PROVE  /\ GridSize(b, divisor) \in Nat \ {0}
           /\ divisor >= MaxDivisor => GridSize(b, divisor) = 1
  <1> DEFINE ppd == MinOf(b.density, MaxPointsPerDegree)
             whole == Degree * divisor
  <1>1. /\ Degree \in Nat \ {0} /\ MaxDivisor \in Nat \ {0} /\ b.density \in Densities
        /\ b.lat \in Spans /\ b.lon \in Spans /\ Spans \subseteq Int /\ ppd \in Int
        /\ \A span \in Spans : 2 * span * ppd < Degree * MaxDivisor
    <2>1. b.lat \in Spans /\ b.lon \in Spans /\ b.density \in Densities
      OBVIOUS
    <2>2. /\ Degree \in Nat \ {0} /\ MaxDivisor \in Nat \ {0} /\ MaxPointsPerDegree \in Int
          /\ Spans \subseteq Int /\ Densities \subseteq Int
      BY CapAssumption, UnitAssumption, InputAssumption,
             HalvingAssumption
    <2>3. ppd \in Int
      <3>1. ppd = b.density \/ ppd = MaxPointsPerDegree
        BY DEF MinOf
      <3>2. b.density \in Int
        BY <2>1, <2>2
      <3> HIDE DEF ppd
      <3>3. QED
        BY <2>2, <3>1, <3>2
    <2>4. \A span \in Spans : 2 * span * ppd < Degree * MaxDivisor
      BY <2>1, HalvingAssumption
    <2>5. QED
      BY <2>1, <2>2, <2>3, <2>4
  <1>2. whole \in Nat \ {0}
    BY <1>1
  <1>3. divisor >= MaxDivisor => Degree * MaxDivisor <= whole
    <2>1. divisor > MaxDivisor => MaxDivisor * Degree + Degree <= divisor * Degree
      BY <1>1, Scaled
    <2>2. Degree * MaxDivisor \in Int /\ Degree * divisor \in Int
      BY <1>1
    <2>3. QED
      BY <1>1, <2>1, <2>2
  <1> HIDE DEF ppd, whole
  <1>4. ASSUME NEW span \in Spans
        PROVE  /\ GridDim(span, ppd, divisor) \in Nat \ {0}
               /\ divisor >= MaxDivisor => GridDim(span, ppd, divisor) = 1
    <2>1. span * ppd \in Int /\ 2 * (span * ppd) = 2 * span * ppd
      BY <1>1
    <2>2. RoundDiv(span * ppd, whole) \in Int
      BY <1>1, <1>2, <2>1, GridDims
    <2>3. divisor >= MaxDivisor => 2 * (span * ppd) < whole
      BY <1>1, <1>2, <1>3, <2>1
    <2>4. divisor >= MaxDivisor => RoundDiv(span * ppd, whole) <= 0
      BY <1>1, <1>2, <2>1, <2>3, GridDims
    <2>5. GridDim(span, ppd, divisor) = MaxOf(RoundDiv(span * ppd, whole) + 1, 1)
      BY DEF GridDim, whole
    <2>6. QED
      BY <2>2, <2>4, <2>5 DEF MaxOf
  <1>5. GridSize(b, divisor) = GridDim(b.lat, ppd, divisor) * GridDim(b.lon, ppd, divisor)
    BY DEF GridSize, ppd
  <1> DEFINE rows == GridDim(b.lat, ppd, divisor)
             cols == GridDim(b.lon, ppd, divisor)
  <1>6. /\ rows \in Nat \ {0} /\ cols \in Nat \ {0}
        /\ divisor >= MaxDivisor => rows = 1 /\ cols = 1
    BY <1>1, <1>4
  <1> HIDE DEF rows, cols
  <1>7. rows * cols \in Nat \ {0}
    BY <1>6, Factors
  <1>8. GridSize(b, divisor) = rows * cols
    BY <1>5 DEF rows, cols
  <1>9. QED
    BY <1>1, <1>6, <1>7, <1>8

-----------------------------------------------------------------------------
(* The vertices of a polygon. *)

LEMMA ThinnedVertices ==
    ASSUME maxGridPoints \in Nat, maxGridPoints >= 4, NEW total \in Nat \ {0}
    PROVE  thinVertices(total) \in 1..maxGridPoints
  <1> DEFINE s == stride(total)
  <1>1. ASSUME NEW b \in Nat \ {0} PROVE CeilDiv(total, b) \in Nat \ {0}
    <2> DEFINE d == total \div b
    <2>1. total = b * d + (total % b) /\ d \in Nat
      BY DivMod, NatQuotient
    <2>2. CeilDiv(total, b) = IF total % b = 0 THEN d ELSE d + 1
      BY CeilDivIs
    <2>3. total % b = 0 => d # 0
      BY <2>1
    <2> HIDE DEF d
    <2>4. QED
      BY <2>1, <2>2, <2>3
  <1>2. s \in Nat \ {0}
    BY <1>1 DEF stride
  <1>3. CeilDiv(total, s) \in Nat \ {0}
    BY <1>1, <1>2
  <1>4. QED
    BY <1>3 DEF thinVertices, MinOf

-----------------------------------------------------------------------------
(* The rings of a radius. *)

\* k rings have 3 k (k + 1) / 2 points: another one adds 3 + 3 k.
LEMMA Triangular ==
    ASSUME NEW k \in Nat, NEW j \in Nat
    PROVE  /\ 3 * k * (k + 1) \in Nat
           /\ 3 * (k + 1) * (k + 2) = 3 * k * (k + 1) + 2 * (3 + 3 * k)
           /\ 3 * k * (k + 1) <= 3 * (k + j) * (k + j + 1)
           /\ j > 0 => 3 * k * (k + 1) < 3 * (k + j) * (k + j + 1)
  <1>1. k * (k + 1) \in Nat /\ j * (2 * k + j + 1) \in Nat
    OBVIOUS
  <1>2. (k + j) * (k + j + 1) = k * (k + 1) + j * (2 * k + j + 1)
    OBVIOUS
  <1>3. j > 0 => j * (2 * k + j + 1) > 0
    OBVIOUS
  <1>4. (k + 1) * (k + 2) = k * (k + 1) + 2 * (k + 1)
    OBVIOUS
  <1>5. /\ 3 * k * (k + 1) = 3 * (k * (k + 1))
        /\ 3 * (k + 1) * (k + 2) = 3 * ((k + 1) * (k + 2))
        /\ 3 * (k + j) * (k + j + 1) = 3 * ((k + j) * (k + j + 1))
    OBVIOUS
  <1>6. QED
    BY <1>1, <1>2, <1>3, <1>4, <1>5

\* The ceiling on the points leaves room for every ring a radius may ask for.
LEMMA RingsFit ==
    ASSUME NEW k \in Nat, 3 * k <= MaxRadiusKm + 3
    PROVE  /\ 3 * k * (k + 1) <= 2 * MaxExpandedRadiusPoints
           /\ 3 * k <= MaxRadiusKm => 3 * k * (k + 1) < 2 * MaxExpandedRadiusPoints
  <1> DEFINE rings == MaxRadiusKm \div 3 + 1
             j == rings - k
  <1>1. /\ MaxRadiusKm \in Nat /\ MaxExpandedRadiusPoints \in Nat
        /\ 3 * rings * (rings + 1) <= 2 * MaxExpandedRadiusPoints
    BY CapAssumption
  <1>2. /\ rings \in Nat /\ j \in Nat
        /\ 3 * k <= MaxRadiusKm => j > 0
    BY <1>1
  <1>3. k + j = rings
    BY <1>2
  <1> HIDE DEF rings, j
  <1>4. /\ 3 * k * (k + 1) <= 3 * rings * (rings + 1)
        /\ j > 0 => 3 * k * (k + 1) < 3 * rings * (rings + 1)
        /\ 3 * k * (k + 1) \in Nat /\ 3 * rings * (rings + 1) \in Nat
    BY <1>2, <1>3, Triangular
  <1>5. QED
    BY <1>1, <1>2, <1>4

LEMMA MaxKmIs ==
    ASSUME payload \in Int, payload >= 2 * radiusRingStepKm
    PROVE  maxKm \in Nat /\ maxKm <= MaxRadiusKm /\ radiusRingStepKm = 3
  <1>1. radiusRingStepKm = 3 /\ MaxRadiusKm \in Nat
    BY CapAssumption
  <1>2. QED
    BY <1>1 DEF maxKm, MinOf

-----------------------------------------------------------------------------
(* The inductive invariant. *)

LEMMA Hypotheses ==
    /\ MaxRadiusKm \in Nat /\ MaxExpandedRadiusPoints \in Nat
    /\ MaxExpandedRadiusPoints >= 3 /\ radiusRingStepKm = 3
    /\ MaxPolylinePoints \in Nat \ {0} /\ MaxPolygonVertices \in Nat
    /\ MaxPointsPerDegree \in Nat /\ MaxBboxGridPoints \in Nat \ {0}
    /\ maxGridPoints \in Nat /\ maxGridPoints >= 4 /\ MaxPasses \in Nat
    /\ MaxDivisor \in Nat \ {0}
    /\ Radii \subseteq Int /\ Spans \subseteq Int /\ Densities \subseteq Int
    /\ SegmentCounts \subseteq Nat /\ VertexCounts \subseteq Nat
    /\ InsideCounts \subseteq Nat
  <1>1. MaxRadiusKm \in Nat => 3 * 1 * (1 + 1) <= 2 * MaxExpandedRadiusPoints
    BY RingsFit
  <1>2. QED
    BY <1>1, CapAssumption, UnitAssumption, InputAssumption, HalvingAssumption

\* The two coordinates on an axis and their span are numbers of grains.
LEMMA OrderedType ==
    ASSUME NEW axis \in LatAxes \cup LonAxes
    PROVE  Ordered(axis) \in Int \X Int \X Int
  <1>1. axis[1] \in Int /\ axis[2] \in Int
    BY InputAssumption
  <1>2. Lower(axis) \in Int /\ Upper(axis) \in Int
    BY <1>1 DEF Lower, Upper, MinOf, MaxOf
  <1>3. Fl(Upper(axis) - Lower(axis), 1) \in Int
    BY <1>2, FlType
  <1>4. QED
    BY <1>2, <1>3 DEF Ordered

LEMMA ExpansionInvInit == ExpansionInit => ExpansionInv
  <1> SUFFICES ASSUME ExpansionInit PROVE ExpansionInv
    OBVIOUS
  <1>1. pc = "idle" /\ kind = "none" /\ trusted = FALSE
    BY DEF ExpansionInit
  <1>2. points = 0 /\ counter = 0 /\ peak = 0
    BY DEF ExpansionInit
  <1>3. points \in Nat /\ counter \in Nat /\ peak \in Nat /\ points <= peak
    BY <1>2
  <1>4. ExpansionTypeOK
    BY <1>1, <1>3, Zenon DEF ExpansionTypeOK, Kinds
  <1>5. QED
    BY <1>1, <1>2, <1>4 DEF ExpansionInv, PhaseInv

\* A new location, before anything is laid out.
LEMMA GivenStep ==
    ASSUME ExpansionInv, NewLocation
    PROVE  ExpansionInv'
  <1> USE Hypotheses DEF ExpansionInv, ExpansionTypeOK, PhaseInv, Kinds, Given
  <1>1. ASSUME NEW r \in Radii, ParseRadius(r) \/ ManualRadius(r)
        PROVE  ExpansionInv'
    <2>1. CASE ParseRadius(r)
      <3>1. /\ kind' = "radius" /\ payload' = r /\ r \in Int /\ trusted' = TRUE
            /\ points' = points /\ counter' = counter /\ peak' = peak
            /\ pc' \in {"expand", "refused"} /\ pc = "idle"
            /\ pc' = "expand" => r \in 1..2 * MaxRadiusKm
        BY ONLY <2>1, r \in Radii, Hypotheses DEF ParseRadius, validateRadius, Given
      <3>2. ExpansionTypeOK' /\ PhaseInv' /\ RadiusInv'
        BY <3>1 DEF RadiusInv
      <3>3. kind' = "radius" /\ pc' # "panicked"
        BY <3>1
      <3>4. QED
        BY ONLY <3>2, <3>3 DEF ExpansionInv
    <2>2. CASE ManualRadius(r)
      <3>1. ExpansionTypeOK' /\ PhaseInv'
        BY <2>2 DEF ManualRadius
      <3>2. kind' = "radius" /\ pc' # "panicked" /\ RadiusInv'
        BY <2>2 DEF ManualRadius, RadiusInv
      <3>3. QED
        BY ONLY <3>1, <3>2 DEF ExpansionInv
    <2>3. QED
      BY <1>1, <2>1, <2>2
  <1>2. CASE StartPolyline
    BY <1>2 DEF StartPolyline, PolylineInv
  <1>3. ASSUME NEW m \in SegmentCounts, NEW t \in BOOLEAN, GivenPoints(m, t)
        PROVE  ExpansionInv'
    BY <1>3 DEF GivenPoints, Hold, MaxOf, PointsInv
  <1>4. ASSUME NEW lat \in LatAxes, NEW lon \in LonAxes, NEW t \in BOOLEAN,
               GivenRectangle(lat, lon, t)
        PROVE  ExpansionInv'
    <2>1. /\ pc = "idle" /\ kind' = "rectangle" /\ trusted' = t
          /\ pc' \in {"expand", "refused"}
          /\ payload' = <<Ordered(lat), Ordered(lon)>>
          /\ UNCHANGED <<points, counter, peak>>
      BY <1>4 DEF GivenRectangle
    <2>2. payload' \in (Int \X Int \X Int) \X (Int \X Int \X Int)
      BY <2>1, OrderedType
    <2>3. ExpansionTypeOK' /\ PhaseInv' /\ RectangleInv'
      BY <2>1, <2>2 DEF RectangleInv
    <2>4. QED
      BY <2>1, <2>3
  <1>5. ASSUME NEW lat \in Spans, NEW lon \in Spans, NEW t \in BOOLEAN,
               NEW d \in Densities, GivenBbox(lat, lon, d, t)
        PROVE  ExpansionInv'
    BY <1>5 DEF GivenBbox, BboxInv
  <1>6. ASSUME NEW v \in VertexCounts, NEW o \in Outlines, NEW t \in BOOLEAN,
               GivenPolygon(v, o, t)
        PROVE  ExpansionInv'
    <2>1. o \in [lat : Nat, lon : Nat, spacing : Nat \cup {NaN, Inf}]
      BY InputAssumption
    <2>2. QED
      BY <1>6, <2>1 DEF GivenPolygon, PolygonInv
  <1>7. CASE GivenOverflow
    BY <1>7 DEF GivenOverflow
  <1>8. ASSUME NEW k \in {"radius", "rectangle", "bbox", "polygon"}, GivenNotFinite(k)
        PROVE  ExpansionInv'
    BY <1>8 DEF GivenNotFinite
  <1>9. QED
    BY <1>1, <1>2, <1>3, <1>4, <1>5, <1>6, <1>7, <1>8 DEF NewLocation

LEMMA RadiusStep ==
    ASSUME ExpansionInv, ExpandRadius \/ Ring \/ RingsDone
    PROVE  ExpansionInv'
  <1> SUFFICES /\ ExpansionTypeOK' /\ pc' \in {"loop", "done"} /\ kind' = "radius"
               /\ RadiusInv'
    BY DEF ExpansionInv, PhaseInv
  <1> USE Hypotheses DEF Become, Hold, MaxOf
  <1>1. CASE ExpandRadius
    <2>1. ExpansionTypeOK' /\ pc' \in {"loop", "done"} /\ kind' = "radius"
      BY <1>1 DEF ExpandRadius, ExpansionInv, ExpansionTypeOK
    <2>2. payload' = payload /\ payload \in Int
      BY <1>1 DEF ExpandRadius, ExpansionInv, RadiusInv
    <2>3. CASE payload < 2 * radiusRingStepKm
      BY <1>1, <2>1, <2>2, <2>3 DEF ExpandRadius, RadiusInv
    <2>4. CASE payload >= 2 * radiusRingStepKm
      <3>1. maxKm' = maxKm /\ maxKm \in Nat
        BY <2>2, <2>4, MaxKmIs DEF maxKm
      <3>2. RingInv(0)' /\ pc' = "loop" /\ counter' = 0
        BY <1>1, <2>2, <2>4, <3>1 DEF ExpandRadius, RingInv
      <3>3. QED
        BY <2>1, <2>2, <2>4, <3>2 DEF RadiusInv
    <2>5. QED
      BY <2>2, <2>3, <2>4
  <1>2. CASE Ring
    <2>1. /\ ExpansionTypeOK' /\ pc' \in {"loop", "done"} /\ kind' = "radius"
          /\ payload' = payload /\ payload \in Int /\ payload >= 2 * radiusRingStepKm
      BY <1>2 DEF Ring, ExpansionInv, ExpansionTypeOK, RadiusInv
    <2>2. PICK k \in 0..counter : RingInv(k)
      BY <1>2 DEF Ring, ExpansionInv, RadiusInv
    <2>3. maxKm' = maxKm /\ maxKm \in Nat
      BY <2>1, MaxKmIs DEF maxKm
    <2>4. counter \in Nat /\ points \in Nat /\ k \in Nat
      BY DEF ExpansionInv, ExpansionTypeOK
    <2>5. RingInv(k + 1)' /\ pc' = "loop" /\ k + 1 \in 0..counter'
      BY <1>2, <2>2, <2>3, <2>4, Triangular DEF Ring, RingInv, MoreRings
    <2>6. QED
      BY <2>1, <2>5 DEF RadiusInv
  <1>3. CASE RingsDone
    <2>1. /\ ExpansionTypeOK' /\ pc' \in {"loop", "done"} /\ kind' = "radius"
          /\ payload' = payload /\ payload \in Int /\ payload >= 2 * radiusRingStepKm
      BY <1>3 DEF RingsDone, ExpansionInv, ExpansionTypeOK, RadiusInv
    <2>2. PICK k \in 0..counter : RingInv(k)
      BY <1>3 DEF RingsDone, ExpansionInv, RadiusInv
    <2>3. maxKm' = maxKm /\ maxKm \in Nat /\ maxKm <= MaxRadiusKm
      BY <2>1, MaxKmIs DEF maxKm
    <2>4. counter \in Nat /\ points \in Nat /\ k \in Nat
      BY DEF ExpansionInv, ExpansionTypeOK
    <2>5. counter <= maxKm => points < MaxExpandedRadiusPoints
      BY <2>2, <2>3, <2>4, RingsFit, Triangular DEF RingInv
    <2>6. counter > maxKm
      BY <1>3, <2>3, <2>4, <2>5 DEF RingsDone, MoreRings
    <2>7. RingInv(k)' /\ pc' = "done" /\ counter' = counter
      BY <1>3, <2>2, <2>3, <2>4 DEF RingsDone, RingInv
    <2>8. QED
      BY <2>1, <2>2, <2>3, <2>6, <2>7 DEF RadiusInv
  <1>4. QED
    BY <1>1, <1>2, <1>3

\* The parser of a polyline.
LEMMA PolylineStep ==
    ASSUME ExpansionInv,
           \/ PointSegment \/ LastSegment
           \/ \E count \in SegmentCounts : GeneratedSegment(count)
    PROVE  ExpansionInv'
  <1> SUFFICES /\ ExpansionTypeOK' /\ pc' \in {"parse", "done", "refused"}
               /\ kind' = "polyline" /\ PolylineInv'
    BY DEF ExpansionInv, PhaseInv
  <1> USE Hypotheses DEF Become, Hold, MaxOf, AfterSegment
  <1>1. pc = "parse" /\ kind = "polyline" /\ PolylineInv /\ ExpansionTypeOK
    BY DEF ExpansionInv, PhaseInv, PointSegment, LastSegment, GeneratedSegment
  <1>2. CASE PointSegment
    BY <1>1, <1>2 DEF PointSegment, PolylineInv, ExpansionTypeOK
  <1>3. CASE LastSegment
    BY <1>1, <1>3 DEF LastSegment, PolylineInv, ExpansionTypeOK
  <1>4. ASSUME NEW count \in SegmentCounts, GeneratedSegment(count)
        PROVE  /\ ExpansionTypeOK' /\ pc' \in {"parse", "done", "refused"}
               /\ kind' = "polyline" /\ PolylineInv'
    BY <1>1, <1>4 DEF GeneratedSegment, PolylineInv, ExpansionTypeOK
  <1>5. QED
    BY <1>2, <1>3, <1>4

\* Where the walk along an axis begins.
LEMMA WalkBegins ==
    ASSUME payload \in (Int \X Int \X Int) \X (Int \X Int \X Int), counter \in Nat,
           NEW d \in {1, 2}, NEW lats \in Seq(Int), WalkAlong(d, lats)
    PROVE  /\ grid' \in [axis : {1, 2}, v : Int, epsilon : Int,
                         lats : Seq(Int), vals : Seq(Int)]
           /\ grid'.axis = d /\ grid'.lats = lats /\ Len(grid'.vals) = 0
  <1>1. epsilon(counter) \in Int
    BY UnitAssumption, FlType DEF epsilon
  <1>2. QED
    BY <1>1 DEF WalkAlong

\* At most one value more than the walk has appended, and at least the upper edge.
LEMMA Snapped ==
    ASSUME grid.vals \in Seq(Int), Len(grid.vals) <= maxGridPoints + 2, upper \in Int
    PROVE  snappedValues \in Seq(Int) /\ Len(snappedValues) \in 1..AxisLimit
  <1> DEFINE vals == grid.vals
             n == Len(vals)
  <1>1. n \in Nat /\ maxGridPoints \in Nat /\ vals \in Seq(Int) /\ n <= maxGridPoints + 2
    BY Hypotheses
  <1>2. CASE n = 0
    BY <1>1, <1>2, Hypotheses DEF snappedValues, AxisLimit
  <1>3. CASE n # 0
    <2>1. snappedValues = Append(vals, upper) \/ snappedValues = [vals EXCEPT ![n] = upper]
      BY <1>3 DEF snappedValues
    <2> HIDE DEF vals
    <2>2. Append(vals, upper) \in Seq(Int) /\ Len(Append(vals, upper)) = n + 1
      BY ONLY <1>1, upper \in Int
    <2>3. [vals EXCEPT ![n] = upper] \in Seq(Int) /\ Len([vals EXCEPT ![n] = upper]) = n
      <3>1. vals \in [1..n -> Int]
        BY ONLY <1>1
      <3>2. [vals EXCEPT ![n] = upper] \in [1..n -> Int]
        BY ONLY <3>1, upper \in Int
      <3>3. QED
        BY ONLY <1>1, <3>2
    <2>4. snappedValues \in Seq(Int) /\ Len(snappedValues) \in {n, n + 1}
      <3> HIDE DEF n
      <3>1. CASE snappedValues = Append(vals, upper)
        BY ONLY <2>2, <3>1
      <3>2. CASE snappedValues = [vals EXCEPT ![n] = upper]
        BY ONLY <2>3, <3>2
      <3>3. QED
        BY <2>1, <3>1, <3>2
    <2> HIDE DEF n
    <2>5. QED
      BY ONLY <1>1, <1>3, <2>4 DEF AxisLimit
  <1>4. QED
    BY <1>2, <1>3

LEMMA RectangleStep ==
    ASSUME ExpansionInv,
           ExpandRectangle \/ DoubleStep \/ generateGrid
             \/ Step \/ StepsDone \/ SnapLats \/ SnapLons
    PROVE  ExpansionInv'
  <1> DEFINE Grids == [axis : {1, 2}, v : Int, epsilon : Int,
                       lats : Seq(Int), vals : Seq(Int)]
             Corners == (Int \X Int \X Int) \X (Int \X Int \X Int)
  <1> SUFFICES /\ ExpansionTypeOK' /\ pc' \in {"loop", "walk", "snap", "done"}
               /\ kind' = "rectangle" /\ RectangleInv'
    BY DEF ExpansionInv, PhaseInv
  <1> USE Hypotheses
  <1>1. /\ kind = "rectangle" /\ RectangleInv /\ ExpansionTypeOK
        /\ payload \in Corners /\ counter \in Nat
    <2>1. kind = "rectangle"
      BY DEF ExpansionInv, PhaseInv, ExpandRectangle, DoubleStep, generateGrid, Step,
             StepsDone, SnapLats, SnapLons
    <2>2. RectangleInv /\ ExpansionTypeOK
      BY <2>1 DEF ExpansionInv
    <2>3. QED
      BY <2>1, <2>2 DEF RectangleInv, ExpansionTypeOK
  <1> HIDE DEF Corners
  \* What is left to show of a step that lays out m points.
  <1>2. ASSUME NEW m \in Nat, NEW to \in {"loop", "walk", "snap", "done"},
               Become(m, to), counter' \in Nat
        PROVE  /\ ExpansionTypeOK' /\ pc' = to /\ kind' = "rectangle" /\ points' = m
               /\ payload' = payload
    BY <1>1, <1>2 DEF Become, Hold, MaxOf, ExpansionTypeOK, Kinds
  <1>3. CASE ExpandRectangle
    <2> DEFINE d == MinOf(payload[1][3], payload[2][3])
    <2>1. chooseGridStep(d) \in Nat
      <3>1. Fl(Grains, 10) \in Nat /\ Grains \in Nat /\ Grains % 4 = 0
        BY UnitAssumption, FlType
      <3> HIDE DEF d
      <3>2. QED
        BY <3>1 DEF chooseGridStep
    <2> HIDE DEF d
    <2>2. \/ Become(1, "done") /\ counter' = 0
          \/ Become(0, "loop") /\ counter' = chooseGridStep(d)
      BY <1>3 DEF ExpandRectangle, d
    <2>3. 1 \in 1..AxisLimit * AxisLimit
      <3>1. AxisLimit \in Nat \ {0}
        BY DEF AxisLimit
      <3>2. QED
        BY <3>1, Factors
    <2>4. \/ ExpansionTypeOK' /\ pc' = "done" /\ kind' = "rectangle" /\ points' = 1
               /\ payload' = payload
          \/ ExpansionTypeOK' /\ pc' = "loop" /\ kind' = "rectangle" /\ payload' = payload
      <3>1. CASE Become(1, "done") /\ counter' = 0
        BY <1>2, <3>1
      <3>2. CASE Become(0, "loop") /\ counter' = chooseGridStep(d)
        BY <1>2, <2>1, <3>2
      <3>3. QED
        BY <2>2, <3>1, <3>2
    <2>5. QED
      BY <1>1, <2>3, <2>4 DEF RectangleInv, Corners
  <1>4. CASE DoubleStep
    <2>1. Become(0, "loop") /\ counter' \in Nat
      BY <1>1, <1>4 DEF DoubleStep
    <2>2. QED
      BY <1>1, <1>2, <2>1 DEF RectangleInv, Corners
  <1>5. CASE generateGrid
    <2>1. Become(0, "walk") /\ counter' \in Nat /\ WalkAlong(1, <<>>)
      BY <1>1, <1>5 DEF generateGrid
    <2>2. grid' \in Grids /\ grid'.axis = 1 /\ Len(grid'.vals) = 0
      <3>1. <<>> \in Seq(Int)
        OBVIOUS
      <3>2. QED
        BY <1>1, <2>1, <3>1, WalkBegins DEF Corners
    <2>3. QED
      BY <1>1, <1>2, <2>1, <2>2 DEF RectangleInv, Corners
  <1>6. pc \in {"walk", "snap"} =>
          /\ grid \in Grids /\ Len(grid.vals) <= maxGridPoints + 2 /\ upper \in Int
          /\ grid.axis = 2 => Len(grid.lats) \in 1..AxisLimit
    BY <1>1 DEF RectangleInv, upper, Corners
  <1>7. CASE Step
    <2>1. /\ grid.vals \in Seq(Int) /\ grid.v \in Int /\ upper \in Int /\ grid \in Grids
          /\ Len(grid.vals) <= maxGridPoints + 1
      BY <1>6, <1>7 DEF Step, MoreSteps
    <2>2. MinOf(grid.v, upper) \in Int /\ Fl(grid.v + counter, 1) \in Int
      BY <1>1, <2>1, FlType DEF MinOf
    <2> DEFINE vals == Append(grid.vals, MinOf(grid.v, upper))
    <2>3. vals \in Seq(Int) /\ Len(vals) <= maxGridPoints + 2
      BY <2>1, <2>2
    <2>4. /\ grid' \in Grids /\ grid'.vals = vals /\ grid'.lats = grid.lats
          /\ grid'.axis = grid.axis
      <3>1. grid' = [grid EXCEPT !.vals = vals, !.v = Fl(grid.v + counter, 1)]
        BY <1>7 DEF Step
      <3> HIDE DEF vals
      <3>2. QED
        BY <2>1, <2>2, <2>3, <3>1
    <2>5. \E to \in {"snap", "walk"} : Become(0, to)
      BY <1>7 DEF Step
    <2>6. counter' \in Nat /\ pc = "walk"
      BY <1>1, <1>7 DEF Step
    <2> HIDE DEF vals
    <2>7. /\ ExpansionTypeOK' /\ pc' \in {"snap", "walk"} /\ kind' = "rectangle"
          /\ payload' = payload
      BY <1>2, <2>5, <2>6
    <2>8. QED
      BY <1>1, <1>6, <2>3, <2>4, <2>6, <2>7 DEF RectangleInv, Corners
  <1>8. CASE StepsDone
    <2>1. Become(0, "snap") /\ counter' \in Nat /\ grid' = grid /\ pc = "walk"
      BY <1>1, <1>8 DEF StepsDone
    <2>2. QED
      BY <1>1, <1>2, <1>6, <2>1 DEF RectangleInv, Corners
  <1>9. CASE SnapLats
    <2>1. Become(0, "walk") /\ counter' \in Nat /\ WalkAlong(2, snappedValues)
      BY <1>1, <1>9 DEF SnapLats
    <2>2. snappedValues \in Seq(Int) /\ Len(snappedValues) \in 1..AxisLimit
      BY <1>6, <1>9, Snapped DEF SnapLats
    <2>3. grid' \in Grids /\ Len(grid'.vals) = 0 /\ grid'.lats = snappedValues
      BY <1>1, <2>1, <2>2, WalkBegins DEF Corners
    <2>4. /\ ExpansionTypeOK' /\ pc' = "walk" /\ kind' = "rectangle"
          /\ payload' = payload
      BY <1>2, <2>1
    <2>5. Len(grid'.lats) \in 1..AxisLimit /\ Len(grid'.vals) <= maxGridPoints + 2
      BY <2>2, <2>3
    <2>6. RectangleInv'
      BY <1>1, <2>3, <2>4, <2>5 DEF RectangleInv, Corners
    <2>7. QED
      BY <2>4, <2>6
  <1>10. CASE SnapLons
    <2> DEFINE rows == Len(grid.lats)
               cols == Len(snappedValues)
    <2>1. Become(rows * cols, "done") /\ counter' \in Nat
      BY <1>1, <1>10 DEF SnapLons
    <2>2. rows \in 1..AxisLimit /\ cols \in 1..AxisLimit /\ AxisLimit \in Nat
      <3>1. pc = "snap" /\ grid.axis = 2
        BY <1>10 DEF SnapLons
      <3>2. rows \in 1..AxisLimit
        BY <1>6, <3>1
      <3>3. grid.vals \in Seq(Int) /\ Len(grid.vals) <= maxGridPoints + 2 /\ upper \in Int
        BY <1>6, <3>1
      <3>4. cols \in 1..AxisLimit
        BY <3>3, Snapped
      <3>5. AxisLimit \in Nat
        BY DEF AxisLimit
      <3>6. QED
        BY <3>2, <3>4, <3>5
    <2> HIDE DEF rows, cols
    <2>3. rows * cols \in 1..AxisLimit * AxisLimit
      BY <2>2, Products
    <2>4. QED
      BY <1>1, <1>2, <2>1, <2>3 DEF RectangleInv, Corners
  <1>11. QED
    BY <1>3, <1>4, <1>5, <1>7, <1>8, <1>9, <1>10

LEMMA BboxStep ==
    ASSUME ExpansionInv, ExpandBbox \/ Halve \/ fillBboxGrid
    PROVE  ExpansionInv'
  <1> SUFFICES /\ ExpansionTypeOK' /\ pc' \in {"loop", "done"} /\ kind' = "bbox"
               /\ BboxInv'
    BY DEF ExpansionInv, PhaseInv
  <1> USE Hypotheses DEF Become, Hold, MaxOf
  <1>1. kind = "bbox" /\ BboxInv /\ ExpansionTypeOK
    BY DEF ExpansionInv, ExpandBbox, Halve, fillBboxGrid
  <1>2. CASE ExpandBbox
    BY <1>1, <1>2 DEF ExpandBbox, BboxInv, ExpansionTypeOK
  <1>3. CASE Halve
    <2>1. /\ pc' = "loop" /\ counter' = 2 * counter /\ counter > 0 /\ counter \in Nat
          /\ GridSize(payload, counter) > MaxBboxGridPoints
          /\ points' = 0 /\ UNCHANGED <<kind, trusted, payload>>
      BY <1>1, <1>3 DEF Halve, MoreHalvings, BboxInv, ExpansionTypeOK
    <2>2. ~CheckedFits(payload)
      <3>1. GridSize(payload, counter) \in Nat
        BY <1>1, <2>1, GridSizes DEF BboxInv
      <3>2. QED
        BY <1>1, <1>3, <2>1, <3>1 DEF CheckedFits, BboxInv, Halve
    <2>3. ExpansionTypeOK'
      BY <1>1, <1>3, <2>1 DEF ExpansionTypeOK, Halve
    <2>4. ~CheckedFits(payload')
      BY <2>1, <2>2
    <2>5. BboxInv'
      BY <1>1, <2>1, <2>4 DEF BboxInv
    <2>6. QED
      BY <1>1, <2>1, <2>3, <2>5
  <1>4. CASE fillBboxGrid
    <2>1. /\ GridSize(payload, counter) \in Nat \ {0}
          /\ counter >= MaxDivisor => GridSize(payload, counter) = 1
      BY <1>1, <1>4, GridSizes DEF fillBboxGrid, BboxInv, ExpansionTypeOK
    <2>2. GridSize(payload, counter) <= MaxBboxGridPoints
      BY <1>1, <1>4, <2>1 DEF fillBboxGrid, MoreHalvings, ExpansionTypeOK
    <2>3. /\ pc = "loop" /\ pc' = "done" /\ points' = GridSize(payload, counter)
          /\ peak' = MaxOf(peak, points')
          /\ UNCHANGED <<kind, trusted, payload, counter>>
      BY <1>4, <2>1, <2>2 DEF fillBboxGrid
    <2>4. /\ GridSize(payload', counter') = GridSize(payload, counter)
          /\ CheckedFits(payload') => counter' = 1
      BY <1>1, <1>4, <2>3 DEF fillBboxGrid, BboxInv
    <2>5. ExpansionTypeOK'
      BY <1>1, <2>1, <2>3 DEF ExpansionTypeOK
    <2>6. BboxInv'
      <3>1. payload' \in [lat : Spans, lon : Spans, density : Densities] /\ counter' > 0
        BY <1>1, <1>4, <2>3 DEF fillBboxGrid, BboxInv
      <3>2. points' = GridSize(payload', counter') /\ points' \in 1..MaxBboxGridPoints
        BY <2>1, <2>2, <2>3, <2>4
      <3>3. QED
        BY <2>3, <2>4, <3>1, <3>2 DEF BboxInv
    <2>7. QED
      BY <1>1, <2>3, <2>5, <2>6
  <1>5. QED
    BY <1>2, <1>3, <1>4

LEMMA PolygonStep ==
    ASSUME ExpansionInv,
           \/ ExpandPolygon \/ WidenStep \/ StepFits \/ SampleVertices
           \/ \E inside \in InsideCounts : SamplePass(inside) \/ SampleFits(inside)
    PROVE  ExpansionInv'
  <1> SUFFICES /\ ExpansionTypeOK' /\ pc' \in {"widen", "loop", "done"}
               /\ kind' = "polygon" /\ PolygonInv'
    BY DEF ExpansionInv, PhaseInv
  <1> USE Hypotheses DEF Become, Hold, MaxOf
  <1>1. /\ kind = "polygon" /\ PolygonInv /\ ExpansionTypeOK
        /\ payload.vertices \in Nat /\ counter \in Nat
    BY DEF ExpansionInv, ExpandPolygon, WidenStep, StepFits, SampleVertices, SamplePass,
           SampleFits, PolygonInv, ExpansionTypeOK
  <1>2. CASE ExpandPolygon
    <2>1. minPolygonGridStep \in Nat
      BY UnitAssumption, FlType DEF minPolygonGridStep
    <2>2. counter' \in Nat
      BY <1>2, <2>1 DEF ExpandPolygon
    <2>3. QED
      BY <1>1, <1>2, <2>2 DEF ExpandPolygon, PolygonInv, ExpansionTypeOK
  <1>3. CASE WidenStep
    <2>1. Fl(5 * counter, 4) \in Nat
      BY <1>1, FlType
    <2>2. counter' \in Nat
      BY <1>1, <1>3, <2>1 DEF WidenStep
    <2>3. QED
      BY <1>1, <1>3, <2>2 DEF WidenStep, PolygonInv, ExpansionTypeOK
  <1>4. CASE StepFits
    BY <1>1, <1>4 DEF StepFits, PolygonInv, ExpansionTypeOK
  <1>5. CASE SampleVertices
    <2>1. thinVertices(payload.vertices) \in 1..maxGridPoints
      BY <1>1, <1>5, ThinnedVertices DEF SampleVertices, PolygonInv
    <2>2. QED
      BY <1>1, <1>5, <2>1 DEF SampleVertices, PolygonInv, ExpansionTypeOK
  <1>6. ASSUME NEW inside \in InsideCounts, SamplePass(inside) \/ SampleFits(inside)
        PROVE  /\ ExpansionTypeOK' /\ pc' \in {"widen", "loop", "done"}
               /\ kind' = "polygon" /\ PolygonInv'
    BY <1>1, <1>6 DEF SamplePass, SampleFits, PolygonInv, ExpansionTypeOK
  <1>7. QED
    BY <1>2, <1>3, <1>4, <1>5, <1>6

LEMMA ExpansionInvStep == ExpansionInv /\ [ExpansionNext]_expansionVars => ExpansionInv'
  <1> SUFFICES ASSUME ExpansionInv, [ExpansionNext]_expansionVars PROVE ExpansionInv'
    OBVIOUS
  <1>1. CASE NewLocation
    BY <1>1, GivenStep
  <1>2. CASE \/ PointSegment \/ LastSegment
             \/ \E count \in SegmentCounts : GeneratedSegment(count)
    BY <1>2, PolylineStep
  <1>3. CASE ExpandNotFinite
    <2>1. ExpansionTypeOK' /\ pc' = "done" /\ kind' = "notfinite" /\ points' <= 1
      BY <1>3 DEF ExpandNotFinite, Become, Hold, MaxOf, ExpansionInv, ExpansionTypeOK
    <2>2. QED
      BY <2>1 DEF ExpansionInv, PhaseInv
  <1>4. CASE ExpandOverflow
    <2>1. /\ ExpansionTypeOK' /\ pc' \in {"done", "panicked"} /\ kind' = "overflow"
          /\ points' = 0 /\ ~trusted'
      BY <1>4 DEF ExpandOverflow, Become, Hold, MaxOf, ExpansionInv, ExpansionTypeOK
    <2>2. QED
      BY <2>1 DEF ExpansionInv, PhaseInv
  <1>8. CASE Expansion
    BY <1>3, <1>4, <1>8, RadiusStep, RectangleStep, BboxStep, PolygonStep DEF Expansion
  <1>5. CASE Answer
    <2>1. ExpansionTypeOK' /\ pc' = "idle" /\ kind' = "none" /\ peak' = 0
      <3>1. points' = 0 /\ counter' = 0 /\ pc' = "idle" /\ kind' = "none" /\ peak' = 0
            /\ trusted' = FALSE
        BY <1>5 DEF Answer
      <3>2. points' \in Nat /\ counter' \in Nat /\ peak' \in Nat /\ points' <= peak'
        BY <3>1
      <3>3. QED
        BY <3>1, <3>2, Zenon DEF ExpansionTypeOK, Kinds
    <2>2. QED
      BY <2>1 DEF ExpansionInv, PhaseInv
  <1>6. CASE UNCHANGED expansionVars
    <2>1. UNCHANGED <<pc, kind, trusted, payload, points, counter, grid, peak>>
      BY <1>6 DEF expansionVars
    <2>2. ExpansionTypeOK' /\ PhaseInv'
      BY <2>1 DEF ExpansionInv, ExpansionTypeOK, PhaseInv
    <2>3. maxKm' = maxKm
      BY <2>1 DEF maxKm
    <2>4. kind' = "radius" => RadiusInv'
      BY <2>1, <2>3 DEF ExpansionInv, RadiusInv, RingInv
    <2>5. /\ kind' = "polyline" => PolylineInv'
          /\ kind' = "points" => PointsInv'
          /\ kind' = "rectangle" => RectangleInv'
      BY <2>1 DEF ExpansionInv, PolylineInv, PointsInv, RectangleInv
    <2>6. /\ kind' = "bbox" => BboxInv'
          /\ kind' = "polygon" => PolygonInv'
          /\ kind' = "overflow" => ~trusted' /\ (pc' = "done" => points' = 0)
          /\ kind' = "notfinite" => (pc' = "done" => points' <= 1)
          /\ pc' = "panicked" => kind' = "overflow"
      BY <2>1 DEF ExpansionInv, BboxInv, PolygonInv
    <2>7. QED
      BY <2>2, <2>4, <2>5, <2>6 DEF ExpansionInv
  <1>7. QED
    BY <1>1, <1>2, <1>8, <1>5, <1>6 DEF ExpansionNext

LEMMA ExpansionInvariance == ExpansionSpec => []ExpansionInv
  <1>1. ExpansionInv /\ [ExpansionNext]_expansionVars => ExpansionInv'
    BY ExpansionInvStep
  <1>2. QED
    BY <1>1, ExpansionInvInit, PTL DEF ExpansionSpec

-----------------------------------------------------------------------------

\* However absurd the location, parsed or built by hand, what ExpandLocations and
\* ExpandBboxToGrid return is within the cap of its kind, for a rectangle
\* (maxGridPoints+3)^2 where its steps are lost in the rounding, and not empty; only a
\* hand-built bbox whose span overflows may panic, and a polyline never holds more than
\* twice its cap while it is read.
THEOREM ExpansionsAreBounded == ExpansionSpec => []ExpansionWithinCap
  <1>1. ExpansionInv => ExpansionWithinCap
    <2> SUFFICES ASSUME ExpansionInv PROVE ExpansionWithinCap
      OBVIOUS
    <2> USE Hypotheses DEF Cap
    <2>1. CASE kind = "radius" /\ pc = "done"
      <3>1. RadiusInv /\ points \in Nat /\ counter \in Nat /\ payload \in Int
        BY <2>1 DEF ExpansionInv, ExpansionTypeOK, RadiusInv
      <3>2. CASE payload < 2 * radiusRingStepKm
        BY <2>1, <3>1, <3>2 DEF ExpansionWithinCap, RadiusInv
      <3>3. CASE payload >= 2 * radiusRingStepKm
        <4>1. maxKm \in Nat /\ maxKm <= MaxRadiusKm
          BY <3>1, <3>3, MaxKmIs
        <4>2. PICK k \in 0..counter : RingInv(k) /\ counter > maxKm
          BY <2>1, <3>1, <3>3 DEF RadiusInv
        <4>3. k \in Nat /\ k > 0 /\ 3 * k <= MaxRadiusKm + 3
          BY <3>1, <4>1, <4>2 DEF RingInv
        <4>4. points <= MaxExpandedRadiusPoints
          BY <3>1, <4>2, <4>3, RingsFit, Triangular DEF RingInv
        <4>5. points > 0
          <5>1. k * (k + 1) > 0
            BY <4>3
          <5>2. QED
            BY <3>1, <4>2, <4>3, <5>1 DEF RingInv
        <4>6. QED
          BY <2>1, <4>4, <4>5 DEF ExpansionWithinCap
      <3>4. QED
        BY <3>1, <3>2, <3>3 DEF RadiusInv
    <2>2. CASE kind # "radius" \/ pc # "done"
      <3>1. /\ kind \in Kinds /\ points \in Nat
            /\ pc = "done" => kind # "none"
        BY DEF ExpansionInv, ExpansionTypeOK, PhaseInv
      <3>2. pc = "done" => points <= Cap(kind) \/ (kind = "points" /\ ~trusted)
        BY <2>2, <3>1 DEF ExpansionInv, PolylineInv, PointsInv, RectangleInv, BboxInv,
                                PolygonInv, Kinds
      <3>3. pc = "done" /\ kind \in {"radius", "polyline", "rectangle", "bbox"} => points > 0
        BY <2>2, <3>1 DEF ExpansionInv, PolylineInv, RectangleInv, BboxInv
      <3>4. pc = "done" /\ kind = "polygon" /\ payload.vertices > 0 => points > 0
        BY DEF ExpansionInv, PolygonInv
      <3>5. /\ kind = "polyline" => peak <= 2 * MaxPolylinePoints
            /\ pc = "panicked" => kind = "overflow" /\ ~trusted
        BY DEF ExpansionInv, PolylineInv
      <3>6. QED
        BY <3>2, <3>3, <3>4, <3>5 DEF ExpansionWithinCap
    <2>3. QED
      BY <2>1, <2>2
  <1>2. QED
    BY <1>1, ExpansionInvariance, PTL

\* A circle is never cut short at MaxExpandedRadiusPoints, and the capacity that
\* ExpandLocations allocates beforehand is exactly what its rings need.
THEOREM CirclesAreComplete == ExpansionSpec => []CircleIsComplete
  <1>1. ExpansionInv => CircleIsComplete
    <2> SUFFICES ASSUME ExpansionInv PROVE CircleIsComplete
      OBVIOUS
    <2> SUFFICES ASSUME ExpansionInv,
                        pc = "done", kind = "radius", payload >= 2 * radiusRingStepKm
                 PROVE  counter > maxKm /\ points = capacity
      BY DEF CircleIsComplete
    <2>1. RadiusInv /\ points \in Nat /\ counter \in Nat
      BY DEF ExpansionInv, ExpansionTypeOK
    <2>2. maxKm \in Nat /\ radiusRingStepKm = 3
      BY <2>1, MaxKmIs DEF RadiusInv
    <2>3. PICK k \in 0..counter : RingInv(k) /\ counter > maxKm
      BY <2>1, <2>2 DEF RadiusInv
    <2>4. k \in Nat /\ maxKm \div 3 + 1 = k
      BY <2>1, <2>2, <2>3 DEF RingInv
    <2>5. capacity = (3 * k * (k + 1)) \div 2
      BY <2>2, <2>4 DEF capacity
    <2>6. QED
      BY <2>1, <2>3, <2>5 DEF RingInv
  <1>2. QED
    BY <1>1, ExpansionInvariance, PTL

\* A bbox grid that ExpandBboxToGridChecked accepts is the one ExpandBboxToGrid
\* produces, at full density.
THEOREM CheckedGridsAreProduced == ExpansionSpec => []CheckedGridIsProduced
  <1>1. ExpansionInv => CheckedGridIsProduced
    BY DEF ExpansionInv, BboxInv, CheckedGridIsProduced
  <1>2. QED
    BY <1>1, ExpansionInvariance, PTL
=============================================================================
