# A TLA+ verification project for atmosoar-api-libraries

The repository is a set of Go libraries that the Atmosoar weather services link
into their binaries: runtime configuration, feature flags and an admin REST
surface, the gateway-trust contract, the parsing and expansion of time and
location parameters, HTTP metrics and tracing, and chart building. This
directory holds models of the parts that keep state, run concurrently, fail half
way or do arithmetic at a limit, TLC runs that check them on small instances, and
TLAPS proofs that 30 of the checked properties hold for every instance.

Run a check with `tlc -config <cfg> <module>`, the proofs with
`tlapm <module>Proofs.tla` (section 5).
`PROJECT.json` maps every definition to the source lines it models, lists the
hazards of the code with the properties that watch them, and gives for every
property a mutation of the model that violates it.

## 1. Inventory

| Part (src/) | State it keeps | Operations | What is hard |
|---|---|---|---|
| `runtimeconfig/config.go`, `overlay.go` Manager | overlay behind an atomic pointer, `writeMu`, a Store | `NewManager`, `LoadAtBoot`, `Apply`, `Clear`, getters, `MergedView` | concurrent writers clone whole overlays; persist first, publish second; a store that fails, or executes a statement its caller has given up; crash between the two |
| `runtimeconfig/registry.go` Registry | declared keys, immutable after start | `Register`, `Validate`, normalisation, getters | JSON to typed Go values, float64 to int64, truncated durations, bounds on one side or both |
| `runtimeconfig/store.go`, `pgxstore/` | the table | `LoadAll`, `Upsert`, `Delete`, migration | failing and late statements |
| `admin/flags.go` FlagSet | snapshot behind an atomic pointer, `writeMu`, a Store | `NewFlagSet`, `LoadAtBoot`, `Set`, `Enabled`, `Snapshot` | as the Manager |
| `admin/admin.go`, `handlers.go` | none of its own | PUT/DELETE `/config/:key`, POST `/flags/:flag`, GETs | which status for which failure; restart around an answer |
| `claims/` | trust switches from the environment, captured headers on a context, a logger and a one-shot warning | `FromHeader`, `RequireAdmin`, `PropagateTrustHeaders`, `SetPropagateLogger` | the identity over several hops; admin rights must not travel; calls without an identity must be noticed |
| `time/time.go` | two shortcut registries | parse, `BuildTimeShortcuts`, `BuildRangeTimeShortcuts`, `ExpandTimes`, `stepTimestamps` | int64 durations that wrap or saturate, caps, inclusive ends, one name in two maps |
| `location/location.go` | station, shortcut and shape registries behind `registryMu` | parse, expand, `Register*`, `SetShapeProvider` | several lock acquisitions per parse; loops that coarsen until a list fits |
| `observability/` | in-flight gauge, counters, histograms, spans; `registerOnce` | two Gin middlewares, `RegisterDefaultCollectors`, `RedactURLWithPath`, process set-up | panics, order of the middlewares, late labels, concurrent registration, credentials in a URL |
| `chart/` | none | `FromSamples`, `Validate`, `Resolved`, `Build`, layout, SVG and PNG | rounding of axes, palette slots, gaps, threshold bands against the status of a value, sectors that wrap at north, resolving a resolved spec |
| `shapefile/` | a lookup map, immutable after start | `NewShapeProvider`, `Lookup` | several keys per country, missing ISO codes, a later entry replacing an earlier one |
| `httputils/` | none | `SendAPIError`, `SendInternalError`, ... | what is told to the client, what is logged and how loudly |
| `observation/` | none | unit conversions, a bounds filter | nothing stateful |

How the parts interact: a request passes the observability middlewares, then
`claims.FromHeader`, then (on admin routes) `claims.RequireAdmin`, then a handler.
Admin handlers call the Manager and the FlagSet, each of which writes its own
Store. The fx `OnStart` hooks run the two `LoadAtBoot`s. Location parsing reads
registries that start-up code fills and that may change while the service runs, and
asks the shape provider that `shapefile` built. The collectors are registered by an
fx hook before the server accepts requests.

## 2. Modules

| Module | Models | Extends / used by |
|---|---|---|
| `ConfigRegistry` | keys, `Decode`, `Refusal` (the checks of Apply and Clear), `LiveOf`, `Edited` (clone and set one key), `LoadedOverlay`, the merged view of one key | base of the next three |
| `RuntimeConfig` | the Manager step by step | refines `ConfigContract` |
| `ConfigContract` | what the Manager promises: rows, a live overlay, entries due | refined by `RuntimeConfig`, used by `AdminService` |
| `Floats` | float64: rounding to the nearest significand of fixed length | base of `KeyValidation` and `LocationExpansion` |
| `KeyValidation` | `Register`, `validateAgainst`, `normalizeValue`, `checkBounds`, `toJSONValue` | |
| `FlagDecl` | declared flags, their rows, what `LoadAtBoot` makes of a table | base of the next two and of `AdminService` |
| `FlagContract` | what the FlagSet promises: rows, live flags, flags due | refined by `FlagSet`, used by `AdminService` |
| `FlagSet` | the FlagSet step by step | refines `FlagContract` |
| `TrustContract` | trust switches, `FromHeader`, `RequireAdmin`, header capture, as functions of environment and headers | base of the next two |
| `EastWest` | requests that travel through gateway, backends and background tasks | |
| `ErrorEnvelope` | the error answers of `httputils`: status, code, message, log level | base of `AdminService` |
| `AdminService` | the admin REST surface over `TrustContract`, `ConfigContract` and `FlagContract` | |
| `TimeExpansion` | a time parameter or shortcut from its wire form to its timestamps | |
| `LocationExpansion` | radius, polyline, point lists, rectangle, bbox and polygon to their points, and locations whose numbers or spans are not finite | |
| `ShapeLookup` | `NewShapeProvider`: features and aliases folded into the lookup map | base of `LocationRegistry` |
| `LocationRegistry` | `ParseLocation` on a name against concurrent registrations | |
| `CollectorRegistration` | `RegisterDefaultCollectors` and its `sync.Once` | base of `HTTPObserver` |
| `UrlRedaction` | `RedactURLWithPath` | base of `HTTPObserver` |
| `HTTPObserver` | the two middlewares around a handler that may panic | |
| `ChartScale` | steps, domains and ticks of both axes | base of the next three |
| `ChartParameters` | the parameter registry, `Classify`, `BandsFor` and the stripes drawn | base of `ChartSpec` |
| `WindRose` | options, binning, rings and wedges of the rose | base of `ChartSpec` |
| `ChartMarks` | what a series draws: lines, steps, bands, bars, end dots | base of `ChartSpec` |
| `ChartSpec` | `FromSamples`, `Validate` and `Resolved` | |
| `RuntimeConfigProofs`, `FlagSetProofs`, `KeyValidationProofs`, `TimeExpansionProofs`, `HTTPObserverProofs` | theorems | each extends its component |
| `TrustProofs` | theorems about who may do what, in one service and over several | extends `AdminService` and `EastWest` |
| `LocationProofs` | theorems about names and about expansions | extends `LocationRegistry` and `LocationExpansion` |
| `ChartProofs` | theorems about resolved charts | extends `ChartSpec` |
| `MC*` | constants and symmetry sets for TLC | |

### State and actions against the code

* **RuntimeConfig.** A step is what a goroutine does between two accesses to
  shared state. `Enter` is everything `Apply` or `Clear` does before `writeMu`
  (unknown key, immutable, invalid value); `Lock`; `Persist` / `PersistFails` is
  the store call; `Clone` is `state.Load().clone()` with the key set or deleted;
  `WriterPublish` is `state.Store`; `Return` is the deferred unlock. `LoadAll`,
  `LoadAllFails`, `LoadPublish` and `LoadReturn` are `LoadAtBoot`, which fails
  open. `ViewLoad` and `ViewKey` are `MergedView`: one load of the pointer, then
  a loop. `PersistFails` leaves the row unwritten, or written with its answer
  lost, or the statement on its way (`orphans`, run later by `LateCommit` or never
  by `LateDrop`). `Crash` may come at any moment. `acked`, `effective` and `seen`
  are histories: what the callers know to be persisted and live, and the overlays
  live during a view. `Durable` tells pgxstore from MemStore.
* **FlagSet.** The same shape for `Set` and `LoadAtBoot`, with rows that do not
  parse and rows of flags that are no longer declared. A statement whose caller has
  given up may be executed late (`late`, `LateCommit`, `LateDrop`). `told` is the
  history of what the callers know. `Due` is the change the lock holder has persisted
  or loaded and not yet published; with it the FlagSet implements `FlagContract`.
* **KeyValidation.** JSON numbers and float64 values are integers over `Unit`, rounded as
  `Floats` says: `Seconds` is `Duration.Seconds()`, two rounded terms and their rounded
  sum, and `ToDuration` the rounded product that is then truncated. `Second` is the ticks
  of a duration in a second; `MaxInt` stands for the largest int64, and what an
  out-of-range float64 converts to is a choice of the build (`overflow`). A bound is
  present or absent, whole or not. An integer default of a duration key is multiplied in
  int64 and may wrap (`Wrap`).
* **EastWest.** `FromHeader` captures the trust headers into the context, admin
  stripped, and checks presence and version; `RequireAdmin` follows on admin
  routes; `CallPeer` replays the captured headers; a background task calls with a
  detached context. `SetPropagateLogger` comes at any time or never; `Warn` fires once,
  and only with a logger. The gateway is external: it authenticates and stamps headers.
* **AdminService.** `Send` is the request and both middlewares, which read only
  the request and the environment. The Manager is used through `ConfigContract`,
  which it is proved to implement, and the FlagSet through `FlagContract`, so that a
  restart may fall between persisting and publishing of both. An answer is the
  envelope of `ErrorEnvelope`; `effect` is the history of what a request changed. A store
  error leaves the statement executed, lost or on its way (`late`): `LateConfig` and
  `LateFlag` execute it at any later moment, also between another request's persisting
  and its answer and after a restart, `LateDrop` never. `toldRow` and `toldFlag` are
  what the callers know; no caller knows the row any more once a late statement has
  written it.
* **TimeExpansion.** One tick is a nanosecond. `Wrap` is int64 arithmetic, `Sub`
  saturates like `time.Time.Sub`; the loop of `stepTimestamps` is one step per
  timestamp.
  `ManualRange` is a range built by hand; a list or a single time built by hand is
  returned by `ExpandTimes` as it is and left out.
  `ParseShortcut` asks for a configured shortcut: both maps are built from one
  configuration, as the services do.
* **LocationExpansion.** Of a list of points only its length is kept, and the
  coordinates of a rectangle's grid. The coordinates of rectangles and polygons are
  floats (`Floats`), so that a span, a quotient, a step and a sum are each rounded:
  `gridPointCount` takes the ceiling of a rounded quotient, and `Step` is one iteration
  of `steppedValues`, up to its tolerance and its bound on iterations. `WidenStep` is the
  loop of `polygonGridStep`. Whether a grid point is inside a polygon is geometry and a
  free choice. `trusted` tells a location that a parser or a decoder checked from one
  built by hand, which meets the loops unchecked: its coordinates may be anywhere, the
  area of its polygon infinite or no number, the span of its bbox infinite
  (`GivenOverflow`). `peak` is the history of the most points held on the way.
* **LocationRegistry.** `sync.RWMutex` is modelled with its writer preference: a
  waiting writer keeps new readers out; the readers it kept out enter first when
  it unlocks. Every lookup of `ParseLocation` takes and releases the lock. A provider
  is the map `NewShapeProvider` builds from its features; a polygon is named after its
  country.
* **HTTPObserver.** Each collector is updated in a step of its own, so a scrape
  can fall between two. The middlewares are tried in both orders, the span is sampled
  or not, and the service's path redactor may panic. A span holds its route, its URL as
  redacted and its status text; a panic value may print what its raiser was given of the
  URL, which `EndSpan` writes into that text. Requests arrive once every
  starter has returned from `RegisterDefaultCollectors`.
* **ChartSpec.** A caller builds a spec by hand or with `FromSamples`; `Valid` is
  `Validate`; `ResolvePanel`, `ResolveX` and `ResolveRose` are `Resolved`; `Again`
  resolves what was resolved, up to twice. Marks are in data space: the scales are linear.
  A value is an integer over `Unit` or not finite, a time one over `Minute`, with `Milli`
  to a millisecond, which is what an axis is kept in (`InMillis`). Axes are computed
  exactly, not in float64. The
  registry is represented by one parameter of each shape, with its real thresholds.

## 3. Runs

| Run | Instance | Distinct states | Shows |
|---|---|---|---|
| `config_writers` | 2 writers, boot, 2 hot keys, a row that does not decode, 1 late statement | 974 k | an acknowledged write is in the store (`AckedPersisted`) and live (`EffectiveLive`) whatever the others do; the Manager implements `ConfigContract` |
| `config_calls` | 1 writer, 1 view, boot, a hot and a secret restart-required key, fair | 218 k | a view is one snapshot; only hot keys are swapped; undecodable rows never become live; every call returns; what was persisted is published |
| `flags` | 2 togglers, boot, 2 flags and a retired one, 1 late statement, fair | 422 k | no toggle is lost, live and stored values are what callers were told; the FlagSet implements `FlagContract`, publication included |
| `trust` | 1 request, 2 backends, 2 hops, every environment | 58 k | calls without an identity are warned of where trust is enforced; an admin handler runs only for an admin who came straight from the gateway (or in local development); claims are those of the authenticated user after any hop |
| `admin` | 2 clients, a key that is also a flag, an immutable key, an unknown name, 1 late statement | 825 k | the status tells the effect; faulty requests get 4xx and only outages are logged as errors; a 200 is read back after a restart, unless another statement has written the row |
| `time_expansion` | all wire forms and shortcuts, spans and steps around every boundary | 100 k | the cap, the exact grid, nothing accepted is coarsened, the fallback is unreachable, shortcuts resolve to the range or time they name |
| `time_span` | the same | violation | the cap does not hold for spans beyond 292 years (section 6) |
| `key_validation` | up to 2 keys of every kind, bounds on both, one or no side, every JSON type, a default that wraps, numbers around the limits | 13 k | getters see their Go type, overrides keep their bounds, a shown value can be written back, a duration to a tick |
| `http_observer` | 2 starters, 3 collectors, 2 requests, both orders, 2 URLs full of credentials | 3.1 M | every starter gets the same true verdict; gauge, counter and histogram balance through panics; labels, span and count agree; no credential in a span but what a panic quotes |
| `location_expansion` | sizes on both sides of each cap, rectangles whose spans a step divides, nearly divides or cannot move on | 122 k | no location outgrows its cap, circles are complete, a grid keeps to its estimate, every loop ends but one |
| `location_registry` | 1 parser, 2 registering goroutines, 2 providers | 78 k | answers were registered during the call, known names and every name of a country resolve, nobody waits for ever |
| `chart_spec` | up to 2 panels and 3 series, pinned and free slots and axes, 5 rose options, 20 sets of rows, time axes from under a minute to years | 294 k | axes, ticks, marks and gaps, threshold stripes, rose bins, charts from rows, stability under a second and a third resolution |

### Bounds, and why they are enough

* *Writers, readers, clients.* Two writers exhibit a lost update; more add only
  more of the same, and the theorems of section 5 hold for any number.
  `config_calls` has one writer: boot competes with it for `writeMu`. Runs use
  `Durable = TRUE`, the harder case; the theorems cover the MemStore too.
* *MaxOrphans = 1.* One late statement can overtake a later write of its key.
  `config_calls` has none: a late statement has no goroutine to hold up. *MaxLate = 1*
  in `flags` and `admin`, for the same reason. In `admin` the constraint `OneRefusal`
  leaves at most one request under way that will be refused, beside a write between its
  row and its publication and beside no late statement, and one name and two bodies
  for those the middlewares refuse: a refused request changes nothing.
* *Rows* are "absent", one that decodes, and one that does not.
* *MaxHops = 2.* The second hop forwards what the first one captured; a third
  repeats the second.
* *TimeExpansion* scales int64 down: `MaxDuration = 63`, `Hour = 6`,
  `MaxTimestamps = 4`, `MaxResolutionHours = 10`. `TimeAssumption` states the
  relations between the real constants that the scaled ones preserve and that the
  proofs use. `Ends`
  reach past twice `MaxDuration`, so that saturation and wrapping both occur.
  `Shortcuts` has every type with hours that are absent, negative, zero, small, at and
  above the limit.
* *KeyValidation* likewise: `MaxInt = 127`, numbers on both sides; 15 ticks to a second
  and floats of five bits, so that a second is no power of two and durations lie on both
  sides of `Significand`, as those of the code do; `MaxKeys = 2` is what a duplicate name
  takes.
* *LocationExpansion* uses the caps of the code but for `maxGridPoints = 60` (250 in the
  code): the walk of a rectangle is one step per value. Floats have ten bits (53 in the
  code), the globe of the run ends one degree from its centre and the tolerance is an
  eighth of a step (a 10^9th in the code): with so few bits the rounding of a sum has the
  same relation to the step and to the tolerance that it has in the code, about the size
  of a step at the far edges and below the tolerance on the globe.
  `MaxPasses = 16` bounds the
  polygon passes, 64 in the code: the run may use all of them up (the count of inside
  points is a free choice), which reaches the fallback to the vertices as the code does.
  `MaxDivisor` is two to the number of halvings, 2100 in the code, which takes every
  float64 to zero; the run has 17, enough for its densities (`HalvingAssumption`).
* *ChartSpec:* `maxSeries = 2` for the palette size (8 in the code), `MaxPanels =
  2`, values in hundredths; one series too many is enough to see it refused. `Minute = 6`
  and `Milli = 2` leave room for an axis inside a minute and for samples inside a
  millisecond; a third resolution shows that the second has settled everything; `Reach`
  is the largest value of the run, `Decades` the powers of ten its axes can need,
  `Texts` the names it uses. The constraint `VariedOnce` of `MCChartSpec` varies the
  settings of a panel or the pins of the time axis, not both: the two resolutions do not
  read each other.
* *HTTPObserver:* the constraint `OneOutcome` follows requests only after a successful
  registration, which the middlewares do not read; failed ones are followed to the end
  of the registration.
* *Deadlock* is checked except in `KeyValidation`, `HTTPObserver` and `ChartSpec`,
  where every input is used up: a registry whose `Register` panicked does not
  start, a request id is used once, a refused spec, or one resolved three times, is
  finished.

### Fairness

* The Go scheduler runs every goroutine that can run: weak fairness of each step
  between two shared accesses.
* `sync.Mutex` hands over to the longest waiter in starvation mode: strong
  fairness of `Lock`, and of `Announce`, which queues on the mutex inside the
  RWMutex. Readers a writer kept out are admitted by its unlock: weak fairness.
* The store answers every statement, with success or an error (the drivers have
  timeouts): weak fairness of `Persist \/ PersistFails` and of `LoadAll \/
  LoadAllFails`, never of success alone. `FlagSet` needs less for its contract: weak
  fairness of `LoadPublish` and of `Copy \/ Publish`, which wait for nobody.
* An expansion is a straight piece of sequential code: weak fairness.
* Calls, requests, crashes and late statements are never assumed to happen.

## 4. Properties

Each is stated above its definition. Every module also has a `TypeOK` that documents
its state; `config_calls` checks the Manager's, which is a theorem too. The properties
that carry the most:

* `AckedPersisted`, `EffectiveLive` relate what callers were told to the table and
  the overlay, over crashes, failures, late statements and concurrent writers.
* `ImplementsContract`: swapping a whole cloned overlay under `writeMu` has the
  effect of publishing exactly one entry. `ImplementsFairContract` adds that it is
  eventually published. The contract knows no callers, so whether a write that was
  acknowledged became live is left to `EffectiveLive`.
* `FlagsAsTold`, `ImplementsFlagContract`: the same two questions of the flags.
* `ViewIsSnapshot`: the entries of one answer never mix two overlays.
* `AdminRunsAuthorised`, `ClaimsAreAuthentic`: the contract over several hops.
  `AnonymousCallsAreWarned`: where trust is enforced, `FromHeader` keeps requests without
  an identity out, so that the calls without one are exactly those the warning sees.
* `AnswerMatchesEffect`, `AnsweredWritesPersist`: statuses against effects, with
  statements that outlive the request they failed.
  `FaultyRequestsAre4xx`: what alerting sees is the outages and nothing else.
* `HoursMeanGrid`: four ways to ask for a range against one reference definition.
  `ShortcutsResolve`: a name in both maps means its range.
* `MetricsBalance`, `CountedAsAnswered`, `SpanAgreesWithMetrics`: three records of
  one request agree, panic or not. `CollectorsRegisteredOnce`: no starter is told of
  success too early. `NoSecretInSpan`: redaction against the request as it was sent.
* `ExpansionWithinCap`, `CircleIsComplete`, `GridMatchesEstimate`: constants and
  formulas that have to move together, and what the rounding does to them.
* `OverridesKeepBounds`, `ViewCanBeWrittenBack`: a value against its bounds and its own
  picture after two conversions. A default (never validated) and the mask of a secret
  are not promised to be accepted back.
* `KnownNamesResolve`: precedence of stations, shapes and shortcuts although the
  lock is released between the lookups, and countries under all of their names.
* `AxisFitsData`, `ResolvedIsStable`: derived axes, and resolving them again and again.
* `MarksShowReadings`: strokes, dots and bars against the readings and their gaps.
* `BandsMatchStatus`: the stripes drawn against `Classify`, two readings of one table.
* `RoseCountsEveryReading`: each reading in the one bin whose sector it faces.
* `SamplesChart`: rows in any order chart, or are refused for a reason of their own.

## 5. Proofs

TLAPS checks every theorem below for all values of the constants: any number of
goroutines, clients, requests or starters, any registry, table or environment. The
theorems about `TimeExpansion` and `KeyValidation` hold for the real width of int64
and time.Duration, and those about `KeyValidation` and `LocationExpansion` for the
format of float64, which TLC only sees scaled down.

| Module | Theorem | Says |
|---|---|---|
| `RuntimeConfigProofs` | `TypeCorrect` | `Spec => []TypeOK`; no value that fails validation is live |
| | `AcknowledgedWritesPersist` | `Spec => []AckedPersisted` |
| | `AcknowledgedWritesAreLive` | `Spec => []EffectiveLive` |
| | `ViewsAreSnapshots` | `Spec => []ViewIsSnapshot` |
| | `SwapsAreConfined` | `Spec => HotSwapOnly` |
| | `ManagerImplementsContract` | `Spec => ImplementsContract` |
| `FlagSetProofs` | `FlagSetTypes` | types, and who is in the critical section |
| | `FlagsStayAsTold` | `Spec => []FlagsAsTold` |
| | `FlagSetImplementsContract` | `Spec => Contract!Spec`, the safety part of `ImplementsFlagContract` |
| `TrustProofs` | `AdminServiceTypes` | `Spec => []TypeOK` |
| | `AnsweredWritesArePersisted` | `Spec => []AnsweredWritesPersist` |
| | `AnswersMatchEffects` | `Spec => []AnswerMatchesEffect` |
| | `FaultsAreBlamed` | `Spec => []FaultyRequestsAre4xx` |
| | `ServiceKeepsContracts` | `Spec => Manager!Spec /\ FlagStore!Spec`: the composition is made of behaviours of both contracts |
| | `EastWestTypes` | `TravelSpec => []TravelTypeOK`: types, and that a request under way is at a backend |
| | `AdminRoutesAreGuarded` | `TravelSpec => []AdminRunsAuthorised` |
| | `ClaimsStayAuthentic` | `TravelSpec => []ClaimsAreAuthentic` |
| | `AnonymousCallsAreKnown` | `TravelSpec => []AnonymousCallsAreWarned` |
| `KeyValidationProofs` | `GettersAreTyped` | `Spec => []GettersSeeTheirType` |
| | `OverridesAreBounded` | `Spec => []OverridesKeepBounds` |
| | `ViewsAreWrittenBack` | `Spec => []ViewIsWrittenBack`: the part of `ViewCanBeWrittenBack` about equal values |
| `TimeExpansionProofs` | `TimeTypes` | `Spec => []TypeOK` |
| | `ExpansionsAreCapped` | `Spec => []CappedExpansion` |
| | `ShortcutsAreResolved` | `Spec => []ShortcutsResolve` |
| | `HoursAreTheGrid` | `Spec => []HoursMeanGrid` |
| `LocationProofs` | `RegistryTypes` | `Spec => []TypeOK`, with the exclusion of the RWMutex |
| | `AnswersWereRegistered` | `Spec => []AnswerWasRegistered` |
| | `KnownNamesAreResolved` | `Spec => []KnownNamesResolve`, given `LookupIsFaithful` |
| | `ExpansionsAreBounded` | `ExpansionSpec => []ExpansionWithinCap` |
| | `CirclesAreComplete` | `ExpansionSpec => []CircleIsComplete` |
| | `CheckedGridsAreProduced` | `ExpansionSpec => []CheckedGridIsProduced`: the part of `GridMatchesEstimate` about a bbox |
| `ChartProofs` | `ChartKeepsItsShape` | `Spec => []ShapeInv`: types, valid before resolved, every resolved panel is what its given one resolves to |
| | `AxesFitTheirData` | `Spec => []AxisFitsData` |
| | `StripesMatchStatuses` | `Spec => []BandsMatchStatus` |
| | `ResolvedSpecsAreStable` | `Spec => []ResolvedIsStable` |
| `HTTPObserverProofs` | `CollectorsAreRegisteredOnce` | `Spec => []CollectorsRegisteredOnce` |
| | `ObserverTypes` | `Spec => [](TypeOK /\ GaugeInv)`: types, and the gauge is the number of requests inside |
| | `MetricsStayBalanced` | `Spec => []MetricsBalance` |
| | `SpansAgreeWithMetrics` | `Spec => []SpanAgreesWithMetrics` |
| | `CountsAreAnswers` | `Spec => []CountedAsAnswered` |
| | `NoSecretsInSpans` | `Spec => []NoSecretInSpan` |

### Assumptions

All are stated in the modules that declare the constants, and TLC evaluates them in
every run. Most say that markers ("no row", "nobody", "none") differ from what they are
not, and that arguments are declared:

* `NamesAssumption`, `DecodeAssumption`, `HistoryAssumption`, `ProcessAssumption`
  (Manager): mutable, restart-required and secret keys are registered; a row of a key
  decodes to a value or `Invalid`; defaults are values; boot is not a writer.
* `FlagAssumption`, `TogglerAssumption` (FlagSet): defaults for all declared flags;
  boot is not a toggler.
* `AdminAssumption`: names of keys and flags come from one URL space; "true" and
  "false" are among the bodies of a PUT; a service without a FlagSet knows no flag.
* `EastWestAssumption`: admins are users; no user and no backend is the marker.
* `RegistryAssumption`, `ShapeAssumption` (LocationRegistry): a goroutine parses or
  registers; no country has the zero value for an outline.
* `ObserverAssumption`: finitely many requests, whose URLs are records of the shape
  `IsURL`.
* `TimeAssumption`: what the constants of `time.go` satisfy: an hour has more ticks than
  `MaxTimestamps`, the longest resolution and `MaxTimestamps` hours both fit an int64,
  and so on; `MaxTimestamps > 3` (10000 in the code) is what lets the coarsened step,
  with its truncated division and the appended end, always fit. `InputAssumption`:
  times and hours are integers.
* `CapAssumption` (LocationExpansion): the relations between the caps of
  `location.go`. The points of a circle of `MaxRadiusKm` are within
  `MaxExpandedRadiusPoints`, as the comment there counts them; a ring is 3 km wide
  and the grid cap is at least 4. `UnitAssumption`: the steps 1, 0.5 and 0.25
  degree are whole numbers of grains (0.1 is rounded, as it is in the code).
  `InputAssumption`: numbers are numbers, and coordinates are floats.
  `HalvingAssumption`: there are enough halvings to bring every box down to one point.
* `ScaleAssumption`, `DecadeAssumption` (chart): between 3 and 63 ticks are aimed at (6
  in the code; 65 are the most a chart shows); the powers of ten reach past every axis,
  as those of a float64 do. `TimeAssumption`: no step of `timeTickSteps` is more than
  `targetTicks + 1` times the one before, and each is of whole milliseconds.
  `TextAssumption`, `ChartAssumption`, `SampleAssumption`: the fields of a spec and of a
  row have their types, and values are within `Reach`.
* `FloatAssumption` (`Floats`): the spacings of floats are the powers of two from one
  grain up, and there is an even number of significands. A grain is as fine as one
  wants it; only where the spacing ends is there no rounding to it.
* `ValidationAssumption` (`KeyValidation`): units and ticks are positive.
  `DeclarationAssumption`: a `Key` literal is well formed: `Bounds.Min` and `Bounds.Max`
  are each one number or absent, whatever it is.

`KnownNamesAreResolved` has one hypothesis, `LookupIsFaithful`: a provider has an
outline for a country under each of its names. That is a fact about the fold of
`NewShapeProvider` over its data, not about the concurrency; the run evaluates it
for its providers as part of `KnownNamesResolve`.

### The arguments

* **RuntimeConfig.** `TypeInv` adds to `TypeOK` that a goroutine is in its critical
  section iff it holds `writeMu` (`MutexInv`), and what is known of an accepted call
  (`CallInv`). Without `MutexInv` nothing forbids a second writer between clone and
  publish. `SafeInv` adds why the two promises survive: an overlay about to be published
  is not stale (`PublishInv`); between statement and return the row is in the table,
  unless a late statement overtook it (`PendingInv`); a writer about to return nil for a
  hot key has published (`PublishedInv`); a process that is down has nothing live
  (`DownInv`). A view needs `ViewInv`: its snapshot was live during the call, and the
  entries so far come from it. The refinement maps `due` to the entry of the lock holder
  that has persisted and not published, or to the loaded overlay; `OrphanInv` says that
  a late statement is a write the checks had accepted, so that `LateCommit` is the
  contract's `Stray`. `RefineStep` goes through the actions.
* **FlagSet.** The same shape. `LoadInv`: a loaded snapshot shows every row somebody
  knows about, since a late statement makes its row unknown. `CopyInv`: the copied
  snapshot differs from the live one in the flag of its caller only. `DueOf` and
  `RefineStep` map each step to one of `FlagContract` or to a stutter.
* **AdminService.** `Sound(c)` follows one request: it was admitted by both middlewares
  (`Admitted`), and between persist and publish the contract owes its publication
  (`ConfigOwed`, `FlagOwed`) and its row is in the table, unless a late statement has
  overtaken it (`SoundOvertaken`), which `effect` remembers until the answer.
  `Exclusive` says that at most one handler is in each write section; it rests on the
  contract's rule that nothing is persisted while something is due. `ContractsKept`
  shows every step to be one of both contracts or a stutter. A clause of
  `AnswerMatchesEffect` excepts local development (`AdminForAll`): with trust off and
  the admin opt-in on, no header is asked for.
* **EastWest.** `Sound(q)` by the stage of a request: the identity version arrives only
  with the authenticated user (`Identified`), the admin header only from the gateway or
  from a developer (`AdminHeaderEarned`), and what a peer will be sent is the captured
  part of what was received (`SnapshotTaken`), which is where the admin header is
  dropped on every hop. Which environment variable decides plays no part.
* **KeyValidation.** `RegistryInv`: names are unique, defaults have the type of their
  kind. `OverrideInv`: an override is what `Validate` returned for something a caller
  wrote; it is kept as an existential, so that bounds and write-back are theorems about
  `validateAgainst` alone. `Truncates`, `Wraps` and `Converts` are the integer arithmetic.
  Of floats two facts carry everything, for every format: rounding is monotone
  (`RoundingMonotone`), so that what lies within a bound is converted to something
  within the converted bound (`DurationOverride`), and it leaves what is a float alone
  (`RoundingIsFloat`), so that whole seconds come back (`WholeSeconds`). Both need the
  least fitting spacing (`LeastSpacing`) and what happens between two of them
  (`NextSpacing`).
* **TimeExpansion.** `WalkInv`: the i-th timestamp is i - 1 steps from the start, and the
  step fits, by `CoarserFits` where the code has coarsened it. That lemma is the heart:
  dividing the span by `MaxTimestamps - 2` and rounding up to whole hours always yields
  few enough points. `GridInv`: the step of an accepted resolution is the one asked for;
  `WalkedGrid` turns the finished walk into `Grid`. `ShortcutInv` follows a configured
  name to its range.
* **LocationRegistry.** `Sound(p)` by the lookup the parser is at: what an earlier lookup
  found is still there, because nothing is ever unregistered (`StillThere`,
  `KnownStill`), and an answer is justified by entries seen during the call
  (`Justified`), although the lock is released in between.
* **LocationExpansion.** `ExpansionInv` says for each kind what its loop keeps.
  `RingInv`: after k rings, of 3, 6, 9... points, the list holds 3k(k + 1)/2 points;
  `RingsFit` puts the last of them under the ceiling, so that the radius alone ends the
  loop. `RectangleInv`: whatever the rounding does, the bound of the walk leaves at most
  `maxGridPoints + 2` values, and `Snapped` adds one. By `GridSizes` a box has at least
  one point, and just one at `MaxDivisor`; `ThinnedVertices` that the stride leaves few
  enough vertices and at least one.
* **ChartSpec.** `ShapeInv` ties each resolved panel to the given one (`OutInv`), and
  resolution to a spec found valid (`PhaseInv`); values are within `Reach`, and pins
  within five times that, because the ends of an axis that was resolved are given as
  pins (`PinsInv`). *Axes:* `NiceDomainIs` is about the step chosen before the domain
  is widened: the widening adds less than a step at each end, so there are never more
  than `targetTicks + 2` ticks. `TimeStepIs` gives the step of the
  time axis, from which `TimeTicksAre` counts its ticks; since every step is of whole
  milliseconds, a tick lies within the axis also after its ends were cut to them.
  *Stripes:* `TwoBreaks` goes through the ways a value can lie against the thresholds of
  a parameter, in both directions; `StripesMatch` carries it to the stripes that are
  clipped to the axis. *Stability:* `SlotInv` says that the slots dealt so far are those
  of the series left to the palette, one each; their number is a cardinality
  (`DealtGrows`), which a valid spec keeps within the palette. `PriorInv` says that the
  panels given the second time are `Settled`: pinned ends, explicit units, marks and
  bands, slots inside the palette. A settled panel resolves to itself (`ResolvedAgain`),
  a settled spec is valid again (`ValidAgain`), the default rose excepted. `GivenAgain`
  and `SettledAxis` say the same of what is given the third time, ticks included:
  `AxisAgain` and `SettledEnds` show that ends of whole milliseconds are kept.
* **HTTPObserver.** `RegistrationInv` for the collectors. For the requests `Sound(q)` by
  place: `Ledger` says which collectors already hold the request, `Traced` what its span
  holds. A step moves one request only (`OthersSame`), so each lemma is about one.
  `GaugeInv` makes the gauge the cardinality of the requests inside, from which the
  balance follows.

The inductive invariants were checked by TLC, on the instances of the runs, before they
were proved.

### Only model-checked

* Liveness and the fair refinements (`CallsReturn`, `RegistryReturns`, `ExpansionEnds`,
  `ImplementsFairContract`, the liveness of `ImplementsFlagContract`): the prover has no
  ENABLED.
* `GridMatchesEstimate` for rectangles, and that a duration written back loses no more
  than a tick and is accepted where its bounds are whole (`ViewCanBeWrittenBack`): both
  need how far a rounded result is from the exact one, over a walk or two conversions.
  For the grid that is also a matter of the format: with coordinates up to 180 degrees,
  53 bits and a tolerance of a 10^9th of a step the errors of a walk stay far below the
  tolerance; the run has a globe of one degree for its ten bits.
* `LookupIsFaithful` and the rest of what a fold over data computes: induction over data
  is out of the prover's reach.
* `MarksShowReadings`, `RoseCountsEveryReading` and `SamplesChart`: what they are about
  is computed by folds and flattening over the points of a series, the readings of a
  rose and the rows of a sample (`SelectSeq`, `FlattenSeq`, a sum over a set). What
  those yield for every input is again induction over data. The run checks them over
  series, roses and rows that were chosen for their gaps, edges and orders.

## 6. Where code and comments disagree

`time_span` is a run that TLC refutes: `stepTimestamps` sizes the list with
`end.Sub(start)`, which saturates at about 292 years, and walks the whole span, so
`CappedForEverySpan` fails although `time/time.go:71` says that "MaxTimestamps caps
how many timestamps a single time parameter may expand to". `CappedExpansion` is
the same statement for spans that are durations, and holds.

Also met while modelling, and visible in the models, without a run of their own:

* `time/time.go:350` "The returned duration is always strictly positive": the
  hours of the slash form are multiplied without a bound and wrap
  (`TimeExpansion`, `Wrap`). `HoursMeanGrid` is limited to resolutions up to
  `MaxResolutionHours` for that reason.
* `claims/claims.go:76` promises a warning "when an east-west call is attempted
  with no trust headers attached": `FromHeader` always attaches a snapshot, if only
  an empty one, and the warning is for contexts without any (`EastWest`, `Warn`). Where
  trust is switched off such a call goes out without a warning; where it is enforced
  the request never gets that far, which is what `AnonymousCallsAreWarned` states.
* `runtimeconfig/registry.go:36` "an inclusive numeric range", in seconds for durations:
  the bounds are tested before the conversion and say nothing of its result. A duration
  key without an upper bound accepts 1e10 s, which no int64 of nanoseconds holds and
  which becomes whatever the build makes of it, in the worst case something below its
  `Min`; a key with a `Min` of 1.001 accepts 1.001 and stores 1.000999999 s.
  `OverridesKeepBounds` states both exceptions (`OpenEnded`, `Ticks`).
* A duration that is not of whole seconds may come back from the merged view a
  nanosecond off, since `Seconds` and `ToDuration` both round; `ViewCanBeWrittenBack`
  allows one tick. It does not speak of defaults, which are never validated, nor of
  secrets, whose view is a mask.
* `runtimeconfig/store.go:16` "Upsert persists a single override": what it has persisted
  may be overwritten by an older write of the same key that failed for its caller and
  that Postgres executes late (`LateCommit`, `LateConfig`, `LateFlag`).
  `AckedPersisted`, `FlagsAsTold` and `AnsweredWritesPersist` state the exception: from
  then on no caller knows the row.
* `location/location.go:1034` says a rectangle is "silently coarsened if the point count
  would exceed maxGridPoints": of one built by hand far off the globe, where adding the
  step changes nothing, the walk stops at the bound of its loop on both axes, with up to
  (maxGridPoints+3)^2 = 64009 points, as `bounds_test.go:145` allows.
  `ExpansionWithinCap` has that cap for rectangles.
* `location/location.go:1062`: the estimate may be one more along an axis than the grid
  has values: 1.1 - 0.9 is a little more than 0.2, so that a step of 0.1 is counted three
  times, and walked twice, within the tolerance. `GridMatchesEstimate` has it so.
* `location/location.go:1239`: a polygon built by hand with vertices as far apart as 1e200
  has an area of Inf - Inf, the step is NaN and the widening never ends (`WidenStep`).
  `ExpansionEnds` excepts it (`NoArea`), and it alone.
* `location/location.go:852` "it never allocates more than MaxBboxGridPoints": a finite
  bbox whose span overflows ends at density 0 with Inf * 0 rows, no number, which
  converts to an int as the platform has it: `make` panics, or there are no points
  (`ExpandOverflow`).
* `observability/redact.go:9` keeps credentials out of the span's attributes; the status
  text of the span holds the value of a panic as it is (`tracing_middleware.go:102`), and
  with it what that prints of the URL. `NoSecretInSpan` states the exception.
* `http.route` of a span does not ask for the template that a handler stored with
  `WithRouteTemplate`, which the metrics do: the span stays at "/unknown"
  (`SpanRoute`, `PathLabel`). `SpanAgreesWithMetrics` states it.
* `chart/build.go:13` "carry identical colours, bands, ticks and labels": for a spec that
  is resolved again, as `Render` does with one that `JSON` has marshalled, the
  ticks of a y axis are laid anew, as for an axis that its caller pinned; and a time axis
  that started or ended within a millisecond has been cut to whole ones, which may change
  its ticks, and makes it an hour long if it fell within one. `ResolvedIsStable` has what
  stays. From the second resolution on nothing changes.
* `runtimeconfig/registry.go:31` names a JSON type for every kind: `null` is
  accepted for each and becomes its zero value, which then has to pass the bounds
  (`KeyValidation`, `validateAgainst`).
* `observability/metrics.go:148` "The recovery middleware answers 500": not for a
  response that was already sent. `CountedAsAnswered` states the exception.
* `chart/spec.go:182` "no recycled colours": a dealt slot may equal a pinned one.
  `ResolvedIsStable` speaks of dealt slots only.
* `chart/scale.go:163` "00:00 means local midnight": `Truncate` works on absolute
  time, so daily ticks of a zone outside UTC are not at its midnight (`timeTicks`).
* `chart/scale.go:154` lists the steps a time axis may tick on: an axis longer than
  `targetTicks` times the longest one is ticked every 30 days all the same, up to 65
  times, and has no tick beyond. `AxisFitsData` states the bound for the others. One
  shorter than a minute may have no tick at all.
* `chart/windrose.go:14` "Must divide 360. Default 16": 16 does not divide 360. The
  default is accepted where it is left out and refused where it is spelled out, and so
  a resolved rose with the default is refused when it is resolved again.
  `ResolvedIsStable` states the exception.
* `chart/windrose.go:39` calls `MaxFraction` "the outer ring": the wedges start at the
  calm disc, so with calm readings the fullest sector ends beyond that share
  (`Wedges`). `RoseCountsEveryReading` measures from the disc.
* `chart/build.go:436` says bars grow from the baseline: a series of positive values on
  an axis that reaches below zero grows from the bottom of the plot, and one of negative
  values on an axis without zero has its base outside (`barMark`). `MarksShowReadings`
  states where they start at zero.
* The wash of a band joins the samples that have both bounds, over those that have not
  (`bandMark`), while its line stops at gaps.
* `time/time.go:153` "all resolve identically": the input is lower-cased, the names of
  the maps are not, so that a shortcut configured with a capital letter is never found.
  And a `range_offset` that is skipped for its hours is still in the other map, where it
  means the present moment. `ShortcutsResolve` states both conditions.
* A path redactor that panics in a tracing middleware mounted outside the metrics leaves
  its request uncounted (`RedactorPanics`); `MetricsBalance` states the exception.

## 7. Not modelled

* pgxstore's SQL, quoting and migration: database I/O. Its results are the
  success, failure and late execution of `RuntimeConfig`.
* Logger and tracer set-up: one-time wiring at process start.
* `observation`: pure floating-point conversions of one record.
* The `httputils` senders that only services outside this repository call.
* The embedded country data, its coordinates and its generator.
* Text: RFC3339 and coordinate parsing, claim accessors, error wording.
* Spherical geometry and the inside test of polygons: left open as free choices.
* Chart layout, fonts, labels, colour tables, SVG and PNG encoding.
* Writes past the accessors of `location`'s exported maps, which ADR-001
  deprecates.

## 8. Plan

Done: every stateful component is modelled. Proved are the safety properties of the
Manager, the FlagSet, the admin surface, the trust contract, the registry of keys, the
expansion of times and of locations, the location registries, the HTTP observer, and
the axes, stripes and stability of charts.

Open:

1. Composition: replies in `ConfigContract`, so that it tells an acknowledged write
   from a failed one.
2. `RoseCountsEveryReading` as a sum over sectors, and `MarksShowReadings` with the runs of
   a line as sets of intervals: both would then need no induction over a sequence.
3. `LookupIsFaithful` from the last feature that has a key, instead of the fold.
