------------------------- MODULE HTTPObserverProofs -------------------------
(***************************************************************************)
(* Proofs about HTTPObserver and CollectorRegistration, for any number of  *)
(* requests in flight, of starters and of URLs, in either order of the     *)
(* middlewares and after a registration with either outcome.               *)
(***************************************************************************)
EXTENDS HTTPObserver, FiniteSetTheorems, TLAPS

(* The inductive invariant: what is known of one request, by where it is. *)

Unwinding == {"unwind", "dec", "count", "observe", "recovery", "done"}

\* The place of the metrics middleware in the chain.
MPos == IF chain[1] = "metrics" THEN 1 ELSE 2

Shape ==
    /\ chain \in Chains /\ redactor \in BOOLEAN /\ route \in [Requests -> Routes]
    /\ pc \in [Requests -> {"arrives", "enter", "handler"} \cup Unwinding]
    /\ depth \in [Requests -> 0..2]
    /\ panic \in [Requests -> {NoPanic, "handler", "redactor"}]
    /\ code \in [Requests -> Codes] /\ written \in [Requests -> BOOLEAN]
    /\ DOMAIN url = Requests /\ DOMAIN template = Requests /\ DOMAIN quoted = Requests
    /\ DOMAIN total = Requests /\ DOMAIN observed = Requests
    /\ DOMAIN spans = Requests
    /\ \A q \in Requests : DOMAIN spans[q] = {"state", "route", "status", "error", "text", "url"}

\* How deep in the chain a request is; a redactor that panicked outside the
\* metrics keeps it out of them.
Place(q) ==
    /\ pc[q] \in {"arrives", "recovery", "done"} => depth[q] = 0
    /\ pc[q] = "enter" => depth[q] \in {0, 1}
    /\ pc[q] = "handler" => depth[q] = 2
    /\ pc[q] = "unwind" => depth[q] \in {1, 2}
    /\ pc[q] \in {"dec", "count", "observe"} => depth[q] = MPos /\ route[q] # "metrics"
    /\ panic[q] = "redactor" /\ MPos = 2 => depth[q] < 2
    /\ template[q] # NoTemplate => route[q] = "other"

\* A request unwinds after a panic or with its response sent.
Outcome(q) ==
    /\ pc[q] \notin Unwinding => panic[q] = NoPanic
    /\ pc[q] \in Unwinding /\ panic[q] = NoPanic => written[q]
    /\ pc[q] = "done" => written[q]

PastMetrics(q) ==
    \/ pc[q] \in {"recovery", "done"}
    \/ pc[q] = "unwind" /\ depth[q] < MPos

Missed(q) == route[q] = "metrics" \/ (panic[q] = "redactor" /\ MPos = 2)

CountedBy(q) == pc[q] = "observe" \/ (PastMetrics(q) /\ ~Missed(q))
ObservedBy(q) == PastMetrics(q) /\ ~Missed(q)

\* What the counter and the histogram hold of a request.
Ledger(q) ==
    /\ total[q] = IF CountedBy(q)
                    THEN <<[path |-> PathLabel(q), status |-> RecordedStatus(q)]>>
                    ELSE <<>>
    /\ observed[q] = IF ObservedBy(q) THEN <<PathLabel(q)>> ELSE <<>>

\* What the span holds of it.
Traced(q) ==
    /\ pc[q] = "arrives" => spans[q] = NoSpan
    /\ spans[q].state = "ended" =>
         /\ pc[q] \in Unwinding
         /\ spans[q].status = RecordedStatus(q)
         /\ spans[q].error <=> RecordedStatus(q) >= 500
    /\ spans[q].state # "none" => spans[q].route = SpanRoute(q)
    /\ depth[q] >= 3 - MPos /\ ~Skips("tracing", q) => spans[q].state # "none"
    /\ spans[q].text \in {NoUrl, quoted[q]}
    /\ spans[q].text # NoUrl => spans[q].state = "ended" /\ panic[q] # NoPanic
    /\ url[q] # NoUrl => IsURL(url[q])
    /\ spans[q].url \in {NoUrl, RedactURLWithPath(url[q], redactor)}

Sound(q) == Place(q) /\ Outcome(q) /\ Ledger(q) /\ Traced(q)

RequestInv == \A q \in Requests : Sound(q)

\* The requests the gauge counts.
Gauged(q) ==
    route[q] # "metrics" /\ pc[q] \notin {"count", "observe"} /\ depth[q] >= MPos

GaugeInv == inFlight = Cardinality({q \in Requests : Gauged(q)})

(* Of the registration: the Once lets one starter at a time inside, which has
   registered the collectors before the one it is at. *)

Before(i) == {collectors[j] : j \in 1..(i - 1)}

Verdict ==
    \/ registerErr = "nil" /\ registered = CollectorNames
    \/ \E i \in 1..3 : /\ registerErr = collectors[i] /\ registerErr \in foreign
                       /\ registered = Before(i)

RegistrationInv ==
    /\ at \in [Starters -> 0..4]
    /\ DOMAIN returned = Starters
    /\ once \in {"new", "running", "done"}
    /\ registered \cap foreign = {}
    /\ once = "new" => registered = {} /\ \A s \in Starters : at[s] = 0
    /\ once = "running" => \A s \in Starters : at[s] \in 0..3
    /\ once # "done" => registerErr = "nil"
    /\ \A s \in Starters : at[s] \in 1..3 =>
         /\ once = "running" /\ registered = Before(at[s])
         /\ \A t \in Starters : t # s => at[t] = 0
    /\ once = "done" => Verdict
    /\ \A s \in Starters : returned[s] # Pending =>
         once = "done" /\ returned[s] = registerErr

-----------------------------------------------------------------------------
(* RegisterDefaultCollectors. *)

LEMMA CollectorFacts ==
    /\ Len(collectors) = 3 /\ DOMAIN collectors = 1..3
    /\ \A i, j \in 1..3 : collectors[i] = collectors[j] => i = j
    /\ \A i \in 1..3 : collectors[i] # "nil"
    /\ CollectorNames = Before(4)
  BY DEF collectors, CollectorNames, Before

\* The collectors before one do not contain it.
LEMMA BeforeGrows ==
    /\ Before(1) = {}
    /\ \A i \in 1..3 : collectors[i] \notin Before(i)
                       /\ Before(i + 1) = Before(i) \cup {collectors[i]}
  BY DEF Before, collectors

LEMMA RegistrationStart == RegistrationInit => RegistrationInv
  BY DEF RegistrationInit, RegistrationInv

LEMMA RegistrationStep ==
    ASSUME RegistrationInv,
           \/ \E s \in Starters : RegisterDefaultCollectors(s)
           \/ \E x \in CollectorNames : RegisterCollector(x)
           \/ UNCHANGED registration
    PROVE  RegistrationInv'
  <1>1. ASSUME NEW s \in Starters, Do(s) PROVE RegistrationInv'
    <2>1. CASE once = "new"
      BY <1>1, <2>1, BeforeGrows DEF Do, RegistrationInv
    <2>2. CASE once # "new"
      <3>1. once = "done" /\ at' = [at EXCEPT ![s] = 4]
            /\ UNCHANGED <<once, registered, foreign, registerErr, returned>>
        BY <1>1, <2>2, CollectorFacts DEF Do, RegistrationInv
      <3>2. QED
        BY <3>1 DEF RegistrationInv, Verdict
    <2>3. QED
      BY <2>1, <2>2
  <1>2. ASSUME NEW s \in Starters, Register(s) PROVE RegistrationInv'
    <2> DEFINE x == collectors[at[s]]
    <2>1. /\ at[s] \in 1..3 /\ once = "running" /\ registered = Before(at[s])
          /\ registerErr = "nil" /\ \A t \in Starters : t # s => at[t] = 0
          /\ \A t \in Starters : returned[t] = Pending
          /\ UNCHANGED <<foreign, returned>>
      BY <1>2, CollectorFacts DEF Register, RegistrationInv
    <2>2. CASE x \in registered \cup foreign
      <3>1. /\ registerErr' = x /\ at' = [at EXCEPT ![s] = 4] /\ registered' = registered
            /\ x \in foreign
        BY <1>2, <2>1, <2>2, CollectorFacts, BeforeGrows DEF Register
      <3>2. once' = "done" /\ at'[s] = 4 /\ at' \in [Starters -> 0..4]
        BY <1>2, <2>1, <3>1, CollectorFacts DEF Register, RegistrationInv
      <3>3. Verdict'
        BY <2>1, <3>1 DEF Verdict
      <3>4. QED
        BY <2>1, <3>1, <3>2, <3>3 DEF RegistrationInv
    <2>3. CASE x \notin registered \cup foreign
      <3>1. /\ registered' = Before(at[s] + 1) /\ registerErr' = "nil"
            /\ at' = [at EXCEPT ![s] = at[s] + 1]
            /\ registered' \cap foreign = {}
        BY <1>2, <2>1, <2>3, BeforeGrows DEF Register, RegistrationInv
      <3>2. /\ at'[s] = at[s] + 1 /\ at' \in [Starters -> 0..4]
            /\ once' = IF at[s] + 1 > 3 THEN "done" ELSE "running"
        BY <1>2, <2>1, <3>1, CollectorFacts DEF Register, RegistrationInv
      <3>3. CASE at[s] = 3
        <4>1. registered' = CollectorNames /\ once' = "done" /\ Verdict'
          BY <3>1, <3>2, <3>3, CollectorFacts DEF Verdict
        <4>2. QED
          BY <2>1, <3>1, <3>2, <3>3, <4>1 DEF RegistrationInv
      <3>4. CASE at[s] # 3
        BY <2>1, <3>1, <3>2, <3>4 DEF RegistrationInv
      <3>5. QED
        BY <3>3, <3>4
    <2>4. QED
      BY <2>2, <2>3
  <1>3. ASSUME NEW s \in Starters, Return(s) PROVE RegistrationInv'
    <2>1. once = "done"
      BY <1>3, CollectorFacts DEF Return, RegistrationInv
    <2>2. QED
      BY <1>3, <2>1 DEF Return, RegistrationInv, Verdict
  <1>4. ASSUME NEW x \in CollectorNames, RegisterCollector(x) PROVE RegistrationInv'
    BY <1>4 DEF RegisterCollector, RegistrationInv, Verdict
  <1>5. CASE UNCHANGED registration
    BY <1>5 DEF registration, RegistrationInv, Verdict
  <1>6. QED
    BY <1>1, <1>2, <1>3, <1>4, <1>5 DEF RegisterDefaultCollectors

LEMMA RegistrationInvariant == Spec => []RegistrationInv
  <1>1. Init => RegistrationInv
    BY RegistrationStart DEF Init
  <1>2. RegistrationInv /\ [Next]_vars => RegistrationInv'
    <2> SUFFICES ASSUME RegistrationInv, [Next]_vars PROVE RegistrationInv'
      OBVIOUS
    <2>1. CASE Start
      BY <2>1, RegistrationStep DEF Start
    <2>2. ASSUME NEW q \in Requests, Serve(q) PROVE UNCHANGED registration
      BY <2>2 DEF Serve, Arrive, EnterMetrics, EnterTracing, RedactorPanics, StoreTemplate,
           Write, HandlerReturns, HandlerPanics, UnwindSkipped, UnwindMetrics, Dec, Count,
           Observe, EndSpan, Recovery, config
    <2>3. CASE UNCHANGED vars
      BY <2>3, RegistrationStep DEF vars, config
    <2>4. QED
      BY <2>1, <2>2, <2>3, RegistrationStep DEF Next
  <1>3. QED
    BY <1>1, <1>2, PTL DEF Spec

\* Every starter that calls RegisterDefaultCollectors, whenever it does, gets the
\* one true verdict: all the collectors are registered, or the name of the first
\* one is given that another package had taken.
THEOREM CollectorsAreRegisteredOnce == Spec => []CollectorsRegisteredOnce
  <1>1. RegistrationInv => CollectorsRegisteredOnce
    <2> SUFFICES ASSUME RegistrationInv, NEW s \in Starters, returned[s] # Pending
                 PROVE  /\ returned[s] = "nil" => registered = CollectorNames
                        /\ returned[s] # "nil" => \E i \in DOMAIN collectors :
                              /\ collectors[i] = returned[s] /\ returned[s] \in foreign
                              /\ registered = {collectors[j] : j \in 1..(i - 1)}
                        /\ \A t \in Starters : returned[t] \in {Pending, returned[s]}
      BY DEF CollectorsRegisteredOnce
    <2>1. Verdict /\ returned[s] = registerErr
      BY DEF RegistrationInv
    <2>2. \A t \in Starters : returned[t] \in {Pending, returned[s]}
      BY <2>1 DEF RegistrationInv
    <2>3. CASE registerErr = "nil"
      BY <2>1, <2>2, <2>3, CollectorFacts DEF Verdict
    <2>4. CASE registerErr # "nil"
      BY <2>1, <2>2, <2>4, CollectorFacts DEF Verdict, Before
    <2>5. QED
      BY <2>3, <2>4
  <1>2. QED
    BY <1>1, RegistrationInvariant, PTL

-----------------------------------------------------------------------------
(* Requests: types, and that a step moves one request only. *)

LEMMA ChainFacts ==
    ASSUME Shape
    PROVE  /\ MPos \in {1, 2} /\ chain[MPos] = "metrics" /\ chain[3 - MPos] = "tracing"
           /\ \A d \in {1, 2} : (chain[d] = "metrics" <=> d = MPos)
                                /\ (chain[d] = "tracing" <=> d # MPos)
           /\ chain[1] = "tracing" <=> MPos = 2
  BY DEF Shape, Chains, MPos

LEMMA ShapeInit == Init => Shape
  BY DEF Init, Shape, Routes, Codes, NoSpan

LEMMA ShapeStep == Shape /\ RequestInv /\ [Next]_vars => Shape'
  <1> SUFFICES ASSUME Shape, RequestInv, [Next]_vars PROVE Shape'
    OBVIOUS
  <1> USE DEF config, metrics, GoTo, Leave
  <1>1. ASSUME NEW q \in Requests, NEW u \in Urls \cup {NoUrl}, Arrive(q, u) PROVE Shape'
    BY <1>1 DEF Arrive, Shape
  <1>2. ASSUME NEW q \in Requests, EnterMetrics(q) PROVE Shape'
    BY <1>2 DEF EnterMetrics, Shape, RequestInv, Sound, Place
  <1>3. ASSUME NEW q \in Requests, NEW sampled \in BOOLEAN, EnterTracing(q, sampled)
        PROVE  Shape'
    BY <1>3 DEF EnterTracing, Shape, RequestInv, Sound, Place
  <1>4. ASSUME NEW q \in Requests, NEW u, RedactorPanics(q, u) PROVE Shape'
    BY <1>4 DEF RedactorPanics, Shape, RequestInv, Sound, Place, Unwinding
  <1>5. ASSUME NEW q \in Requests, StoreTemplate(q) PROVE Shape'
    BY <1>5 DEF StoreTemplate, Shape
  <1>6. ASSUME NEW q \in Requests, NEW c \in Codes, Write(q, c) PROVE Shape'
    BY <1>6 DEF Write, Shape
  <1>7. ASSUME NEW q \in Requests, HandlerReturns(q) \/ \E u \in {NoUrl, url[q]} : HandlerPanics(q, u)
        PROVE  Shape'
    BY <1>7 DEF HandlerReturns, HandlerPanics, Shape, Unwinding
  <1>8. ASSUME NEW q \in Requests, UnwindSkipped(q) PROVE Shape'
    BY <1>8 DEF UnwindSkipped, Shape, Unwinding, RequestInv, Sound, Place
  <1>9. ASSUME NEW q \in Requests, UnwindMetrics(q) \/ Dec(q) \/ Count(q) PROVE Shape'
    BY <1>9 DEF UnwindMetrics, Dec, Count, Shape, Unwinding
  <1>10. ASSUME NEW q \in Requests, Observe(q) PROVE Shape'
    BY <1>10, ChainFacts DEF Observe, Shape, Unwinding, RequestInv, Sound, Place
  <1>11. ASSUME NEW q \in Requests, EndSpan(q) PROVE Shape'
    BY <1>11 DEF EndSpan, Shape, Unwinding, RequestInv, Sound, Place
  <1>12. ASSUME NEW q \in Requests, Recovery(q) PROVE Shape'
    <2>1. code' \in [Requests -> Codes]
      BY <1>12 DEF Recovery, Shape, Codes
    <2>2. written' \in [Requests -> BOOLEAN]
      BY <1>12 DEF Recovery, Shape
    <2>3. QED
      BY <1>12, <2>1, <2>2 DEF Recovery, Shape, Unwinding
  <1>13. CASE Start \/ UNCHANGED vars
    BY <1>13 DEF Start, vars, Shape
  <1>14. QED
    BY <1>1, <1>2, <1>3, <1>4, <1>5, <1>6, <1>7, <1>8, <1>9, <1>10, <1>11, <1>12, <1>13
       DEF Next, Serve

\* A step of another request leaves all of this alone.
Same(p) ==
    /\ chain' = chain /\ redactor' = redactor /\ route' = route
    /\ url'[p] = url[p] /\ template'[p] = template[p] /\ pc'[p] = pc[p]
    /\ depth'[p] = depth[p] /\ panic'[p] = panic[p] /\ quoted'[p] = quoted[p] /\ code'[p] = code[p]
    /\ written'[p] = written[p] /\ total'[p] = total[p] /\ observed'[p] = observed[p]
    /\ spans'[p] = spans[p]

\* What is known of a request depends on its own state and on the configuration.
LEMMA SoundKept ==
    ASSUME NEW q \in Requests, Sound(q), Same(q)
    PROVE  Sound(q)'
  <1> USE DEF Same
  <1>1. Place(q)' /\ Outcome(q)'
    BY DEF Sound, Place, Outcome, MPos
  <1>2. /\ PathLabel(q)' = PathLabel(q) /\ RecordedStatus(q)' = RecordedStatus(q)
        /\ CountedBy(q)' = CountedBy(q) /\ ObservedBy(q)' = ObservedBy(q)
    BY DEF PathLabel, RecordedStatus, CountedBy, ObservedBy, PastMetrics, Missed, MPos
  <1>3. Ledger(q)'
    BY <1>2 DEF Sound, Ledger
  <1>4. Traced(q)'
    BY <1>2 DEF Sound, Traced, SpanRoute, Skips, MPos
  <1>5. QED
    BY <1>1, <1>3, <1>4 DEF Sound

LEMMA OthersSame ==
    ASSUME Shape, NEW q \in Requests, Serve(q), NEW p \in Requests, p # q
    PROVE  Same(p)
  <1> USE DEF config, metrics, GoTo, Leave, Shape, Same
  <1>1. ASSUME NEW u \in Urls \cup {NoUrl}, Arrive(q, u) PROVE Same(p)
    BY <1>1 DEF Arrive
  <1>2. ASSUME EnterMetrics(q) \/ \E sampled \in BOOLEAN : EnterTracing(q, sampled)
        PROVE  Same(p)
    BY <1>2 DEF EnterMetrics, EnterTracing
  <1>3. ASSUME \/ \E u : RedactorPanics(q, u) \/ HandlerPanics(q, u)
               \/ StoreTemplate(q) \/ HandlerReturns(q)
        PROVE  Same(p)
    BY <1>3 DEF RedactorPanics, StoreTemplate, HandlerReturns, HandlerPanics
  <1>4. ASSUME NEW c \in Codes, Write(q, c) PROVE Same(p)
    BY <1>4 DEF Write
  <1>5. ASSUME UnwindSkipped(q) \/ UnwindMetrics(q) \/ Dec(q) PROVE Same(p)
    BY <1>5 DEF UnwindSkipped, UnwindMetrics, Dec
  <1>6. ASSUME Count(q) \/ Observe(q) \/ EndSpan(q) PROVE Same(p)
    BY <1>6 DEF Count, Observe, EndSpan
  <1>7. ASSUME Recovery(q) PROVE Same(p)
    BY <1>7 DEF Recovery
  <1>8. QED
    BY <1>1, <1>2, <1>3, <1>4, <1>5, <1>6, <1>7 DEF Serve

-----------------------------------------------------------------------------
(* The steps of the request itself. *)

\* Before it unwinds, a request has not been counted and its span has not ended.
LEMMA BeforeUnwinding ==
    ASSUME NEW q \in Requests, Sound(q), pc[q] \notin Unwinding
    PROVE  /\ total[q] = <<>> /\ observed[q] = <<>> /\ panic[q] = NoPanic
           /\ spans[q].state # "ended"
  BY DEF Sound, Ledger, Outcome, Traced, CountedBy, ObservedBy, PastMetrics, Unwinding

\* On the way in the ledger stays empty.
LEMMA InwardLedger ==
    ASSUME NEW q \in Requests, total'[q] = <<>>, observed'[q] = <<>>,
           pc'[q] \in {"arrives", "enter", "handler", "dec", "count"}
             \/ (pc'[q] = "unwind" /\ (depth'[q] >= MPos' \/ Missed(q)')),
           depth'[q] \in 0..2, MPos' \in {1, 2}
    PROVE  Ledger(q)'
  BY DEF Ledger, CountedBy, ObservedBy, PastMetrics

LEMMA EnterSound ==
    ASSUME Shape, NEW q \in Requests, Sound(q),
           \/ \E u \in Urls \cup {NoUrl} : Arrive(q, u)
           \/ EnterMetrics(q)
           \/ \E sampled \in BOOLEAN : EnterTracing(q, sampled)
    PROVE  Sound(q)'
  <1> USE DEF config, metrics, GoTo
  <1>1. pc[q] \notin Unwinding /\ pc[q] \in {"arrives", "enter"}
    BY DEF Arrive, EnterMetrics, EnterTracing, Unwinding
  <1>2. /\ total'[q] = <<>> /\ observed'[q] = <<>> /\ panic'[q] = NoPanic
        /\ UNCHANGED <<chain, redactor, route, template, panic, quoted, code, written>>
        /\ MPos' = MPos /\ SpanRoute(q)' = SpanRoute(q)
    BY <1>1, BeforeUnwinding DEF SpanRoute, Arrive, EnterMetrics, EnterTracing, MPos
  <1>3. /\ pc'[q] \in {"enter", "handler"}
        /\ pc'[q] = "enter" => depth'[q] \in {0, 1}
        /\ pc'[q] = "handler" => depth'[q] = 2
        /\ depth'[q] \in 0..2
    <2>1. pc[q] = "arrives" => depth[q] = 0
      BY DEF Sound, Place
    <2>2. pc[q] = "enter" => depth[q] \in {0, 1}
      BY DEF Sound, Place
    <2>3. \/ pc[q] = "arrives" /\ pc'[q] = "enter" /\ depth'[q] = depth[q]
          \/ /\ pc[q] = "enter" /\ depth'[q] = depth[q] + 1
             /\ pc'[q] = IF depth[q] + 1 = 2 THEN "handler" ELSE "enter"
      BY DEF Arrive, EnterMetrics, EnterTracing, Shape
    <2>4. QED
      BY <2>1, <2>2, <2>3
  <1>4. Place(q)' /\ Outcome(q)'
    <2>1. NoPanic # "redactor"
      BY Zenon DEF NoPanic
    <2>2. QED
      BY <1>2, <1>3, <2>1 DEF Place, Outcome, Unwinding, Sound
  <1>5. Ledger(q)'
    BY <1>2, <1>3, InwardLedger, ChainFacts
  <1>6. Traced(q)'
    <2>1. ASSUME NEW u \in Urls \cup {NoUrl}, Arrive(q, u) PROVE Traced(q)'
      <3>1. url'[q] = u /\ spans'[q] = NoSpan /\ pc'[q] = "enter" /\ depth'[q] = 0
        BY <2>1 DEF Arrive, Shape, Sound, Traced, Place
      <3>2. NoSpan.state = "none" /\ NoSpan.text = NoUrl /\ NoSpan.url = NoUrl
        BY DEF NoSpan
      <3>3. QED
        BY <1>2, <3>1, <3>2, ObserverAssumption, ChainFacts DEF Traced
    <2>2. CASE EnterMetrics(q)
      <3>1. /\ depth[q] + 1 = MPos /\ depth'[q] = depth[q] + 1 /\ depth[q] \in {0, 1}
            /\ spans' = spans /\ url' = url /\ pc'[q] # "arrives"
        BY <1>3, <2>2, ChainFacts DEF EnterMetrics, Shape, Sound, Place
      <3>2. /\ depth'[q] >= 3 - MPos' => depth[q] >= 3 - MPos
            /\ Skips("tracing", q)' = Skips("tracing", q)
        BY <1>2, <3>1, ChainFacts DEF Skips
      <3>3. QED
        BY <1>1, <1>2, <3>1, <3>2, BeforeUnwinding DEF Sound, Traced
    <2>3. ASSUME NEW sampled \in BOOLEAN, EnterTracing(q, sampled) PROVE Traced(q)'
      <3>1. url' = url /\ redactor' = redactor
        BY <2>3 DEF EnterTracing
      <3>2. /\ spans'[q].state # "ended" /\ spans'[q].text = NoUrl
            /\ ~Skips("tracing", q) => spans'[q].state # "none"
            /\ spans'[q].state # "none" => spans'[q].route = SpanRoute(q)
            /\ spans'[q].url \in {NoUrl, RedactURLWithPath(url[q], redactor)}
        <4>1. /\ spans[q].state # "ended" /\ spans[q].text = NoUrl
              /\ spans[q].state # "none" => spans[q].route = SpanRoute(q)
              /\ spans[q].url \in {NoUrl, RedactURLWithPath(url[q], redactor)}
          BY <1>1, BeforeUnwinding DEF Sound, Traced
        <4>2. CASE Skips("tracing", q)
          BY <2>3, <4>1, <4>2 DEF EnterTracing
        <4>3. CASE ~Skips("tracing", q)
          <5>1. spans'[q] = [spans[q] EXCEPT !.state = "started", !.route = SpanRoute(q),
                  !.url = IF sampled THEN RedactURLWithPath(url[q], redactor) ELSE NoUrl]
            BY <2>3, <4>3 DEF EnterTracing, Shape
          <5>2. QED
            BY <4>1, <5>1 DEF Shape
        <4>4. QED
          BY <4>2, <4>3
      <3>3. QED
        BY <1>2, <1>3, <3>1, <3>2 DEF Sound, Traced, Skips
    <2>4. QED
      BY <2>1, <2>2, <2>3
  <1>7. QED
    BY <1>4, <1>5, <1>6 DEF Sound

LEMMA HandlerSound ==
    ASSUME Shape, NEW q \in Requests, Sound(q),
           \/ StoreTemplate(q) \/ HandlerReturns(q) \/ \E u : HandlerPanics(q, u)
           \/ \E c \in Codes : Write(q, c)
    PROVE  Sound(q)'
  <1> USE DEF config, metrics, GoTo
  <1>1. pc[q] = "handler" /\ pc[q] \notin Unwinding /\ depth[q] = 2
    BY DEF StoreTemplate, HandlerReturns, HandlerPanics, Write, Unwinding, Sound, Place
  <1>2. /\ total'[q] = <<>> /\ observed'[q] = <<>> /\ spans'[q] = spans[q]
        /\ UNCHANGED <<chain, redactor, route, url>> /\ depth'[q] = 2
        /\ MPos' = MPos /\ SpanRoute(q)' = SpanRoute(q) /\ pc'[q] \in {"handler", "unwind"}
    BY <1>1, BeforeUnwinding
       DEF SpanRoute, StoreTemplate, HandlerReturns, HandlerPanics, Write, MPos, Shape
  <1>3. /\ pc'[q] = "handler" => panic'[q] = NoPanic
        /\ pc'[q] = "unwind" /\ panic'[q] = NoPanic => written'[q]
        /\ panic'[q] \in {NoPanic, "handler"}
        /\ template'[q] # NoTemplate => route[q] = "other"
    <2>1. panic[q] = NoPanic /\ NoPanic # "handler"
      BY <1>1, BeforeUnwinding, Zenon DEF NoPanic
    <2>2. QED
      BY <1>1, <2>1
         DEF StoreTemplate, HandlerReturns, HandlerPanics, Write, Shape, Sound, Place
  <1>4. Place(q)' /\ Outcome(q)'
    <2>1. NoPanic # "redactor"
      BY Zenon DEF NoPanic
    <2>2. QED
      BY <1>2, <1>3, <2>1 DEF Place, Outcome, Unwinding
  <1>5. Ledger(q)'
    BY <1>2, InwardLedger, ChainFacts
  <1>6. Traced(q)'
    BY <1>1, <1>2, BeforeUnwinding DEF Sound, Traced, Skips
  <1>7. QED
    BY <1>4, <1>5, <1>6 DEF Sound

LEMMA RedactorPanicSound ==
    ASSUME Shape, NEW q \in Requests, Sound(q), NEW u, RedactorPanics(q, u)
    PROVE  Sound(q)'
  <1> USE DEF config, metrics, GoTo
  <1>1. /\ pc[q] = "enter" /\ pc[q] \notin Unwinding /\ depth[q] \in {0, 1}
        /\ depth[q] + 1 # MPos
    BY ChainFacts DEF RedactorPanics, Unwinding, Sound, Place
  <1>2. /\ total'[q] = <<>> /\ observed'[q] = <<>>
        /\ UNCHANGED <<chain, redactor, route, url, template>>
        /\ depth'[q] = depth[q] + 1 /\ MPos' = MPos /\ pc'[q] = "unwind"
        /\ panic'[q] = "redactor"
        /\ spans'[q].state = "started" /\ spans'[q].url = spans[q].url
        /\ spans'[q].text = spans[q].text
        /\ spans'[q].route = SpanRoute(q) /\ SpanRoute(q)' = SpanRoute(q)
    BY <1>1, BeforeUnwinding DEF RedactorPanics, MPos, Shape, SpanRoute
  <1>3. MPos \in {1, 2}
    BY ChainFacts
  <1>4. Place(q)' /\ Outcome(q)'
    <2>1. NoPanic # "redactor"
      BY Zenon DEF NoPanic
    <2>2. QED
      BY <1>1, <1>2, <1>3, <2>1 DEF Place, Outcome, Unwinding, Sound
  <1>5. Ledger(q)'
    <2>1. depth'[q] >= MPos' \/ Missed(q)'
      BY <1>1, <1>2, <1>3 DEF Missed
    <2>2. QED
      BY <1>1, <1>2, <1>3, <2>1, InwardLedger
  <1>6. Traced(q)'
    BY <1>1, <1>2, BeforeUnwinding DEF Sound, Traced
  <1>7. QED
    BY <1>4, <1>5, <1>6 DEF Sound

\* On the way out nothing changes what is recorded of a request.
Settled(q) ==
    /\ UNCHANGED <<chain, redactor, route, url, template, panic, quoted>>
    /\ MPos' = MPos /\ SpanRoute(q)' = SpanRoute(q) /\ Missed(q)' = Missed(q)
    /\ PathLabel(q)' = PathLabel(q) /\ RecordedStatus(q)' = RecordedStatus(q)

LEMMA OutwardSettled ==
    ASSUME Shape, NEW q \in Requests,
           UnwindSkipped(q) \/ UnwindMetrics(q) \/ Dec(q) \/ Count(q) \/ Observe(q)
             \/ EndSpan(q) \/ Recovery(q)
    PROVE  Settled(q) /\ pc[q] \in Unwinding /\ pc'[q] \in Unwinding
  <1>1. /\ UNCHANGED <<chain, redactor, route, url, template, panic, quoted>>
        /\ pc[q] \in Unwinding /\ pc'[q] \in Unwinding
        /\ panic[q] = NoPanic => code'[q] = code[q]
    BY DEF UnwindSkipped, UnwindMetrics, Dec, Count, Observe, EndSpan, Recovery, config,
           metrics, GoTo, Leave, Unwinding, Shape
  <1>2. QED
    BY <1>1 DEF Settled, MPos, SpanRoute, Missed, PathLabel, RecordedStatus

\* The conditions other than the ledger, for a step that does not end the span.
LEMMA OutwardTraced ==
    ASSUME NEW q \in Requests, Sound(q), Settled(q), pc[q] \in Unwinding,
           pc'[q] \in Unwinding, spans'[q] = spans[q],
           depth[q] \in 0..2, MPos \in {1, 2}, depth'[q] \in {depth[q], depth[q] - 1}
    PROVE  Traced(q)'
  <1>1. pc'[q] # "arrives"
    BY DEF Unwinding
  <1>2. /\ depth'[q] >= 3 - MPos' => depth[q] >= 3 - MPos
        /\ Skips("tracing", q)' = Skips("tracing", q)
    BY DEF Settled, Skips
  <1>3. QED
    BY <1>1, <1>2 DEF Sound, Traced, Settled

LEMMA LeaveSound ==
    ASSUME Shape, NEW q \in Requests, Sound(q), Settled(q), Leave(q),
           pc[q] = "unwind" \/ (pc[q] = "observe" /\ depth[q] = MPos),
           written'[q] = written[q]
    PROVE  /\ Place(q)' /\ Outcome(q)'
           /\ depth[q] \in {1, 2} /\ depth'[q] = depth[q] - 1
           /\ pc'[q] = IF depth[q] = 1 THEN "recovery" ELSE "unwind"
           /\ PastMetrics(q)' <=> depth[q] <= MPos
  <1>1. /\ depth[q] \in {1, 2} /\ depth'[q] = depth[q] - 1
        /\ pc'[q] = IF depth[q] = 1 THEN "recovery" ELSE "unwind"
        /\ MPos \in {1, 2}
    BY ChainFacts DEF Sound, Place, Leave, GoTo, Shape
  <1>2. Place(q)'
    BY <1>1 DEF Sound, Place, Settled
  <1>3. Outcome(q)'
    BY <1>1 DEF Sound, Outcome, Settled, Unwinding
  <1>4. PastMetrics(q)' <=> depth[q] <= MPos
    BY <1>1 DEF PastMetrics, Settled
  <1>5. QED
    BY <1>1, <1>2, <1>3, <1>4

\* A middleware other than the metrics, or one that skips the path, is left.
LEMMA LeaveOther ==
    ASSUME Shape, NEW q \in Requests, Sound(q), Settled(q), Leave(q), pc[q] = "unwind",
           written'[q] = written[q], total' = total, observed' = observed,
           depth[q] # MPos \/ route[q] = "metrics"
    PROVE  Place(q)' /\ Outcome(q)' /\ Ledger(q)'
  <1>1. /\ Place(q)' /\ Outcome(q)' /\ depth[q] \in {1, 2}
        /\ pc'[q] # "observe" /\ (PastMetrics(q)' <=> depth[q] <= MPos)
        /\ MPos \in {1, 2}
    BY LeaveSound, ChainFacts
  <1>2. CountedBy(q)' = CountedBy(q) /\ ObservedBy(q)' = ObservedBy(q)
    <2>1. ~Missed(q) => (PastMetrics(q)' <=> PastMetrics(q))
      BY <1>1 DEF PastMetrics, Missed
    <2>2. QED
      BY <1>1, <2>1 DEF CountedBy, ObservedBy, Settled
  <1>3. Ledger(q)'
    BY <1>2 DEF Sound, Ledger, Settled
  <1>4. QED
    BY <1>1, <1>3

LEMMA OutwardSound ==
    ASSUME Shape, NEW q \in Requests, Sound(q),
           UnwindSkipped(q) \/ UnwindMetrics(q) \/ Dec(q) \/ Count(q) \/ Observe(q)
             \/ EndSpan(q) \/ Recovery(q)
    PROVE  Sound(q)'
  <1>1. Settled(q) /\ pc[q] \in Unwinding /\ pc'[q] \in Unwinding
    BY OutwardSettled
  <1>2. /\ Place(q) /\ Outcome(q) /\ Ledger(q) /\ Traced(q) /\ MPos \in {1, 2}
        /\ depth[q] \in 0..2
    BY ChainFacts DEF Sound, Shape
  <1>0. depth'[q] \in {depth[q], depth[q] - 1}
    BY DEF UnwindSkipped, UnwindMetrics, Dec, Count, Observe, EndSpan, Recovery, Leave, Shape
  <1>3. CASE UnwindSkipped(q)
    <2>1. /\ pc[q] = "unwind" /\ Leave(q) /\ written'[q] = written[q]
          /\ total' = total /\ observed' = observed /\ spans' = spans
      BY <1>3 DEF UnwindSkipped, metrics
    <2>2. depth[q] # MPos \/ route[q] = "metrics"
      BY <1>2, <1>3, <2>1, ChainFacts DEF UnwindSkipped, Skips, Place
    <2>3. QED
      BY <1>0, <1>1, <1>2, <2>1, <2>2, LeaveOther, OutwardTraced DEF Sound
  <1>4. CASE UnwindMetrics(q) \/ Dec(q)
    <2>1. /\ depth[q] = MPos /\ route[q] # "metrics" /\ pc[q] \in {"unwind", "dec"}
          /\ pc'[q] \in {"dec", "count"}
          /\ UNCHANGED <<depth, code, written, total, observed, spans>>
      BY <1>2, <1>4, ChainFacts
         DEF UnwindMetrics, Dec, Skips, Place, GoTo, Shape, metrics
    <2>2. total[q] = <<>> /\ observed[q] = <<>>
      BY <1>2, <2>1 DEF Ledger, CountedBy, ObservedBy, PastMetrics
    <2>3. Place(q)'
      BY <1>1, <1>2, <2>1 DEF Place, Settled
    <2>4. Outcome(q)'
      BY <1>1, <1>2, <2>1 DEF Outcome, Settled
    <2>5. Ledger(q)'
      BY <2>1, <2>2 DEF Ledger, CountedBy, ObservedBy, PastMetrics
    <2>6. QED
      BY <1>0, <1>1, <1>2, <2>1, <2>3, <2>4, <2>5, OutwardTraced DEF Sound
  <1>5. CASE Count(q)
    <2>1. /\ depth[q] = MPos /\ route[q] # "metrics" /\ pc[q] = "count" /\ pc'[q] = "observe"
          /\ UNCHANGED <<depth, code, written, observed, spans>>
          /\ total'[q] = Append(total[q], [path |-> PathLabel(q), status |-> RecordedStatus(q)])
      BY <1>2, <1>5 DEF Count, Place, GoTo, Shape
    <2>2. total[q] = <<>> /\ observed[q] = <<>>
      BY <1>2, <2>1 DEF Ledger, CountedBy, ObservedBy, PastMetrics
    <2>3. Place(q)'
      BY <1>1, <1>2, <2>1 DEF Place, Settled
    <2>4. Outcome(q)'
      BY <1>1, <1>2, <2>1 DEF Outcome, Settled
    <2>5. Ledger(q)'
      <3>1. total'[q] = <<[path |-> PathLabel(q), status |-> RecordedStatus(q)]>>
        BY <2>1, <2>2
      <3>2. QED
        BY <1>1, <2>1, <2>2, <3>1 DEF Ledger, CountedBy, ObservedBy, PastMetrics, Settled
    <2>6. QED
      BY <1>0, <1>1, <1>2, <2>1, <2>3, <2>4, <2>5, OutwardTraced DEF Sound
  <1>6. CASE Observe(q)
    <2>1. /\ pc[q] = "observe" /\ depth[q] = MPos /\ route[q] # "metrics" /\ Leave(q)
          /\ written'[q] = written[q] /\ total' = total /\ spans' = spans
          /\ observed'[q] = Append(observed[q], PathLabel(q))
      BY <1>2, <1>6 DEF Observe, Place, Shape
    <2>2. ~Missed(q)
      BY <1>2, <2>1 DEF Missed, Place
    <2>3. PastMetrics(q)' /\ Place(q)' /\ Outcome(q)'
      BY <1>1, <1>2, <2>1, LeaveSound
    <2>4. observed[q] = <<>> /\ total[q] = <<[path |-> PathLabel(q),
                                             status |-> RecordedStatus(q)]>>
      BY <1>2, <2>1 DEF Ledger, CountedBy, ObservedBy, PastMetrics
    <2>5. observed'[q] = <<PathLabel(q)>>
      BY <2>1, <2>4
    <2>6. Ledger(q)'
      BY <1>1, <2>1, <2>2, <2>3, <2>4, <2>5 DEF Ledger, CountedBy, ObservedBy, Settled
    <2>7. QED
      BY <1>0, <1>1, <1>2, <2>1, <2>3, <2>6, OutwardTraced DEF Sound
  <1>7. CASE EndSpan(q)
    <2>1. /\ pc[q] = "unwind" /\ Leave(q) /\ written'[q] = written[q]
          /\ total' = total /\ observed' = observed /\ depth[q] # MPos
      BY <1>2, <1>7, ChainFacts DEF EndSpan, metrics, Place
    <2>2. /\ spans'[q].state = "ended" /\ spans'[q].status = RecordedStatus(q)
          /\ spans'[q].error = (RecordedStatus(q) >= 500)
          /\ spans'[q].url = spans[q].url /\ spans'[q].route = spans[q].route
          /\ spans'[q].text = IF panic[q] # NoPanic THEN quoted[q] ELSE spans[q].text
      <3>1. spans'[q] = [spans[q] EXCEPT
                  !.state = "ended", !.status = RecordedStatus(q),
                  !.text = IF panic[q] # NoPanic THEN quoted[q] ELSE spans[q].text,
                  !.error = RecordedStatus(q) >= 500]
        BY <1>7, Zenon DEF EndSpan, Shape
      <3>2. DOMAIN spans[q] = {"state", "route", "status", "error", "text", "url"}
        BY DEF Shape
      <3>3. QED
        BY <3>1, <3>2
    <2>0. spans[q].state # "none"
      <3>1. depth[q] \in {1, 2} /\ depth[q] = 3 - MPos
        BY <1>2, <2>1 DEF Place
      <3>2. ~Skips("tracing", q)
        BY <1>2, <1>7, <2>1, ChainFacts DEF EndSpan, Place
      <3>3. QED
        BY <1>2, <3>1, <3>2 DEF Traced
    <2>3. Traced(q)'
      <3>1. pc'[q] # "arrives"
        BY <1>1 DEF Unwinding
      <3>2. /\ spans'[q].status = RecordedStatus(q)'
            /\ spans'[q].error <=> RecordedStatus(q)' >= 500
        BY <1>1, <2>2, Zenon DEF Settled
      <3>3. spans'[q].route = SpanRoute(q)'
        BY <1>1, <1>2, <2>0, <2>2, Zenon DEF Settled, Traced
      <3>4. /\ spans'[q].text \in {NoUrl, quoted'[q]}
            /\ spans'[q].text # NoUrl => panic'[q] # NoPanic
        BY <1>1, <1>2, <2>2 DEF Settled, Traced
      <3>5. /\ pc'[q] \in Unwinding /\ spans'[q].state = "ended"
            /\ url'[q] # NoUrl => IsURL(url'[q])
            /\ spans'[q].url \in {NoUrl, RedactURLWithPath(url[q], redactor)'}
        BY <1>1, <1>2, <2>2 DEF Settled, Traced
      <3>6. QED
        BY <2>0, <3>1, <3>2, <3>3, <3>4, <3>5, Zenon DEF Traced
    <2>4. QED
      BY <1>1, <2>1, <2>3, LeaveOther DEF Sound
  <1>8. CASE Recovery(q)
    <2>1. /\ pc[q] = "recovery" /\ pc'[q] = "done"
          /\ UNCHANGED <<depth, total, observed, spans>>
      BY <1>8 DEF Recovery, GoTo, Shape, metrics
    <2>2. written'[q]
      BY <1>1, <1>2, <1>8 DEF Recovery, Outcome, Shape
    <2>3. Place(q)' /\ Outcome(q)'
      BY <1>1, <1>2, <2>1, <2>2 DEF Place, Outcome, Settled, Unwinding
    <2>4. Ledger(q)'
      BY <1>1, <1>2, <2>1 DEF Ledger, CountedBy, ObservedBy, PastMetrics, Settled
    <2>5. QED
      BY <1>0, <1>1, <1>2, <2>1, <2>3, <2>4, OutwardTraced DEF Sound
  <1>9. QED
    BY <1>3, <1>4, <1>5, <1>6, <1>7, <1>8

-----------------------------------------------------------------------------
(* The invariant. *)

LEMMA RequestInit == Init => RequestInv
  <1> SUFFICES ASSUME Init, NEW q \in Requests PROVE Sound(q)
    BY DEF RequestInv
  <1>1. /\ pc[q] = "arrives" /\ depth[q] = 0 /\ panic[q] = NoPanic
        /\ total[q] = <<>> /\ observed[q] = <<>> /\ spans[q] = NoSpan
        /\ url[q] = NoUrl /\ template[q] = NoTemplate
    BY DEF Init
  <1>2. NoSpan.state = "none" /\ NoSpan.url = NoUrl /\ NoSpan.text = NoUrl
    BY DEF NoSpan
  <1>3. Place(q) /\ Outcome(q)
    BY <1>1 DEF Place, Outcome, Unwinding
  <1>4. Ledger(q)
    BY <1>1 DEF Ledger, CountedBy, ObservedBy, PastMetrics
  <1>5. Traced(q)
    BY <1>1, <1>2, ShapeInit, ChainFacts DEF Traced
  <1>6. QED
    BY <1>3, <1>4, <1>5 DEF Sound

LEMMA RequestStep == Shape /\ RequestInv /\ [Next]_vars => RequestInv'
  <1> SUFFICES ASSUME Shape, RequestInv, [Next]_vars, NEW p \in Requests PROVE Sound(p)'
    BY DEF RequestInv
  <1>1. ASSUME NEW q \in Requests, Serve(q) PROVE Sound(p)'
    <2>1. CASE q = p
      BY <1>1, <2>1, EnterSound, HandlerSound, RedactorPanicSound, OutwardSound
         DEF Serve, RequestInv
    <2>2. CASE q # p
      BY <1>1, <2>2, OthersSame, SoundKept DEF RequestInv
    <2>3. QED
      BY <2>1, <2>2
  <1>2. CASE Start \/ UNCHANGED vars
    BY <1>2, SoundKept DEF Start, vars, config, metrics, Same, RequestInv
  <1>3. QED
    BY <1>1, <1>2 DEF Next

LEMMA RequestInvariant == Spec => [](Shape /\ RequestInv)
  BY ShapeInit, RequestInit, ShapeStep, RequestStep, PTL DEF Spec

-----------------------------------------------------------------------------
(* The gauge. *)

Inside == {q \in Requests : Gauged(q)}

LEMMA InsideIsFinite ==
    ASSUME NEW S, S \subseteq Requests
    PROVE  IsFiniteSet(S) /\ Cardinality(S) \in 0..Cardinality(Requests)
  <1>1. /\ IsFiniteSet(S) /\ Cardinality(S) <= Cardinality(Requests)
        /\ Cardinality(S) \in Nat /\ Cardinality(Requests) \in Nat
    BY FS_Subset, FS_CardinalityType, ObserverAssumption
  <1>2. QED
    BY <1>1

\* The metrics middleware is entered: one request more.
LEMMA GaugeUp ==
    ASSUME Shape, RequestInv, GaugeInv, NEW q \in Requests, EnterMetrics(q),
           ~Skips("metrics", q), \A p \in Requests : p # q => Same(p)
    PROVE  GaugeInv'
  <1>1. /\ depth[q] + 1 = MPos /\ depth[q] \in {0, 1} /\ depth'[q] = MPos
        /\ pc'[q] \in {"enter", "handler"} /\ MPos' = MPos /\ route'[q] = route[q]
        /\ route[q] # "metrics" /\ inFlight' = inFlight + 1
    BY ChainFacts
       DEF EnterMetrics, Skips, RequestInv, Sound, Place, GoTo, Shape, MPos, config
  <1>2. ~Gauged(q) /\ Gauged(q)'
    BY <1>1, ChainFacts DEF Gauged
  <1>3. Inside' = Inside \cup {q}
    BY <1>1, <1>2 DEF Inside, Gauged, Same
  <1>4. Cardinality(Inside') = Cardinality(Inside) + 1
    BY <1>2, <1>3, InsideIsFinite, FS_AddElement DEF Inside
  <1>5. QED
    BY <1>1, <1>4 DEF GaugeInv, Inside

\* The deferred Dec: one request less.
LEMMA GaugeDown ==
    ASSUME Shape, RequestInv, GaugeInv, NEW q \in Requests, Dec(q),
           \A p \in Requests : p # q => Same(p)
    PROVE  GaugeInv'
  <1>1. /\ depth[q] = MPos /\ pc[q] = "dec" /\ pc'[q] = "count"
        /\ MPos' = MPos /\ route[q] # "metrics" /\ inFlight' = inFlight - 1
    BY DEF Dec, RequestInv, Sound, Place, GoTo, Shape, MPos, config
  <1>2. Gauged(q) /\ ~Gauged(q)'
    BY <1>1, ChainFacts DEF Gauged
  <1>3. Inside' = Inside \ {q}
    BY <1>1, <1>2 DEF Inside, Gauged, Same
  <1>4. Cardinality(Inside') = Cardinality(Inside) - 1
    BY <1>2, <1>3, InsideIsFinite, FS_RemoveElement DEF Inside
  <1>5. QED
    BY <1>1, <1>4 DEF GaugeInv, Inside

\* No other step moves a request in or out of the gauge.
LEMMA GaugeStill ==
    ASSUME Shape, RequestInv, NEW q \in Requests, Serve(q), ~Dec(q),
           ~(EnterMetrics(q) /\ ~Skips("metrics", q))
    PROVE  (Gauged(q)' <=> Gauged(q)) /\ inFlight' = inFlight
  <1> USE DEF config, metrics, GoTo, Leave
  <1>1. inFlight' = inFlight /\ route'[q] = route[q] /\ MPos' = MPos
    BY DEF Serve, Arrive, EnterMetrics, EnterTracing, RedactorPanics, StoreTemplate,
           Write, HandlerReturns, HandlerPanics, UnwindSkipped, UnwindMetrics, Count,
           Observe, EndSpan, Recovery, MPos
  <1>2. Place(q) /\ MPos \in {1, 2} /\ depth[q] \in 0..2
    BY ChainFacts DEF RequestInv, Sound, Shape
  <1>3. ASSUME NEW u \in Urls \cup {NoUrl}, Arrive(q, u) PROVE Gauged(q)' <=> Gauged(q)
    BY <1>1, <1>2, <1>3 DEF Arrive, Gauged, Shape
  <1>4. CASE EnterMetrics(q)
    BY <1>1, <1>4 DEF EnterMetrics, Skips, Gauged
  <1>5. ASSUME (\E u : RedactorPanics(q, u)) \/ \E sampled \in BOOLEAN : EnterTracing(q, sampled)
        PROVE  Gauged(q)' <=> Gauged(q)
    <2>1. /\ pc[q] = "enter" /\ depth[q] \in {0, 1} /\ depth[q] + 1 # MPos
          /\ depth'[q] = depth[q] + 1 /\ pc'[q] \in {"enter", "handler", "unwind"}
      BY <1>2, <1>5, ChainFacts DEF RedactorPanics, EnterTracing, Place, Shape
    <2>2. QED
      BY <1>1, <1>2, <2>1 DEF Gauged
  <1>6. ASSUME \/ StoreTemplate(q) \/ HandlerReturns(q) \/ \E u : HandlerPanics(q, u)
               \/ \E c \in Codes : Write(q, c)
        PROVE  Gauged(q)' <=> Gauged(q)
    BY <1>1, <1>6 DEF StoreTemplate, HandlerReturns, HandlerPanics, Write, Gauged, Shape
  <1>7. ASSUME UnwindMetrics(q) \/ Count(q) \/ Recovery(q) PROVE Gauged(q)' <=> Gauged(q)
    BY <1>1, <1>7 DEF UnwindMetrics, Count, Recovery, Gauged, Shape
  <1>8. ASSUME UnwindSkipped(q) \/ EndSpan(q) PROVE Gauged(q)' <=> Gauged(q)
    <2>1. /\ pc[q] = "unwind" /\ depth[q] \in {1, 2} /\ depth'[q] = depth[q] - 1
          /\ pc'[q] \in {"recovery", "unwind"}
          /\ depth[q] # MPos \/ route[q] = "metrics"
      BY <1>2, <1>8, ChainFacts DEF UnwindSkipped, EndSpan, Skips, Place, Shape
    <2>2. QED
      BY <1>1, <1>2, <2>1 DEF Gauged
  <1>9. ASSUME Observe(q) PROVE Gauged(q)' <=> Gauged(q)
    <2>1. /\ pc[q] = "observe" /\ depth[q] = MPos /\ depth'[q] = depth[q] - 1
      BY <1>2, <1>9 DEF Observe, Place, Shape
    <2>2. QED
      BY <1>1, <1>2, <2>1 DEF Gauged
  <1>10. QED
    BY <1>1, <1>3, <1>4, <1>5, <1>6, <1>7, <1>8, <1>9 DEF Serve

LEMMA GaugeInvariant == Spec => []GaugeInv
  <1>1. Init => GaugeInv
    <2> SUFFICES ASSUME Init PROVE GaugeInv
      OBVIOUS
    <2>1. Shape
      BY ShapeInit
    <2>2. Inside = {}
      BY <2>1, ChainFacts DEF Init, Inside, Gauged
    <2>3. QED
      BY <2>2, FS_EmptySet DEF Init, GaugeInv, Inside
  <1>2. Shape /\ RequestInv /\ GaugeInv /\ [Next]_vars => GaugeInv'
    <2> SUFFICES ASSUME Shape, RequestInv, GaugeInv, [Next]_vars PROVE GaugeInv'
      OBVIOUS
    <2>1. ASSUME NEW q \in Requests, Serve(q) PROVE GaugeInv'
      <3>1. \A p \in Requests : p # q => Same(p)
        BY <2>1, OthersSame
      <3>2. CASE EnterMetrics(q) /\ ~Skips("metrics", q)
        BY <3>1, <3>2, GaugeUp
      <3>3. CASE Dec(q)
        BY <3>1, <3>3, GaugeDown
      <3>4. CASE ~Dec(q) /\ ~(EnterMetrics(q) /\ ~Skips("metrics", q))
        <4>1. (Gauged(q)' <=> Gauged(q)) /\ inFlight' = inFlight
          BY <2>1, <3>4, GaugeStill
        <4>2. \A p \in Requests : p # q => (Gauged(p)' <=> Gauged(p))
          BY <3>1 DEF Same, Gauged, MPos
        <4>3. {p \in Requests : Gauged(p)}' = {p \in Requests : Gauged(p)}
          BY <4>1, <4>2
        <4>4. QED
          BY <4>1, <4>3 DEF GaugeInv
      <3>5. QED
        BY <3>2, <3>3, <3>4
    <2>2. CASE Start \/ UNCHANGED vars
      BY <2>2 DEF Start, vars, config, metrics, GaugeInv, Gauged, MPos
    <2>3. QED
      BY <2>1, <2>2 DEF Next
  <1>3. QED
    BY <1>1, <1>2, RequestInvariant, PTL DEF Spec

-----------------------------------------------------------------------------
(* What the invariant implies. *)

\* Every variable keeps its type, and the gauge counts exactly the requests that the
\* metrics middleware has taken in and not yet let go, whatever panics.
THEOREM ObserverTypes == Spec => [](TypeOK /\ GaugeInv)
  <1>1. Shape /\ RequestInv /\ GaugeInv => TypeOK
    <2> SUFFICES ASSUME Shape, GaugeInv PROVE TypeOK
      OBVIOUS
    <2>1. inFlight \in 0..Cardinality(Requests)
      BY InsideIsFinite DEF GaugeInv
    <2>2. QED
      BY <2>1 DEF Shape, TypeOK, Unwinding
  <1>2. QED
    BY <1>1, RequestInvariant, GaugeInvariant, PTL

\* Every request that is over was counted and observed exactly once under the same
\* path, panic or not, and the gauge is back to zero when all are over.
THEOREM MetricsStayBalanced == Spec => []MetricsBalance
  <1>1. Shape /\ RequestInv /\ GaugeInv => MetricsBalance
    <2> SUFFICES ASSUME Shape, RequestInv, GaugeInv PROVE MetricsBalance
      OBVIOUS
    <2>1. ASSUME NEW q \in Requests, pc[q] = "done", route[q] # "metrics",
                 ~(panic[q] = "redactor" /\ chain[1] = "tracing")
          PROVE  /\ Len(total[q]) = 1 /\ Len(observed[q]) = 1
                 /\ total[q][1].path = observed[q][1]
                 /\ template[q] # NoTemplate => observed[q][1] = template[q]
      <3>1. ~Missed(q) /\ PastMetrics(q)
        BY <2>1, ChainFacts DEF Missed, PastMetrics
      <3>2. /\ total[q] = <<[path |-> PathLabel(q), status |-> RecordedStatus(q)]>>
            /\ observed[q] = <<PathLabel(q)>>
        BY <3>1 DEF RequestInv, Sound, Ledger, CountedBy, ObservedBy
      <3>3. template[q] # NoTemplate => PathLabel(q) = template[q]
        BY DEF RequestInv, Sound, Place, PathLabel
      <3>4. QED
        BY <3>2, <3>3
    <2>2. ASSUME \A q \in Requests : pc[q] \in {"arrives", "done"} PROVE inFlight = 0
      <3>1. \A q \in Requests : ~Gauged(q)
        BY <2>2, ChainFacts DEF RequestInv, Sound, Place, Gauged
      <3>2. {q \in Requests : Gauged(q)} = {}
        BY <3>1
      <3>3. QED
        BY <3>2, FS_EmptySet DEF GaugeInv
    <2>3. QED
      BY <2>1, <2>2 DEF MetricsBalance
  <1>2. QED
    BY <1>1, RequestInvariant, GaugeInvariant, PTL

LEMMA CountedLabels ==
    ASSUME RequestInv, NEW q \in Requests, NEW i \in DOMAIN total[q]
    PROVE  total[q][i].status = RecordedStatus(q) /\ total[q][i].path = PathLabel(q)
  <1> DEFINE label == [path |-> PathLabel(q), status |-> RecordedStatus(q)]
  <1>1. total[q] = IF CountedBy(q) THEN <<label>> ELSE <<>>
    BY DEF RequestInv, Sound, Ledger
  <1>2. CountedBy(q) /\ i = 1
    <2> HIDE DEF label
    <2>1. CASE CountedBy(q)
      BY <1>1, <2>1
    <2>2. CASE ~CountedBy(q)
      BY <1>1, <2>2
    <2>3. QED
      BY <2>1, <2>2
  <1>3. QED
    BY <1>1, <1>2

\* The span and the counter give a request the same status, the span is marked as an
\* error exactly when a 5xx is counted, in either order of the middlewares, and they give
\* it the same route unless its handler stored a template, which the span does not show.
THEOREM SpansAgreeWithMetrics == Spec => []SpanAgreesWithMetrics
  <1>1. Shape /\ RequestInv => SpanAgreesWithMetrics
    <2> SUFFICES ASSUME RequestInv, NEW q \in Requests, spans[q].state = "ended",
                        NEW i \in DOMAIN total[q]
                 PROVE  /\ spans[q].status = total[q][i].status
                        /\ spans[q].error <=> total[q][i].status >= 500
                        /\ spans[q].route =
                             IF template[q] = NoTemplate THEN total[q][i].path ELSE "/unknown"
      BY DEF SpanAgreesWithMetrics
    <2>1. total[q][i].status = RecordedStatus(q) /\ total[q][i].path = PathLabel(q)
      BY CountedLabels
    <2>2. spans[q].route = SpanRoute(q)
      BY DEF RequestInv, Sound, Traced
    <2>3. template[q] # NoTemplate => route[q] = "other"
      BY DEF RequestInv, Sound, Place
    <2>4. SpanRoute(q) = IF template[q] = NoTemplate THEN PathLabel(q) ELSE "/unknown"
      BY <2>3 DEF SpanRoute, PathLabel
    <2>5. QED
      BY <2>1, <2>2, <2>4 DEF RequestInv, Sound, Traced
  <1>2. QED
    BY <1>1, RequestInvariant, PTL

\* A panic reaches the recovery through both middlewares, and what was counted is
\* what the client got, except for a panic after the response was sent.
THEOREM CountsAreAnswers == Spec => []CountedAsAnswered
  <1>1. Shape /\ RequestInv => CountedAsAnswered
    <2> SUFFICES ASSUME RequestInv, NEW q \in Requests, pc[q] = "done"
                 PROVE  /\ written[q]
                        /\ \A i \in DOMAIN total[q] :
                             total[q][i].status # code[q] =>
                               panic[q] # NoPanic /\ total[q][i].status = 500
      BY DEF CountedAsAnswered
    <2>1. \A i \in DOMAIN total[q] : total[q][i].status = RecordedStatus(q)
      BY CountedLabels
    <2>2. QED
      BY <2>1 DEF RequestInv, Sound, Outcome, RecordedStatus
  <1>2. QED
    BY <1>1, RequestInvariant, PTL

\* What RedactURLWithPath leaves of a URL.
LEMMA RedactedURL ==
    ASSUME NEW u, IsURL(u), NEW redact \in BOOLEAN
    PROVE  LET seen == RedactURLWithPath(u, redact) IN
           /\ seen.user # "password"
           /\ \A n \in DOMAIN seen.query :
                IF ToLower(n) \in sensitiveQueryParams
                  THEN seen.query[n] = <<redactedValue>>
                  ELSE seen.query[n] = u.query[n]
           /\ redact => seen.path # "token"
           /\ u.parses => DOMAIN seen.query = DOMAIN u.query
  <1> DEFINE seen == RedactURLWithPath(u, redact)
             path == IF redact THEN PathRedactor(u.path) ELSE u.path
  <1>1. redact => path # "token"
    BY DEF PathRedactor, redactedValue
  <1>2. CASE u.parses
    <2>1. /\ seen.path = path /\ seen.query = RedactedQuery(u.query)
          /\ seen.user = IF u.user = "password" THEN redactedValue ELSE u.user
      BY <1>2 DEF RedactURLWithPath, IsURL
    <2>2. QED
      BY <1>1, <2>1 DEF RedactedQuery, redactedValue
  <1>3. CASE ~u.parses
    <2>1. seen.path = path /\ seen.query = NoQuery /\ seen.user = NoPart
      BY <1>3 DEF RedactURLWithPath, NoUrl
    <2>2. NoPart # "password"
      BY Zenon DEF NoPart
    <2>3. QED
      BY <1>1, <1>3, <2>1, <2>2 DEF NoQuery
  <1>4. QED
    BY <1>2, <1>3

\* No credential of its URL reaches the span of a request, for every URL: not the
\* password, no value of a sensitive parameter in any spelling, not what the redactor of
\* the service masks; but a panic whose value prints the URL puts it into the status text.
THEOREM NoSecretsInSpans == Spec => []NoSecretInSpan
  <1>1. Shape /\ RequestInv => NoSecretInSpan
    <2> SUFFICES ASSUME Shape, RequestInv, NEW q \in Requests
                 PROVE  /\ spans[q].url # NoUrl => Masked(spans[q].url, url[q])
                        /\ spans[q].text # NoUrl =>
                             panic[q] # NoPanic /\ quoted[q] = spans[q].text
      BY DEF NoSecretInSpan
    <2>1. ASSUME spans[q].url # NoUrl PROVE Masked(spans[q].url, url[q])
      <3>1. spans[q].url = RedactURLWithPath(url[q], redactor) /\ redactor \in BOOLEAN
        BY <2>1 DEF RequestInv, Sound, Traced, Shape
      <3>2. IsURL(url[q])
        <4>1. IsURL(NoUrl)
          BY DEF IsURL, NoUrl, NoQuery
        <4>2. QED
          BY <4>1 DEF RequestInv, Sound, Traced
      <3>3. QED
        BY <3>1, <3>2, RedactedURL DEF Masked
    <2>2. QED
      BY <2>1 DEF RequestInv, Sound, Traced
  <1>2. QED
    BY <1>1, RequestInvariant, PTL
=============================================================================
