---------------------------- MODULE HTTPObserver ----------------------------
(***************************************************************************)
(* The observability middlewares around a handler: HTTPMetricsMiddleware,  *)
(* TracingMiddleware and the gin recovery that is mounted outside them     *)
(* (external).  Requests run concurrently, a handler may panic before or   *)
(* after it has written the response, and each collector is updated on its *)
(* own, so that a scrape may fall between two updates.  The collectors are *)
(* registered before the server accepts requests; a failed registration is *)
(* logged and does not stop it.                                            *)
(***************************************************************************)
EXTENDS CollectorRegistration, UrlRedaction, FiniteSetsExt

CONSTANTS
    Requests,     \* each request id is used once
    Urls          \* the URLs requests are sent to

ASSUME ObserverAssumption == IsFiniteSet(Requests) /\ \A u \in Urls : IsURL(u)

VARIABLES
    chain,      \* the two middlewares, outermost first
    redactor,   \* WithPathRedactor was given
    route,      \* request -> the path it asks for
    url,        \* request -> its URL
    template,   \* request -> WithRouteTemplate on its context, or NoTemplate
    pc,         \* request -> where it is
    depth,      \* request -> how many middlewares have been entered
    panic,      \* request -> the origin of the panic that is unwinding, or NoPanic
    quoted,     \* request -> the URL that the value of its panic prints, or NoUrl
    code,       \* request -> c.Writer.Status()
    written,    \* request -> the response has been sent
    inFlight,   \* HTTPRequestsInFlight
    total,      \* HTTPRequestsTotal: request -> the labels of its increments
    observed,   \* HTTPRequestDuration: request -> the labels of its observations
    spans       \* request -> its span

metrics == <<inFlight, total, observed>>
config == <<registration, chain, redactor>>
vars == <<config, route, url, template, pc, depth, panic, quoted, code, written, metrics,
          spans>>

\* "route": Gin matched it; "other": it is dispatched by a NoRoute handler; the
\* scrape endpoint is skipPath, and a probe is in skipPaths of the tracing.
Routes == {"route", "other", "metrics", "probe"}
Codes == {200, 404, 500}

NoPanic == ""
NoTemplate == ""
NoSpan == [state |-> "none", route |-> NoTemplate, status |-> 0, error |-> FALSE,
           text |-> NoUrl, url |-> NoUrl]

Skips(mw, q) ==
    IF mw = "metrics" THEN route[q] = "metrics" ELSE route[q] \in {"metrics", "probe"}

Chains == {<<"metrics", "tracing">>, <<"tracing", "metrics">>}

TypeOK ==
    /\ chain \in Chains /\ redactor \in BOOLEAN /\ route \in [Requests -> Routes]
    /\ pc \in [Requests -> {"arrives", "enter", "handler", "unwind", "dec", "count",
                            "observe", "recovery", "done"}]
    /\ depth \in [Requests -> 0..2]
    /\ panic \in [Requests -> {NoPanic, "handler", "redactor"}]
    /\ code \in [Requests -> Codes] /\ written \in [Requests -> BOOLEAN]
    /\ inFlight \in 0..Cardinality(Requests)

Init ==
    /\ RegistrationInit
    /\ redactor \in BOOLEAN
    /\ chain \in Chains
    /\ route \in [Requests -> Routes]
    /\ url = [q \in Requests |-> NoUrl]
    /\ template = [q \in Requests |-> NoTemplate]
    /\ pc = [q \in Requests |-> "arrives"]
    /\ depth = [q \in Requests |-> 0]
    /\ panic = [q \in Requests |-> NoPanic]
    /\ quoted = [q \in Requests |-> NoUrl]
    /\ code = [q \in Requests |-> 200]
    /\ written = [q \in Requests |-> FALSE]
    /\ inFlight = 0
    /\ total = [q \in Requests |-> <<>>]
    /\ observed = [q \in Requests |-> <<>>]
    /\ spans = [q \in Requests |-> NoSpan]

GoTo(q, label) == pc' = [pc EXCEPT ![q] = label]

\* Only the URL of a traced request matters.
Arrive(q, u) ==
    /\ Started
    /\ pc[q] = "arrives"
    /\ u # NoUrl => ~Skips("tracing", q)
    /\ url' = [url EXCEPT ![q] = u]
    /\ GoTo(q, "enter")
    /\ UNCHANGED <<config, route, template, depth, panic, quoted, code, written,
                   metrics, spans>>

\* The part of a middleware before c.Next, or all of it for a path it skips.
EnterMetrics(q) ==
    /\ pc[q] = "enter"
    /\ chain[depth[q] + 1] = "metrics"
    /\ inFlight' = IF Skips("metrics", q) THEN inFlight ELSE inFlight + 1
    /\ depth' = [depth EXCEPT ![q] = @ + 1]
    /\ GoTo(q, IF depth[q] + 1 = 2 THEN "handler" ELSE "enter")
    /\ UNCHANGED <<config, route, url, template, panic, quoted, code, written, total,
                   observed, spans>>

\* The span's name and its http.route: unlike the metrics, they do not ask for a template.
SpanRoute(q) == IF route[q] # "other" THEN route[q] ELSE "/unknown"

\* A sampled span records the redacted URL.
EnterTracing(q, sampled) ==
    /\ pc[q] = "enter"
    /\ chain[depth[q] + 1] = "tracing"
    /\ sampled => ~Skips("tracing", q)
    /\ spans' = IF Skips("tracing", q) THEN spans
                ELSE [spans EXCEPT ![q] = [@ EXCEPT !.state = "started",
                        !.route = SpanRoute(q),
                        !.url = IF sampled THEN RedactURLWithPath(url[q], redactor)
                                ELSE NoUrl]]
    /\ depth' = [depth EXCEPT ![q] = @ + 1]
    /\ GoTo(q, IF depth[q] + 1 = 2 THEN "handler" ELSE "enter")
    /\ UNCHANGED <<config, route, url, template, panic, quoted, code, written, metrics>>

\* What the path redactor is given of a URL.
PathOnly(u) == [NoUrl EXCEPT !.path = u.path]

\* The path redactor is code of the service, and it may panic, with a value that prints
\* u: the span has been started and its end deferred.
RedactorPanics(q, u) ==
    /\ pc[q] = "enter"
    /\ chain[depth[q] + 1] = "tracing"
    /\ redactor /\ ~Skips("tracing", q)
    /\ spans' = [spans EXCEPT ![q] = [@ EXCEPT !.state = "started", !.route = SpanRoute(q)]]
    /\ depth' = [depth EXCEPT ![q] = @ + 1]
    /\ panic' = [panic EXCEPT ![q] = "redactor"]
    /\ quoted' = [quoted EXCEPT ![q] = u]
    /\ GoTo(q, "unwind")
    /\ UNCHANGED <<config, route, url, template, code, written, metrics>>

\* The handler stores its route template when it routes by itself.
StoreTemplate(q) ==
    /\ pc[q] = "handler"
    /\ route[q] = "other"
    /\ ~written[q]
    /\ template' = [template EXCEPT ![q] = "/template"]
    /\ UNCHANGED <<config, route, url, pc, depth, panic, quoted, code, written,
                   metrics, spans>>

Write(q, c) ==
    /\ pc[q] = "handler"
    /\ ~written[q]
    /\ code' = [code EXCEPT ![q] = c]
    /\ written' = [written EXCEPT ![q] = TRUE]
    /\ UNCHANGED <<config, route, url, template, pc, depth, panic, quoted, metrics,
                   spans>>

\* (A handler that writes nothing answers 200 when it returns: Write(q, 200).)
HandlerReturns(q) ==
    /\ pc[q] = "handler"
    /\ written[q]
    /\ GoTo(q, "unwind")
    /\ UNCHANGED <<config, route, url, template, depth, panic, quoted, code, written,
                   metrics, spans>>

HandlerPanics(q, u) ==
    /\ pc[q] = "handler"
    /\ panic' = [panic EXCEPT ![q] = "handler"]
    /\ quoted' = [quoted EXCEPT ![q] = u]
    /\ GoTo(q, "unwind")
    /\ UNCHANGED <<config, route, url, template, depth, code, written, metrics, spans>>

-----------------------------------------------------------------------------
(* The deferred functions, innermost first. *)

Leave(q) ==
    /\ depth' = [depth EXCEPT ![q] = @ - 1]
    /\ GoTo(q, IF depth[q] = 1 THEN "recovery" ELSE "unwind")

UnwindSkipped(q) ==
    /\ pc[q] = "unwind"
    /\ Skips(chain[depth[q]], q)
    /\ Leave(q)
    /\ UNCHANGED <<config, route, url, template, panic, quoted, code, written, metrics,
                   spans>>

\* Mutant: the metrics are recorded after c.Next, not in a defer.
UnwindMetricsInline(q) ==
    /\ pc[q] = "unwind"
    /\ chain[depth[q]] = "metrics" /\ ~Skips("metrics", q)
    /\ IF panic[q] # NoPanic THEN Leave(q) ELSE GoTo(q, "dec") /\ UNCHANGED depth
    /\ UNCHANGED <<config, route, url, template, panic, quoted, code, written, metrics,
                   spans>>

UnwindMetrics(q) ==
    /\ pc[q] = "unwind"
    /\ chain[depth[q]] = "metrics" /\ ~Skips("metrics", q)
    /\ GoTo(q, "dec")
    /\ UNCHANGED <<config, route, url, template, depth, panic, quoted, code, written,
                   metrics, spans>>

\* recover() and Dec.
Dec(q) ==
    /\ pc[q] = "dec"
    /\ inFlight' = inFlight - 1
    /\ GoTo(q, "count")
    /\ UNCHANGED <<config, route, url, template, depth, panic, quoted, code, written,
                   total, observed, spans>>

PathLabel(q) ==
    IF route[q] # "other" THEN route[q]
    ELSE IF template[q] # NoTemplate THEN template[q] ELSE "/unknown"

\* Mutant: a panic is counted with the status written so far.
RecordedStatusWritten(q) == code[q]

RecordedStatus(q) == IF panic[q] # NoPanic THEN 500 ELSE code[q]

Count(q) ==
    /\ pc[q] = "count"
    /\ total' = [total EXCEPT ![q] = Append(@, [path |-> PathLabel(q),
                                               status |-> RecordedStatus(q)])]
    /\ GoTo(q, "observe")
    /\ UNCHANGED <<config, route, url, template, depth, panic, quoted, code, written,
                   inFlight, observed, spans>>

\* Observe, and the panic goes on.
Observe(q) ==
    /\ pc[q] = "observe"
    /\ observed' = [observed EXCEPT ![q] = Append(@, PathLabel(q))]
    /\ Leave(q)
    /\ UNCHANGED <<config, route, url, template, panic, quoted, code, written,
                   inFlight, total, spans>>

\* Mutant: the span of a panic keeps the status written so far.
EndSpanWritten(q) ==
    /\ pc[q] = "unwind"
    /\ chain[depth[q]] = "tracing" /\ ~Skips("tracing", q)
    /\ spans' = [spans EXCEPT ![q] = [@ EXCEPT !.state = "ended", !.status = code[q],
                                      !.error = code[q] >= 500]]
    /\ Leave(q)
    /\ UNCHANGED <<config, route, url, template, panic, quoted, code, written, metrics>>

\* The status text of a panic is its value, printed as it is.
EndSpan(q) ==
    /\ pc[q] = "unwind"
    /\ chain[depth[q]] = "tracing" /\ ~Skips("tracing", q)
    /\ spans' = [spans EXCEPT ![q] = [@ EXCEPT !.state = "ended",
                                      !.status = RecordedStatus(q),
                                      !.text = IF panic[q] # NoPanic THEN quoted[q]
                                               ELSE spans[q].text,
                                      !.error = RecordedStatus(q) >= 500]]
    /\ Leave(q)
    /\ UNCHANGED <<config, route, url, template, panic, quoted, code, written, metrics>>

\* gin's recovery answers 500 unless the response has been sent already.
Recovery(q) ==
    /\ pc[q] = "recovery"
    /\ IF panic[q] # NoPanic /\ ~written[q]
         THEN code' = [code EXCEPT ![q] = 500] /\ written' = [written EXCEPT ![q] = TRUE]
         ELSE UNCHANGED <<code, written>>
    /\ GoTo(q, "done")
    /\ UNCHANGED <<config, route, url, template, depth, panic, quoted, metrics, spans>>

Serve(q) ==
    \/ \E u \in Urls \cup {NoUrl} : Arrive(q, u)
    \/ EnterMetrics(q) \/ \E sampled \in BOOLEAN : EnterTracing(q, sampled)
    \/ StoreTemplate(q) \/ HandlerReturns(q)
    \/ \E u \in {NoUrl, PathOnly(url[q])} : RedactorPanics(q, u)
    \/ \E u \in {NoUrl, url[q]} : HandlerPanics(q, u)
    \/ \E c \in Codes : Write(q, c)
    \/ UnwindSkipped(q) \/ UnwindMetrics(q) \/ Dec(q) \/ Count(q) \/ Observe(q)
    \/ EndSpan(q) \/ Recovery(q)

\* The server starts after the hooks have returned.
Start ==
    /\ ~Started
    /\ \/ \E s \in Starters : RegisterDefaultCollectors(s)
       \/ \E x \in CollectorNames : RegisterCollector(x)
    /\ UNCHANGED <<chain, redactor, route, url, template, pc, depth, panic, quoted,
                   code, written, metrics, spans>>

Next == Start \/ \E q \in Requests : Serve(q)

Spec == Init /\ [][Next]_vars

-----------------------------------------------------------------------------
\* The gauge does not drift and no request is lost or counted twice: for every
\* request that is over, panic or not, there is one count and one observation with
\* the same path, the template that a handler which routes by itself stored; and
\* the gauge holds exactly the ones that are not over.  A request never reaches the
\* metrics when the redactor of a tracing middleware outside them panicked.
MetricsBalance ==
    /\ \A q \in Requests :
         /\ pc[q] = "done"
         /\ route[q] # "metrics"
         /\ ~(panic[q] = "redactor" /\ chain[1] = "tracing")
         => /\ Len(total[q]) = 1 /\ Len(observed[q]) = 1
            /\ total[q][1].path = observed[q][1]
            /\ template[q] # NoTemplate => observed[q][1] = template[q]
    /\ (\A q \in Requests : pc[q] \in {"arrives", "done"}) => inFlight = 0

\* Metrics and trace tell the same story of a request: the same status, the span is
\* marked as an error exactly when a 5xx is counted, and the same route, but for a
\* request that its handler has routed: its span stays at "/unknown".
SpanAgreesWithMetrics ==
    \A q \in Requests : spans[q].state = "ended" =>
        \A i \in DOMAIN total[q] :
            /\ spans[q].status = total[q][i].status
            /\ spans[q].error <=> total[q][i].status >= 500
            /\ spans[q].route =
                 IF template[q] = NoTemplate THEN total[q][i].path ELSE "/unknown"

\* A panic reaches the recovery through both middlewares, in either order, so that
\* every request is answered; and what was counted before the recovery ran is what
\* the client was answered.  The one exception: the handler panicked after it had
\* sent a response, which the count turns into a 500.
CountedAsAnswered ==
    \A q \in Requests : pc[q] = "done" =>
        /\ written[q]
        /\ \A i \in DOMAIN total[q] :
             total[q][i].status # code[q] => panic[q] # NoPanic /\ total[q][i].status = 500

\* What a span may show of the URL u: not the password of the userinfo, no value of a
\* sensitive parameter in any spelling, not what the redactor of the service masks; but
\* which parameters were sent, and the values of the harmless ones.
Masked(seen, u) ==
    /\ seen.user # "password"
    /\ \A n \in DOMAIN seen.query :
         IF ToLower(n) \in sensitiveQueryParams
           THEN seen.query[n] = <<redactedValue>>
           ELSE seen.query[n] = u.query[n]
    /\ redactor => seen.path # "token"
    /\ u.parses => DOMAIN seen.query = DOMAIN u.query

\* No credential of a request's URL reaches the trace backend, unless the handler or
\* the redactor panicked with a value that prints the URL.
NoSecretInSpan ==
    \A q \in Requests :
        /\ spans[q].url # NoUrl => Masked(spans[q].url, url[q])
        /\ spans[q].text # NoUrl => panic[q] # NoPanic /\ quoted[q] = spans[q].text
=============================================================================
