------------------------------ MODULE EastWest ------------------------------
(***************************************************************************)
(* A request and the identity it carries, from the client through the      *)
(* gateway to a backend and from there east-west to peer backends: strip   *)
(* and stamp (the gateway, external), FromHeader, RequireAdmin,            *)
(* PropagateTrustHeaders.  A backend may also be called directly, in local *)
(* development or by a misrouted request, and may itself call a peer from  *)
(* a background task that has no request context.                          *)
(***************************************************************************)
EXTENDS TrustContract

CONSTANTS
    Requests,      \* requests in flight
    Backends,      \* services that use the claims package
    Users,         \* identities the gateway authenticates
    Admins,        \* the users that hold api:admin
    Environments,  \* environments a backend may be started with
    MaxHops,       \* bound: east-west calls one request may cause
    Nowhere

ASSUME EastWestAssumption ==
    /\ Admins \subseteq Users
    /\ Absent \notin Users
    /\ Nowhere \notin Backends
    /\ MaxHops \in Nat

VARIABLES
    env,       \* backend -> its environment
    version,   \* the identity version the gateway stamps
    at,        \* request -> the backend that handles it
    via,       \* request -> how it got there
    step,     \* request -> the middleware or handler that runs
    admin,     \* request -> it is for an admin route
    hdr,       \* request -> its headers
    ctx,       \* request -> the headers captured on its context
    claims,    \* request -> the identity on the gin context
    hops,
    user,      \* history: the user the gateway authenticated, if any
    logger,    \* backend -> propagateLogger is wired
    warned,    \* backend -> propagateWarnedOnce has fired
    anonymous  \* history: backends that made a call without an identity

travelVars == <<env, version, at, via, step, admin, hdr, ctx, claims, hops, user,
          logger, warned, anonymous>>
config == <<env, version>>
once == <<logger, warned, anonymous>>

Detached == [h \in {} |-> Absent]
HeaderValues == Users \cup {Absent, "org", "1", "2"}

TravelTypeOK ==
    /\ env \in [Backends -> Environments]
    /\ version \in {"1", "2"}
    /\ at \in [Requests -> Backends \cup {Nowhere}]
    /\ via \in [Requests -> {"none", "gateway", "direct", "peer"}]
    /\ step \in [Requests -> {"idle", "client", "FromHeader", "RequireAdmin",
                               "handler", "replied"}]
    /\ admin \in [Requests -> BOOLEAN]
    /\ hdr \in [Requests -> [Headers -> HeaderValues]]
    /\ ctx \in [Requests -> [Headers -> HeaderValues] \cup {Detached}]
    /\ claims \in [Requests -> HeaderValues \cup {"nil"}]
    /\ hops \in [Requests -> 0..MaxHops]
    /\ user \in [Requests -> Users \cup {Absent}]
    /\ logger \in [Backends -> BOOLEAN]
    /\ warned \in [Backends -> BOOLEAN]
    /\ anonymous \subseteq Backends

TravelInit ==
    /\ env \in [Backends -> Environments]
    /\ version \in {"1", "2"}
    /\ at = [q \in Requests |-> Nowhere]
    /\ via = [q \in Requests |-> "none"]
    /\ step = [q \in Requests |-> "idle"]
    /\ admin = [q \in Requests |-> FALSE]
    /\ hdr = [q \in Requests |-> NoHeaders]
    /\ ctx = [q \in Requests |-> Detached]
    /\ claims = [q \in Requests |-> "nil"]
    /\ hops = [q \in Requests |-> 0]
    /\ user = [q \in Requests |-> Absent]
    /\ logger = [b \in Backends |-> FALSE]
    /\ warned = [b \in Backends |-> FALSE]
    /\ anonymous = {}

\* The first logger stays; a second one is ignored.
SetPropagateLogger(b) ==
    /\ ~logger[b]
    /\ logger' = [logger EXCEPT ![b] = TRUE]
    /\ UNCHANGED <<config, at, via, step, admin, hdr, ctx, claims, hops, user, warned,
                   anonymous>>

\* The request of a gateway client, with any copy of the trust headers, for a
\* route of backend b.
ClientSends(q, u, b, adm, forged) ==
    /\ step[q] = "idle"
    /\ step' = [step EXCEPT ![q] = "client"]
    /\ at' = [at EXCEPT ![q] = b]
    /\ user' = [user EXCEPT ![q] = u]
    /\ admin' = [admin EXCEPT ![q] = adm]
    /\ hdr' = [hdr EXCEPT ![q] = forged]
    /\ UNCHANGED <<config, via, ctx, claims, hops, once>>

\* The gateway strips its headers from what the client sent and stamps its own;
\* the admin header only for an admin on an admin route, which others never reach.
Stamped(q) ==
    [h \in Headers |->
        IF h \notin AllTrustHeaders THEN hdr[q][h]
        ELSE CASE h = "User"    -> user[q]
               [] h = "Orgs"    -> "org"
               [] h = "Version" -> version
               [] h = "Admin"   -> IF admin[q] THEN AdminHeaderValue ELSE Absent]

GatewayForwards(q) ==
    /\ step[q] = "client"
    /\ admin[q] => user[q] \in Admins
    /\ hdr' = [hdr EXCEPT ![q] = Stamped(q)]
    /\ via' = [via EXCEPT ![q] = "gateway"]
    /\ step' = [step EXCEPT ![q] = "FromHeader"]
    /\ UNCHANGED <<config, at, admin, ctx, claims, hops, user, once>>

\* A backend is called without the gateway: with no trust headers, or in local
\* development with the admin header set by hand.
DirectCall(q, b, adm, h) ==
    /\ step[q] = "idle"
    /\ h["Admin"] = AdminHeaderValue => ~TrustEnabled(env[b])
    /\ step' = [step EXCEPT ![q] = "FromHeader"]
    /\ at' = [at EXCEPT ![q] = b]
    /\ via' = [via EXCEPT ![q] = "direct"]
    /\ admin' = [admin EXCEPT ![q] = adm]
    /\ hdr' = [hdr EXCEPT ![q] = h]
    /\ UNCHANGED <<config, ctx, claims, hops, user, once>>

-----------------------------------------------------------------------------
\* FromHeader: the snapshot goes on the context first, then the identity
\* version is checked and the claims are set.
FromHeader(q) ==
    LET e == env[at[q]] IN
    /\ step[q] = "FromHeader"
    /\ ctx' = [ctx EXCEPT ![q] = captureTrustHeaders(hdr[q])]
    /\ IF FromHeaderStatus(e, hdr[q]) # 0
         THEN /\ step' = [step EXCEPT ![q] = "replied"]
              /\ UNCHANGED claims
         ELSE /\ step' = [step EXCEPT ![q] = IF admin[q] THEN "RequireAdmin"
                                               ELSE "handler"]
              /\ claims' = [claims EXCEPT ![q] = ClaimsOf(e, hdr[q])]
    /\ UNCHANGED <<config, at, via, admin, hdr, hops, user, once>>

RequireAdmin(q) ==
    /\ step[q] = "RequireAdmin"
    /\ step' = [step EXCEPT ![q] = IF RequireAdminStatus(env[at[q]], hdr[q]) = 0
                                     THEN "handler" ELSE "replied"]
    /\ UNCHANGED <<config, at, via, admin, hdr, ctx, claims, hops, user, once>>

\* PropagateTrustHeaders(src, req) in backend b: the headers of the new request.
Propagated(src) == IF src = Detached THEN NoHeaders ELSE captureTrustHeaders(src)

\* The warning is for a context to which no headers were ever attached, and it
\* waits for a logger.  A call is anonymous when a logger could have told of it.
Warn(b, src) ==
    /\ warned' = [warned EXCEPT ![b] = @ \/ (src = Detached /\ logger[b])]
    /\ anonymous' = IF logger[b] /\ Propagated(src)["Version"] = Absent
                      THEN anonymous \cup {b} ELSE anonymous
    /\ UNCHANGED logger

\* The handler calls peer b with its request context.
CallPeer(q, b, adm) ==
    /\ step[q] = "handler"
    /\ hops[q] < MaxHops
    /\ hops' = [hops EXCEPT ![q] = @ + 1]
    /\ hdr' = [hdr EXCEPT ![q] = Propagated(ctx[q])]
    /\ Warn(at[q], ctx[q])
    /\ at' = [at EXCEPT ![q] = b]
    /\ via' = [via EXCEPT ![q] = "peer"]
    /\ admin' = [admin EXCEPT ![q] = adm]
    /\ step' = [step EXCEPT ![q] = "FromHeader"]
    /\ ctx' = [ctx EXCEPT ![q] = Detached]
    /\ claims' = [claims EXCEPT ![q] = "nil"]
    /\ UNCHANGED <<config, user>>

\* A background task of backend a calls peer b.
BackgroundCall(q, a, b, adm) ==
    /\ step[q] = "idle"
    /\ hdr' = [hdr EXCEPT ![q] = Propagated(Detached)]
    /\ Warn(a, Detached)
    /\ at' = [at EXCEPT ![q] = b]
    /\ via' = [via EXCEPT ![q] = "peer"]
    /\ admin' = [admin EXCEPT ![q] = adm]
    /\ step' = [step EXCEPT ![q] = "FromHeader"]
    /\ UNCHANGED <<config, ctx, claims, hops, user>>

\* The handler or a middleware answers, or the gateway refuses a user who is no
\* admin; the request is over.
Finish(q) ==
    /\ step[q] \in {"handler", "replied", "client"}
    /\ step' = [step EXCEPT ![q] = "idle"]
    /\ at' = [at EXCEPT ![q] = Nowhere]
    /\ via' = [via EXCEPT ![q] = "none"]
    /\ admin' = [admin EXCEPT ![q] = FALSE]
    /\ hdr' = [hdr EXCEPT ![q] = NoHeaders]
    /\ ctx' = [ctx EXCEPT ![q] = Detached]
    /\ claims' = [claims EXCEPT ![q] = "nil"]
    /\ hops' = [hops EXCEPT ![q] = 0]
    /\ user' = [user EXCEPT ![q] = Absent]
    /\ UNCHANGED <<config, once>>

TravelNext ==
    \/ \E b \in Backends : SetPropagateLogger(b)
    \/ \E q \in Requests :
        \/ \E b \in Backends, adm \in BOOLEAN :
             \/ \E u, forged \in Users :
                  ClientSends(q, u, b, adm, [h \in Headers |-> IF h = "User" THEN forged
                                                              ELSE "1"])
             \/ \E a \in {Absent, AdminHeaderValue} :
                  DirectCall(q, b, adm, [NoHeaders EXCEPT !["Admin"] = a])
             \/ CallPeer(q, b, adm)
             \/ \E a \in Backends : BackgroundCall(q, a, b, adm)
        \/ GatewayForwards(q)
        \/ FromHeader(q)
        \/ RequireAdmin(q)
        \/ Finish(q)

TravelSpec == TravelInit /\ [][TravelNext]_travelVars

-----------------------------------------------------------------------------
\* The handler of an admin route runs only for a request that came straight from
\* the gateway on behalf of an admin, or in local development: with both opt-in
\* variables set, or with the header set by hand.  A peer never gains the admin
\* privilege of the request it serves.
AdminRunsAuthorised ==
    \A q \in Requests :
        step[q] = "handler" /\ admin[q] =>
            \/ via[q] = "gateway" /\ user[q] \in Admins
            \/ ~TrustEnabled(env[at[q]]) /\ insecureAdminEnabled(env[at[q]])
            \/ ~TrustEnabled(env[at[q]]) /\ via[q] = "direct"
               /\ hdr[q]["Admin"] = AdminHeaderValue

\* Where trust is enforced, however many peers the request has passed, the
\* claims a handler sees are those of the user the gateway authenticated, and a
\* call without an identity never reaches a handler.
ClaimsAreAuthentic ==
    \A q \in Requests :
        step[q] = "handler" /\ TrustEnabled(env[at[q]]) =>
            claims[q] = user[q] /\ user[q] # Absent

\* A backend that enforces trust and has wired the logger makes no anonymous
\* east-west call without having warned of it: its handlers only run with an
\* identity to replay, and a background task has no snapshot at all.  (With trust
\* off the snapshot of an anonymous request is empty but there, and the warning
\* stays away.)
AnonymousCallsAreWarned ==
    \A b \in anonymous : TrustEnabled(env[b]) => warned[b]
=============================================================================
