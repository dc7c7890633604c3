---------------------------- MODULE AdminService ----------------------------
(***************************************************************************)
(* The /admin/<svc> REST surface: clients send requests, each request goes *)
(* through claims.FromHeader and claims.RequireAdmin to its handler, and   *)
(* the handler drives the runtimeconfig Manager and the FlagSet, which the *)
(* service restarts may interrupt.                                         *)
(*                                                                         *)
(* The Manager is used through its contract (ConfigContract, which         *)
(* RuntimeConfig is proved to implement), and so is the FlagSet            *)
(* (FlagContract, which FlagSet implements).  Errors are answered with     *)
(* the envelopes of httputils (ErrorEnvelope).                             *)
(***************************************************************************)
EXTENDS TrustContract, ConfigRegistry, FlagDecl, ErrorEnvelope, FiniteSets, Naturals

CONSTANTS
    Clients,     \* concurrent callers of the admin API
    Env,         \* the environment of the service
    HasFlags,    \* Config.Flags is not nil
    MaxLate,     \* bound: failed statements still on their way to Postgres
    Unknown      \* history only: the callers cannot know

ASSUME AdminAssumption ==
    /\ HasFlags \in BOOLEAN /\ (~HasFlags => Known = {})
    /\ MaxLate \in Nat
    /\ FlagNames = Names
    /\ {"true", "false"} \subseteq Raws
    /\ Unknown \notin Rows \cup FlagRows

VARIABLES
    rows, live, due,    \* the Manager, as in ConfigContract
    flagRows, flags, flagsDue,   \* the FlagSet, as in FlagContract
    late,               \* statements that failed for their caller and may still run
    boot,               \* where the service is in its start
    req,                \* client -> its request
    stage,              \* client -> where the request is
    answer,             \* client -> the answer
    effect,             \* history: what the request has changed or met
    toldRow,            \* history: key -> the row the callers know of
    toldFlag            \* history: flag -> the row the callers know of

Durable == TRUE
Manager == INSTANCE ConfigContract
FlagStore == INSTANCE FlagContract

managerVars == <<rows, live, due>>
flagVars == <<flagRows, flags, flagsDue>>
told == <<toldRow, toldFlag>>
vars == <<managerVars, flagVars, late, boot, req, stage, answer, effect, told>>

\* The two JSON booleans.
Bools == {"true", "false"}

\* A request: the route's method and path parameter, the "value" of the body
\* ("absent" for a body without one or that is no JSON) and the trust headers.
Methods == {"putConfig", "deleteConfig", "toggleFlag"}
Bodies == Raws \cup {"absent"}
NoRequest == [method |-> "none", name |-> None, body |-> "absent", hdr |-> NoHeaders]

\* The trust headers of a request: the gateway's for an admin, the gateway's for
\* somebody else, those of a gateway of another contract version, none.
HeaderMaps ==
    { [h \in Headers |-> "1"], [NoHeaders EXCEPT !["Version"] = "1"],
      [NoHeaders EXCEPT !["Version"] = "2", !["Admin"] = "1"], NoHeaders }

\* What a failed request may still execute.
Statements ==
    [table : {"config"}, name : Keys, row : Rows]
        \cup [table : {"flags"}, name : Known, row : Bools]

Status4xx == {400, 401, 403, 404, 409}
Answers == [status : {0, 200, 500} \cup Status4xx,
            code : {NoText, "AUTHENTICATION_FAILED", "FORBIDDEN", "IMMUTABLE",
                    "INTERNAL_ERROR", "INVALID_REQUEST", "INVALID_VALUE", "NOT_FOUND"},
            message : {NoText, "fixed", "reason"},
            log : {NoText, "warn", "error"}]

TypeOK ==
    /\ rows \in [Keys -> Rows]
    /\ live \in Overlays
    /\ flagRows \in [FlagNames -> FlagRows]
    /\ flags \in [Known -> BOOLEAN]
    /\ late \subseteq Statements
    /\ boot \in {"down", "config", "flags", "publishFlags", "up"}
    /\ stage \in [Clients -> {"idle", "handler", "publish", "replied"}]
    /\ req \in [Clients -> [method : Methods \cup {"none"}, name : Names \cup {None},
                           body : Bodies, hdr : HeaderMaps]]
    /\ answer \in [Clients -> Answers]
    /\ effect \in [Clients -> SUBSET {"row", "live", "flagRow", "flag", "outage", "overtaken"}]
    /\ toldRow \in [Keys -> Rows \cup {Unknown}]
    /\ toldFlag \in [Known -> FlagRows \cup {Unknown}]

Init ==
    /\ Manager!Init
    /\ FlagStore!Init
    /\ late = {}
    /\ boot = "down"
    /\ req = [c \in Clients |-> NoRequest]
    /\ stage = [c \in Clients |-> "idle"]
    /\ answer = [c \in Clients |-> NoAnswer]
    /\ effect = [c \in Clients |-> {}]
    /\ toldRow = rows
    /\ toldFlag = [f \in Known |-> flagRows[f]]

-----------------------------------------------------------------------------
(* Start and restart. *)

\* The OnStart hook of runtimeconfig: LoadAtBoot reads the rows, or fails open.
LoadConfig ==
    /\ boot = "down"
    /\ boot' = "config"
    /\ Manager!Load \/ UNCHANGED managerVars
    /\ UNCHANGED <<flagVars, late, req, stage, answer, effect, told>>

LoadConfigPublish ==
    /\ boot = "config"
    /\ boot' = "flags"
    /\ Manager!PublishDue \/ (due = Manager!Nothing /\ UNCHANGED managerVars)
    /\ UNCHANGED <<flagVars, late, req, stage, answer, effect, told>>

LoadFlags ==
    /\ boot = "flags"
    /\ boot' = "publishFlags"
    /\ FlagStore!LoadFlags \/ UNCHANGED flagVars
    /\ UNCHANGED <<managerVars, late, req, stage, answer, effect, told>>

LoadFlagsPublish ==
    /\ boot = "publishFlags"
    /\ boot' = "up"
    /\ FlagStore!PublishFlags \/ (flagsDue = FlagStore!Settled /\ UNCHANGED flagVars)
    /\ UNCHANGED <<managerVars, late, req, stage, answer, effect, told>>

\* The process dies with every request in it.  A caller whose write was under
\* way cannot know what became of it.
Interrupted(c, m) ==
    stage[c] \in {"handler", "publish"} /\ req[c].method \in m

Restart ==
    /\ boot # "down"
    /\ boot' = "down"
    /\ Manager!Restart
    /\ FlagStore!RestartFlags
    /\ toldRow' = [k \in Keys |->
          IF \E c \in Clients : Interrupted(c, {"putConfig", "deleteConfig"})
                                /\ req[c].name = k
          THEN Unknown ELSE toldRow[k]]
    /\ toldFlag' = [f \in Known |->
          IF \E c \in Clients : Interrupted(c, {"toggleFlag"}) /\ req[c].name = f
          THEN Unknown ELSE toldFlag[f]]
    /\ req' = [c \in Clients |-> NoRequest]
    /\ stage' = [c \in Clients |-> "idle"]
    /\ answer' = [c \in Clients |-> NoAnswer]
    /\ effect' = [c \in Clients |-> {}]
    /\ UNCHANGED late

-----------------------------------------------------------------------------
(* A request. *)

Reply(c, envelope) ==
    /\ answer' = [answer EXCEPT ![c] = envelope]
    /\ stage' = [stage EXCEPT ![c] = "replied"]

\* What this step changed is charged to the request.
Charge(c, outage) ==
    effect' = [effect EXCEPT ![c] = @
                 \cup {x \in {"row"} : rows' # rows}
                 \cup {x \in {"live"} : live' # live}
                 \cup {x \in {"flagRow"} : flagRows' # flagRows}
                 \cup {x \in {"flag"} : flags' # flags}
                 \cup {x \in {"outage"} : outage}]

\* FromHeader and RequireAdmin, in the order Register mounts them: the error they
\* abort with.
MiddlewareAnswer(r) ==
    CASE FromHeaderStatus(Env, r.hdr) = 401 ->
            SendAPIError(401, "AUTHENTICATION_FAILED", "fixed")
      [] FromHeaderStatus(Env, r.hdr) = 500 -> SendInternalError("version")
      [] OTHER -> IF RequireAdminStatus(Env, r.hdr) = 403 THEN SendForbidden("header")
                  ELSE NoAnswer

\* A client sends r.  The middlewares read nothing but the request and the
\* environment, so they are part of this step.
Send(c, r) ==
    /\ boot = "up"
    /\ stage[c] = "idle"
    /\ req' = [req EXCEPT ![c] = r]
    /\ IF MiddlewareAnswer(r) # NoAnswer THEN Reply(c, MiddlewareAnswer(r))
       ELSE stage' = [stage EXCEPT ![c] = "handler"] /\ UNCHANGED answer
    /\ UNCHANGED <<managerVars, flagVars, late, boot, effect, told>>

\* The row a config handler writes: the body's value, or none for DELETE.
RowOf(r) == IF r.method = "putConfig" THEN r.body ELSE None

\* Mutant: a validation failure is reported as a server error.
ConfigAnswer500(r) ==
    IF r.method = "putConfig" /\ r.body = "absent"
      THEN SendAPIError(400, "INVALID_REQUEST", "fixed")
    ELSE CASE Refusal(r.name, RowOf(r)) = "ErrUnknownKey" -> SendNotFound
           [] Refusal(r.name, RowOf(r)) = "ErrImmutable" -> SendAPIError(409, "IMMUTABLE", "fixed")
           [] Refusal(r.name, RowOf(r)) = "ErrInvalidValue" -> SendInternalError("value")
           [] OTHER -> NoAnswer

\* The error for a request that the binding or the Manager refuses.
ConfigAnswer(r) ==
    IF r.method = "putConfig" /\ r.body = "absent"
      THEN SendAPIError(400, "INVALID_REQUEST", "fixed")
    ELSE CASE Refusal(r.name, RowOf(r)) = "ErrUnknownKey" -> SendNotFound
           [] Refusal(r.name, RowOf(r)) = "ErrImmutable" -> SendAPIError(409, "IMMUTABLE", "fixed")
           [] Refusal(r.name, RowOf(r)) = "ErrInvalidValue" ->
                SendAPIError(400, "INVALID_VALUE", "reason")
           [] OTHER -> NoAnswer

ConfigHandler(c) ==
    stage[c] = "handler" /\ req[c].method \in {"putConfig", "deleteConfig"}

ConfigRefused(c) ==
    /\ ConfigHandler(c)
    /\ ConfigAnswer(req[c]) # NoAnswer
    /\ Reply(c, ConfigAnswer(req[c]))
    /\ UNCHANGED <<managerVars, flagVars, late, boot, req, effect, told>>

\* Manager.Apply or Manager.Clear persists; a hot key is still to be published.
ConfigCommit(c) ==
    LET k == req[c].name  row == RowOf(req[c]) IN
    /\ ConfigHandler(c)
    /\ ConfigAnswer(req[c]) = NoAnswer
    /\ Manager!Commit(k, row)
    /\ IF k \in RestartRequired
         THEN Reply(c, AnswerOK) /\ toldRow' = [toldRow EXCEPT ![k] = row]
         ELSE /\ stage' = [stage EXCEPT ![c] = "publish"]
              /\ toldRow' = [toldRow EXCEPT ![k] = Unknown]
              /\ UNCHANGED answer
    /\ UNCHANGED <<flagVars, late, boot, req, toldFlag>>
    /\ Charge(c, FALSE)

\* The row that the caller is told of, unless a late statement has overtaken it.
Known200(c, row) == IF "overtaken" \in effect[c] THEN Unknown ELSE row

ConfigPublish(c) ==
    LET k == req[c].name IN
    /\ stage[c] = "publish"
    /\ req[c].method # "toggleFlag"
    /\ Manager!PublishDue
    /\ Reply(c, AnswerOK)
    /\ toldRow' = [toldRow EXCEPT ![k] = Known200(c, RowOf(req[c]))]
    /\ UNCHANGED <<flagVars, late, boot, req, toldFlag>>
    /\ Charge(c, FALSE)

\* Mutant: the store error is logged and the value published all the same.
ConfigStoreErrorLive(c) ==
    LET k == req[c].name IN
    /\ ConfigHandler(c)
    /\ ConfigAnswer(req[c]) = NoAnswer
    /\ due = Manager!Nothing
    /\ live' = [live EXCEPT ![k] = LiveOf(k, RowOf(req[c]))]
    /\ Reply(c, SendInternalError("store"))
    /\ toldRow' = [toldRow EXCEPT ![k] = Unknown]
    /\ UNCHANGED <<rows, due, flagVars, late, boot, req, toldFlag>>
    /\ Charge(c, TRUE)

\* A failed statement that Postgres may still execute, after the caller gave it up.
LeftLate(statement) ==
    /\ Cardinality(late) < MaxLate
    /\ late' = late \cup {statement}

\* The store fails: a generic 500, whether the statement was executed, is lost or is
\* still under way.
ConfigStoreError(c) ==
    LET k == req[c].name IN
    /\ ConfigHandler(c)
    /\ ConfigAnswer(req[c]) = NoAnswer
    /\ due = Manager!Nothing
    /\ \/ Manager!Stray(k, RowOf(req[c])) /\ UNCHANGED late
       \/ UNCHANGED <<managerVars, late>>
       \/ /\ LeftLate([table |-> "config", name |-> k, row |-> RowOf(req[c])])
          /\ UNCHANGED managerVars
    /\ Reply(c, SendInternalError("store"))
    /\ toldRow' = [toldRow EXCEPT ![k] = Unknown]
    /\ UNCHANGED <<flagVars, boot, req, toldFlag>>
    /\ Charge(c, TRUE)

-----------------------------------------------------------------------------
(* toggleFlag. *)

FlagHandler(c) == stage[c] = "handler" /\ req[c].method = "toggleFlag"

\* No FlagSet answers 404 before the body is read; a value that is no bool 400;
\* an undeclared flag 404.
ToggleAnswer(r) ==
    IF ~HasFlags THEN SendNotFound
    ELSE IF r.body \notin Bools THEN SendAPIError(400, "INVALID_REQUEST", "fixed")
    ELSE IF r.name \notin Known THEN SendNotFound
    ELSE NoAnswer

ToggleRefused(c) ==
    /\ FlagHandler(c)
    /\ ToggleAnswer(req[c]) # NoAnswer
    /\ Reply(c, ToggleAnswer(req[c]))
    /\ UNCHANGED <<managerVars, flagVars, late, boot, req, effect, told>>

\* Mutant: the FlagSet uses the table of the Manager.
ToggleCommitShared(c) ==
    LET f == req[c].name IN
    /\ FlagHandler(c)
    /\ ToggleAnswer(req[c]) = NoAnswer
    /\ FlagStore!Toggle(f, req[c].body = "true")
    /\ rows' = [k \in Keys |-> IF k = f THEN CHOOSE raw \in Raws : TRUE ELSE rows[k]]
    /\ toldFlag' = [toldFlag EXCEPT ![f] = Unknown]
    /\ stage' = [stage EXCEPT ![c] = "publish"]
    /\ UNCHANGED <<live, due, late, boot, req, answer, toldRow>>
    /\ Charge(c, FALSE)

\* FlagSet.Set persists in its own table; the flag is still to be published.
ToggleCommit(c) ==
    LET f == req[c].name IN
    /\ FlagHandler(c)
    /\ ToggleAnswer(req[c]) = NoAnswer
    /\ FlagStore!Toggle(f, req[c].body = "true")
    /\ toldFlag' = [toldFlag EXCEPT ![f] = Unknown]
    /\ stage' = [stage EXCEPT ![c] = "publish"]
    /\ UNCHANGED <<managerVars, late, boot, req, answer, toldRow>>
    /\ Charge(c, FALSE)

TogglePublish(c) ==
    LET f == req[c].name IN
    /\ stage[c] = "publish"
    /\ req[c].method = "toggleFlag"
    /\ FlagStore!PublishFlags
    /\ toldFlag' = [toldFlag EXCEPT ![f] = Known200(c, req[c].body)]
    /\ Reply(c, AnswerOK)
    /\ UNCHANGED <<managerVars, late, boot, req, toldRow>>
    /\ Charge(c, FALSE)

ToggleStoreError(c) ==
    LET f == req[c].name IN
    /\ FlagHandler(c)
    /\ ToggleAnswer(req[c]) = NoAnswer
    /\ flagsDue = FlagStore!Settled
    /\ \/ FlagStore!StrayToggle(f, req[c].body = "true") /\ UNCHANGED late
       \/ UNCHANGED <<flagVars, late>>
       \/ /\ LeftLate([table |-> "flags", name |-> f, row |-> req[c].body])
          /\ UNCHANGED flagVars
    /\ toldFlag' = [toldFlag EXCEPT ![f] = Unknown]
    /\ Reply(c, SendInternalError("store"))
    /\ UNCHANGED <<managerVars, boot, req, toldRow>>
    /\ Charge(c, TRUE)

\* The client takes the answer.
Receive(c) ==
    /\ stage[c] = "replied"
    /\ stage' = [stage EXCEPT ![c] = "idle"]
    /\ req' = [req EXCEPT ![c] = NoRequest]
    /\ answer' = [answer EXCEPT ![c] = NoAnswer]
    /\ effect' = [effect EXCEPT ![c] = {}]
    /\ UNCHANGED <<managerVars, flagVars, late, boot, told>>

-----------------------------------------------------------------------------
(* A statement that failed for its caller reaches Postgres late, or never. *)

\* The handlers between persist and publish on the row that o writes.
Overtakes(o, c) ==
    /\ stage[c] = "publish" /\ req[c].name = o.name
    /\ (o.table = "flags") = (req[c].method = "toggleFlag")

Overtake(o) ==
    effect' = [c \in Clients |-> effect[c] \cup {x \in {"overtaken"} : Overtakes(o, c)}]

\* No caller knows the row any more: it was answered 500, or an answer is outdated.
LateConfig(o) ==
    /\ o \in late /\ o.table = "config"
    /\ late' = late \ {o}
    /\ Manager!Stray(o.name, o.row)
    /\ Overtake(o)
    /\ toldRow' = [toldRow EXCEPT ![o.name] = Unknown]
    /\ UNCHANGED <<flagVars, boot, req, stage, answer, toldFlag>>

LateFlag(o) ==
    /\ o \in late /\ o.table = "flags"
    /\ late' = late \ {o}
    /\ FlagStore!StrayToggle(o.name, o.row = "true")
    /\ Overtake(o)
    /\ toldFlag' = [toldFlag EXCEPT ![o.name] = Unknown]
    /\ UNCHANGED <<managerVars, boot, req, stage, answer, toldRow>>

LateDrop(o) ==
    /\ o \in late
    /\ late' = late \ {o}
    /\ UNCHANGED <<managerVars, flagVars, boot, req, stage, answer, effect, told>>

-----------------------------------------------------------------------------
Handler(c) ==
    \/ ConfigRefused(c) \/ ConfigCommit(c) \/ ConfigPublish(c) \/ ConfigStoreError(c)
    \/ ToggleRefused(c) \/ ToggleCommit(c) \/ TogglePublish(c) \/ ToggleStoreError(c)

\* Any call of the API; a DELETE has no body.
Call(c) ==
    \E m \in Methods, n \in Names, b \in Bodies, h \in HeaderMaps :
        /\ m = "deleteConfig" => b = "absent"
        /\ Send(c, [method |-> m, name |-> n, body |-> b, hdr |-> h])

Next ==
    \/ LoadConfig \/ LoadConfigPublish \/ LoadFlags \/ LoadFlagsPublish \/ Restart
    \/ \E c \in Clients : Call(c) \/ Handler(c) \/ Receive(c)
    \/ \E o \in late : LateConfig(o) \/ LateFlag(o) \/ LateDrop(o)

Spec == Init /\ [][Next]_vars

-----------------------------------------------------------------------------
\* No header is asked for in local development, with both opt-in variables set.
AdminForAll == ~TrustEnabled(Env) /\ insecureAdminEnabled(Env)

AnswerTellsEffect(c) ==
    stage[c] \in {"publish", "replied"} =>
        /\ answer[c].status \in Status4xx => effect[c] = {}
        /\ answer[c].status = 500 => effect[c] \cap {"live", "flag"} = {}
        /\ req[c].method = "toggleFlag" => effect[c] \subseteq {"flagRow", "flag", "outage", "overtaken"}
        /\ req[c].method # "toggleFlag" => effect[c] \subseteq {"row", "live", "outage", "overtaken"}
        /\ effect[c] # {} => req[c].hdr["Admin"] = AdminHeaderValue \/ AdminForAll

\* The answer tells what the request did: a client error changed nothing; a
\* store outage (500) never changed what is live; a config request touches no
\* flag and a toggle no config key; only an admin's request changes anything.
AnswerMatchesEffect == \A c \in Clients : AnswerTellsEffect(c)

\* Whether the request is well formed: a declared flag and a boolean, a mutable
\* key and a value that is valid for it.
WellFormed(r) ==
    IF r.method = "toggleFlag" THEN r.name \in Known /\ r.body \in Bools
    ELSE /\ r.name \in Mutable
         /\ r.method = "putConfig" => LiveOf(r.name, r.body) # None

AnswerBlames(c) ==
    stage[c] = "replied" =>
        LET mismatch == FromHeaderStatus(Env, req[c].hdr) = 500 IN
        /\ answer[c].log = "error" <=> "outage" \in effect[c] \/ mismatch
        /\ answer[c].log = "error" => answer[c].message = "fixed"
        /\ answer[c].status \in {200, 500} /\ ~mismatch => WellFormed(req[c])

\* Alerting and blame: what is logged as an error is a store outage or a gateway
\* of another version, never a faulty request ("so 5xx alerting sees a store
\* outage"), and an outage is never missed; its text ("host, user, table") is not
\* sent; a faulty request is told so with a 4xx, never with 200 or 500.
FaultyRequestsAre4xx == \A c \in Clients : AnswerBlames(c)

\* What was answered with 200 is in the tables, for config keys and for flags of the
\* same name: it is what the next start of the service reads back, until another
\* statement writes the row.  That statement may be an older one, which was answered
\* with 500 and reaches Postgres after the answer 200 (toldRow is Unknown then).
AnsweredWritesPersist ==
    /\ \A k \in Keys : toldRow[k] # Unknown => rows[k] = toldRow[k]
    /\ \A f \in Known : toldFlag[f] # Unknown => flagRows[f] = toldFlag[f]
=============================================================================
