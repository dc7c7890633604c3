----------------------------- MODULE TrustProofs -----------------------------
(***************************************************************************)
(* Proofs about what the gateway's headers are trusted with.               *)
(*                                                                         *)
(* The admin surface (AdminService), for any number of concurrent clients, *)
(* any registry, any declared flags and any environment of the service.    *)
(* The Manager and the FlagSet are used through their contracts, which     *)
(* RuntimeConfig and FlagSet are proved to implement.                      *)
(*                                                                         *)
(* The travel of an identity (EastWest), for any number of requests in     *)
(* flight, backends, users and hops, and any environments the backends     *)
(* were started with.  Which variable decides in an environment plays no   *)
(* part: TrustEnabled and insecureAdminEnabled are not expanded.           *)
(***************************************************************************)
EXTENDS AdminService, EastWest, TLAPS

-----------------------------------------------------------------------------
(* The admin surface. *)

(* The inductive invariant. *)

AdminRequests ==
    [method : Methods \cup {"none"}, name : Names \cup {None}, body : Bodies,
     hdr : HeaderMaps]

\* The Manager and the FlagSet are typed, with what they owe to what is live.
ManagerTyped ==
    /\ rows \in [Keys -> Rows]
    /\ live \in Overlays
    /\ \A k \in Keys : k \in DOMAIN due => due[k] \in Values \cup {None}

FlagsTyped ==
    /\ flagRows \in [FlagNames -> FlagRows]
    /\ flags \in [Known -> BOOLEAN]
    /\ \A f \in Known : f \in DOMAIN flagsDue => flagsDue[f] \in BOOLEAN

TypeInv == TypeOK /\ ManagerTyped /\ FlagsTyped

\* A request that has not persisted anything has no effect to answer for, and there
\* is no answer before the reply.
Untouched(c) ==
    /\ stage[c] \in {"idle", "handler"} => effect[c] = {}
    /\ stage[c] # "replied" => answer[c] = NoAnswer

\* A request under way was sent to a running service, and a handler runs behind both
\* middlewares.
Admitted(c) ==
    stage[c] # "idle" =>
        /\ boot = "up"
        /\ req[c].method \in Methods
        /\ stage[c] # "replied" => MiddlewareAnswer(req[c]) = NoAnswer

\* A handler between persist and publish: nobody else writes until it has published,
\* and its row is in the table unless a late statement has overtaken it.
OwesConfig(c) == stage[c] = "publish" /\ req[c].method # "toggleFlag"
OwesFlag(c) == stage[c] = "publish" /\ req[c].method = "toggleFlag"

ConfigOwed(c) ==
    OwesConfig(c) =>
        /\ ConfigAnswer(req[c]) = NoAnswer
        /\ due # Manager!Nothing
        /\ "overtaken" \notin effect[c] => rows[req[c].name] = RowOf(req[c])
        /\ effect[c] \subseteq {"row", "overtaken"}

FlagOwed(c) ==
    OwesFlag(c) =>
        /\ ToggleAnswer(req[c]) = NoAnswer
        /\ flagsDue # FlagStore!Settled
        /\ "overtaken" \notin effect[c] => flagRows[req[c].name] = req[c].body
        /\ effect[c] \subseteq {"flagRow", "overtaken"}

\* At most one handler is in the Manager's write section, one in the FlagSet's.
Exclusive ==
    \A c, d \in Clients :
        (OwesConfig(c) /\ OwesConfig(d)) \/ (OwesFlag(c) /\ OwesFlag(d)) => c = d

Sound(c) ==
    /\ Untouched(c) /\ Admitted(c) /\ ConfigOwed(c) /\ FlagOwed(c)
    /\ AnswerTellsEffect(c) /\ AnswerBlames(c)

ServiceInv == (\A c \in Clients : Sound(c)) /\ Exclusive /\ AnsweredWritesPersist

-----------------------------------------------------------------------------
(* The answers. *)

LEMMA NoTextIsNoLevel == NoText \notin {"warn", "error", "fixed", "reason"}
  BY Zenon DEF NoText

LEMMA StatusRange ==
    ASSUME NEW h
    PROVE  /\ FromHeaderStatus(Env, h) \in {0, 401, 500}
           /\ RequireAdminStatus(Env, h) \in {0, 403}
           /\ RequireAdminStatus(Env, h) = 0 => h["Admin"] = AdminHeaderValue \/ AdminForAll
  BY DEF FromHeaderStatus, RequireAdminStatus, AdminForAll

\* What FromHeader and RequireAdmin answer.
LEMMA MiddlewareAnswers ==
    ASSUME NEW r
    PROVE  LET a == MiddlewareAnswer(r)
               mismatch == FromHeaderStatus(Env, r.hdr) = 500
           IN  /\ a \in Answers
               /\ a # NoAnswer => /\ a.status \in Status4xx \cup {500}
                                  /\ a.status = 500 <=> mismatch
                                  /\ a.log = "error" <=> mismatch
                                  /\ a.log = "error" => a.message = "fixed"
               /\ a = NoAnswer => /\ ~mismatch
                                  /\ r.hdr["Admin"] = AdminHeaderValue \/ AdminForAll
  <1> USE NoTextIsNoLevel
      DEF MiddlewareAnswer, Answers, Status4xx, NoAnswer, Envelope, SendAPIError,
          SendInternalError, SendForbidden
  <1>1. CASE FromHeaderStatus(Env, r.hdr) = 401
    BY <1>1
  <1>2. CASE FromHeaderStatus(Env, r.hdr) = 500
    BY <1>2
  <1>3. CASE FromHeaderStatus(Env, r.hdr) = 0
    <2>1. CASE RequireAdminStatus(Env, r.hdr) = 403
      BY <1>3, <2>1
    <2>2. CASE RequireAdminStatus(Env, r.hdr) = 0
      BY <1>3, <2>2, StatusRange
    <2>3. QED
      BY <2>1, <2>2, StatusRange
  <1>4. QED
    BY <1>1, <1>2, <1>3, StatusRange

\* What a config handler refuses, and what it lets through.
LEMMA ConfigAnswers ==
    ASSUME NEW r
    PROVE  LET a == ConfigAnswer(r)
           IN  /\ a \in Answers
               /\ a # NoAnswer => a.status \in Status4xx /\ a.log = "warn"
               /\ a = NoAnswer => /\ Refusal(r.name, RowOf(r)) = "none"
                                  /\ r.method = "putConfig" => r.body # "absent"
  <1> USE NoTextIsNoLevel
      DEF ConfigAnswer, Answers, Status4xx, NoAnswer, Envelope, SendAPIError, SendNotFound
  <1>1. CASE r.method = "putConfig" /\ r.body = "absent"
    BY <1>1
  <1>2. CASE ~(r.method = "putConfig" /\ r.body = "absent")
    <2>1. Refusal(r.name, RowOf(r))
            \in {"ErrUnknownKey", "ErrImmutable", "ErrInvalidValue", "none"}
      BY DEF Refusal
    <2>2. QED
      BY <1>2, <2>1
  <1>3. QED
    BY <1>1, <1>2

LEMMA ToggleAnswers ==
    ASSUME NEW r
    PROVE  LET a == ToggleAnswer(r)
           IN  /\ a \in Answers
               /\ a # NoAnswer => a.status \in Status4xx /\ a.log = "warn"
               /\ a = NoAnswer => r.name \in Known /\ r.body \in Bools
  BY NoTextIsNoLevel
  DEF ToggleAnswer, Answers, Status4xx, NoAnswer, Envelope, SendAPIError, SendNotFound

LEMMA FinalAnswers ==
    /\ NoAnswer \in Answers /\ AnswerOK \in Answers /\ SendInternalError("store") \in Answers
    /\ NoAnswer.status = 0 /\ NoAnswer.log = NoText
    /\ AnswerOK.status = 200 /\ AnswerOK.log = NoText
    /\ SendInternalError("store").status = 500
    /\ SendInternalError("store").log = "error"
    /\ SendInternalError("store").message = "fixed"
  BY DEF Answers, NoAnswer, AnswerOK, SendInternalError, Envelope

\* What a config handler persists is a valid row of a mutable key.
LEMMA AcceptedConfig ==
    ASSUME NEW r \in AdminRequests, r.method \in {"putConfig", "deleteConfig"},
           ConfigAnswer(r) = NoAnswer
    PROVE  /\ r.name \in Keys /\ RowOf(r) \in Rows
           /\ WellFormed(r)
           /\ Manager!Writable(r.name, RowOf(r))
  <1>1. Refusal(r.name, RowOf(r)) = "none" /\ (r.method = "putConfig" => r.body # "absent")
    BY ConfigAnswers
  <1>2. r.name \in Mutable
    BY <1>1 DEF Refusal
  <1>3. RowOf(r) \in Rows /\ (r.method = "putConfig" => r.body \in Raws)
    BY <1>1 DEF AdminRequests, Bodies, RowOf, Rows
  <1>4. r.method = "putConfig" => LiveOf(r.name, r.body) # None
    BY <1>1, <1>2, <1>3, NamesAssumption, DecodeAssumption DEF Refusal, RowOf, LiveOf
  <1>5. Manager!Writable(r.name, RowOf(r))
    BY <1>1 DEF Manager!Writable, Manager!Refusal, Refusal
  <1>6. QED
    BY <1>2, <1>3, <1>4, <1>5, NamesAssumption DEF WellFormed

\* What toggleFlag persists is the body, for a declared flag.
LEMMA AcceptedToggle ==
    ASSUME NEW r \in AdminRequests, r.method = "toggleFlag", ToggleAnswer(r) = NoAnswer
    PROVE  /\ r.name \in Known /\ r.body \in Bools
           /\ WellFormed(r)
           /\ FlagStore!Marshal(r.body = "true") = r.body
  BY ToggleAnswers DEF WellFormed, Bools, FlagStore!Marshal

-----------------------------------------------------------------------------
(* The service drives the Manager and the FlagSet within their contracts. *)

ManagerStep == [Manager!Next]_managerVars
FlagStep == [FlagStore!Next]_flagVars

LEMMA ManagerTypedStep == ManagerTyped /\ ManagerStep => ManagerTyped'
  <1> SUFFICES ASSUME ManagerTyped, ManagerStep PROVE ManagerTyped'
    OBVIOUS
  <1>0. \A row : \A k \in Keys : Manager!LiveOf(k, row) \in Values \cup {None}
    BY DecodeAssumption DEF Manager!LiveOf
  <1>1. ASSUME NEW k \in Keys, NEW row \in Manager!Rows,
               Manager!Commit(k, row) \/ Manager!Stray(k, row)
        PROVE  ManagerTyped'
    <2>1. rows' = [rows EXCEPT ![k] = row] /\ live' = live
      BY <1>1 DEF Manager!Commit, Manager!Stray
    <2>2. \/ due' = due \/ due' = Manager!Nothing
          \/ due' = [x \in {k} |-> Manager!LiveOf(x, row)]
      BY <1>1 DEF Manager!Commit, Manager!Stray
    <2>3. QED
      BY <1>0, <2>1, <2>2 DEF ManagerTyped, Manager!Nothing, Manager!Rows, Rows
  <1>2. CASE Manager!Load
    BY <1>0, <1>2 DEF Manager!Load, Manager!LoadedOverlay, ManagerTyped
  <1>3. CASE Manager!PublishDue
    BY <1>3 DEF Manager!PublishDue, Manager!Nothing, ManagerTyped, Overlays
  <1>4. CASE Manager!Restart
    BY <1>4 DEF Manager!Restart, Manager!Nothing, Manager!newOverlay, Durable, ManagerTyped,
                Overlays
  <1>5. CASE UNCHANGED managerVars
    BY <1>5 DEF managerVars, ManagerTyped
  <1>6. QED
    BY <1>1, <1>2, <1>3, <1>4, <1>5 DEF ManagerStep, Manager!Next

LEMMA FlagsTypedStep == FlagsTyped /\ FlagStep => FlagsTyped'
  <1> SUFFICES ASSUME FlagsTyped, FlagStep PROVE FlagsTyped'
    OBVIOUS
  <1> USE FlagAssumption DEF FlagsTyped, FlagStore!Settled
  <1>1. ASSUME NEW f \in Known, NEW v \in BOOLEAN,
               FlagStore!Toggle(f, v) \/ FlagStore!StrayToggle(f, v)
        PROVE  FlagsTyped'
    <2>1. flagRows' = [flagRows EXCEPT ![f] = FlagStore!Marshal(v)] /\ flags' = flags
      BY <1>1 DEF FlagStore!Toggle, FlagStore!StrayToggle
    <2>2. flagsDue' = flagsDue \/ flagsDue' = [x \in {f} |-> v]
      BY <1>1 DEF FlagStore!Toggle, FlagStore!StrayToggle
    <2>3. flagRows' \in [FlagNames -> FlagRows]
      BY <2>1 DEF FlagStore!Marshal, FlagRows
    <2>4. QED
      BY <2>1, <2>2, <2>3
  <1>2. CASE FlagStore!LoadFlags
    BY <1>2 DEF FlagStore!LoadFlags, FlagStore!LoadedFlags
  <1>3. CASE FlagStore!PublishFlags
    BY <1>3 DEF FlagStore!PublishFlags
  <1>4. CASE FlagStore!RestartFlags
    BY <1>4 DEF FlagStore!RestartFlags
  <1>5. CASE UNCHANGED flagVars
    BY <1>5 DEF flagVars
  <1>6. QED
    BY <1>1, <1>2, <1>3, <1>4, <1>5 DEF FlagStep, FlagStore!Next

LEMMA CommitOrStray ==
    ASSUME NEW k \in Keys, NEW row \in Rows, Manager!Commit(k, row) \/ Manager!Stray(k, row)
    PROVE  ManagerStep
  <1>1. row \in Manager!Rows
    BY DEF Rows, Manager!Rows
  <1>2. QED
    BY <1>1, Zenon DEF ManagerStep, Manager!Next

LEMMA ToggleOrStray ==
    ASSUME NEW f \in Known, NEW v \in BOOLEAN,
           FlagStore!Toggle(f, v) \/ FlagStore!StrayToggle(f, v)
    PROVE  FlagStep
  BY Zenon DEF FlagStep, FlagStore!Next

\* A handler calls Apply, Clear or Set only with what they accept, and nothing
\* else of the service touches their state.
LEMMA ContractsKept == TypeInv /\ [Next]_vars => ManagerStep /\ FlagStep
  <1> SUFFICES ASSUME TypeInv, [Next]_vars PROVE ManagerStep /\ FlagStep
    OBVIOUS
  <1> \A c \in Clients : req[c] \in AdminRequests
    BY DEF TypeInv, TypeOK, AdminRequests
  <1> USE DEF ManagerStep, FlagStep, managerVars, flagVars
  <1>1. CASE LoadConfig \/ LoadConfigPublish
    BY <1>1 DEF LoadConfig, LoadConfigPublish, Manager!Next
  <1>2. CASE LoadFlags \/ LoadFlagsPublish
    BY <1>2 DEF LoadFlags, LoadFlagsPublish, FlagStore!Next
  <1>3. CASE Restart
    BY <1>3 DEF Restart, Manager!Next, FlagStore!Next
  <1>4. ASSUME NEW c \in Clients, NEW r, Send(c, r) PROVE ManagerStep /\ FlagStep
    BY <1>4 DEF Send
  <1>5. ASSUME NEW c \in Clients, ConfigRefused(c) \/ ToggleRefused(c) \/ Receive(c)
        PROVE  ManagerStep /\ FlagStep
    BY <1>5 DEF ConfigRefused, ToggleRefused, Receive
  <1>6. ASSUME NEW c \in Clients, ConfigCommit(c) \/ ConfigStoreError(c)
        PROVE  ManagerStep /\ FlagStep
    <2>1. req[c].name \in Keys /\ RowOf(req[c]) \in Rows
      BY <1>6, AcceptedConfig DEF ConfigCommit, ConfigStoreError, ConfigHandler
    <2>2. \/ Manager!Commit(req[c].name, RowOf(req[c]))
          \/ Manager!Stray(req[c].name, RowOf(req[c]))
          \/ UNCHANGED managerVars
      BY <1>6 DEF ConfigCommit, ConfigStoreError
    <2>3. UNCHANGED flagVars
      BY <1>6 DEF ConfigCommit, ConfigStoreError
    <2>4. QED
      BY <2>1, <2>2, <2>3, CommitOrStray
  <1>7. ASSUME NEW c \in Clients, ConfigPublish(c) PROVE ManagerStep /\ FlagStep
    BY <1>7 DEF ConfigPublish, Manager!Next
  <1>8. ASSUME NEW c \in Clients, ToggleCommit(c) \/ ToggleStoreError(c)
        PROVE  ManagerStep /\ FlagStep
    <2>1. req[c].name \in Known
      BY <1>8, AcceptedToggle DEF ToggleCommit, ToggleStoreError, FlagHandler
    <2>2. PICK v \in BOOLEAN : v = (req[c].body = "true")
      OBVIOUS
    <2>3. \/ FlagStore!Toggle(req[c].name, v)
          \/ FlagStore!StrayToggle(req[c].name, v)
          \/ UNCHANGED flagVars
      BY <1>8, <2>2 DEF ToggleCommit, ToggleStoreError
    <2>4. UNCHANGED managerVars
      BY <1>8 DEF ToggleCommit, ToggleStoreError
    <2>5. QED
      BY <2>1, <2>3, <2>4, ToggleOrStray
  <1>9. ASSUME NEW c \in Clients, TogglePublish(c) PROVE ManagerStep /\ FlagStep
    BY <1>9 DEF TogglePublish, FlagStore!Next
  <1>10. CASE UNCHANGED vars
    BY <1>10 DEF vars
  <1>11. ASSUME NEW o \in late, LateConfig(o) \/ LateFlag(o) \/ LateDrop(o)
        PROVE  ManagerStep /\ FlagStep
    <2>1. CASE LateConfig(o)
      <3>1. o.name \in Keys /\ o.row \in Rows /\ UNCHANGED flagVars
        BY <2>1 DEF LateConfig, TypeInv, TypeOK, Statements
      <3>2. QED
        BY <2>1, <3>1, CommitOrStray DEF LateConfig
    <2>2. CASE LateFlag(o)
      <3>1. o.name \in Known /\ UNCHANGED managerVars
        BY <2>2 DEF LateFlag, TypeInv, TypeOK, Statements
      <3>2. PICK v \in BOOLEAN : v = (o.row = "true")
        OBVIOUS
      <3>3. FlagStore!StrayToggle(o.name, v)
        BY <2>2, <3>2 DEF LateFlag
      <3>4. QED
        BY <3>1, <3>3, ToggleOrStray
    <2>3. CASE LateDrop(o)
      BY <2>3 DEF LateDrop
    <2>4. QED
      BY <1>11, <2>1, <2>2, <2>3
  <1>12. QED
    BY <1>1, <1>2, <1>3, <1>4, <1>5, <1>6, <1>7, <1>8, <1>9, <1>10, <1>11
    DEF Next, Handler, Call

-----------------------------------------------------------------------------
(* Types. *)

Effects == {"row", "live", "flagRow", "flag", "outage", "overtaken"}

\* What a step changes is charged to the request that takes it, and only to it.
LEMMA Charged ==
    ASSUME effect \in [Clients -> SUBSET Effects], NEW c \in Clients, NEW outage \in BOOLEAN,
           Charge(c, outage)
    PROVE  /\ effect' \in [Clients -> SUBSET Effects]
           /\ \A d \in Clients : d # c => effect'[d] = effect[d]
           /\ "outage" \in effect'[c] <=> "outage" \in effect[c] \/ outage
           /\ "overtaken" \in effect'[c] <=> "overtaken" \in effect[c]
           /\ rows' = rows => ("row" \in effect'[c] <=> "row" \in effect[c])
           /\ live' = live => ("live" \in effect'[c] <=> "live" \in effect[c])
           /\ flagRows' = flagRows => ("flagRow" \in effect'[c] <=> "flagRow" \in effect[c])
           /\ flags' = flags => ("flag" \in effect'[c] <=> "flag" \in effect[c])
  <1>1. effect' = [effect EXCEPT ![c] = effect[c]
                 \cup {x \in {"row"} : rows' # rows}
                 \cup {x \in {"live"} : live' # live}
                 \cup {x \in {"flagRow"} : flagRows' # flagRows}
                 \cup {x \in {"flag"} : flags' # flags}
                 \cup {x \in {"outage"} : outage}]
    BY DEF Charge
  <1>2. QED
    BY <1>1 DEF Effects

\* The calls of the API are typed requests.
LEMMA CallIsSend ==
    ASSUME NEW c, Call(c)
    PROVE  \E r \in AdminRequests : r.method \in Methods /\ Send(c, r)
  <1>1. PICK m \in Methods, n \in Names, b \in Bodies, h \in HeaderMaps :
          Send(c, [method |-> m, name |-> n, body |-> b, hdr |-> h])
    BY DEF Call
  <1>2. [method |-> m, name |-> n, body |-> b, hdr |-> h] \in AdminRequests
    BY DEF AdminRequests
  <1>3. QED
    BY <1>1, <1>2

LEMMA TypeInit == Init => TypeInv
  <1> SUFFICES ASSUME Init PROVE TypeInv
    OBVIOUS
  <1>1. ManagerTyped
    BY DEF Init, Manager!Init, Manager!newOverlay, Manager!Nothing, Manager!Rows, Rows,
           Durable, ManagerTyped, Overlays
  <1>2. FlagsTyped
    BY FlagAssumption
    DEF Init, FlagStore!Init, FlagStore!FlagRows, FlagRows, FlagStore!Settled, FlagsTyped
  <1>3. NoRequest \in AdminRequests
    BY DEF NoRequest, AdminRequests, HeaderMaps, Bodies
  <1>4. toldRow \in [Keys -> Rows \cup {Unknown}]
    BY <1>1 DEF Init, ManagerTyped
  <1>5. toldFlag \in [Known -> FlagRows \cup {Unknown}]
    BY <1>2, FlagAssumption DEF Init, FlagsTyped
  <1>6. QED
    BY <1>1, <1>2, <1>3, <1>4, <1>5, FinalAnswers
    DEF Init, TypeInv, TypeOK, ManagerTyped, FlagsTyped, AdminRequests

LEMMA TypeStep == TypeInv /\ ServiceInv /\ [Next]_vars => TypeInv'
  <1> SUFFICES ASSUME TypeInv, ServiceInv, [Next]_vars PROVE TypeInv'
    OBVIOUS
  <1> USE DEF told
  <1>0. ManagerTyped' /\ FlagsTyped'
    BY ContractsKept, ManagerTypedStep, FlagsTypedStep DEF TypeInv
  <1> DEFINE LocalTyped ==
        /\ late \subseteq Statements
        /\ boot \in {"down", "config", "flags", "publishFlags", "up"}
        /\ stage \in [Clients -> {"idle", "handler", "publish", "replied"}]
        /\ req \in [Clients -> AdminRequests]
        /\ answer \in [Clients -> Answers]
        /\ effect \in [Clients -> SUBSET Effects]
        /\ toldRow \in [Keys -> Rows \cup {Unknown}]
        /\ toldFlag \in [Known -> FlagRows \cup {Unknown}]
  <1> LocalTyped
    BY DEF TypeInv, TypeOK, AdminRequests, Effects
  <1> SUFFICES LocalTyped'
    BY <1>0 DEF TypeInv, TypeOK, ManagerTyped, FlagsTyped, AdminRequests, Effects
  <1> NoRequest \in AdminRequests
    BY DEF NoRequest, AdminRequests, HeaderMaps, Bodies
  <1> USE FinalAnswers
  <1>1. CASE LoadConfig \/ LoadConfigPublish \/ LoadFlags \/ LoadFlagsPublish
    BY <1>1 DEF LoadConfig, LoadConfigPublish, LoadFlags, LoadFlagsPublish
  <1>2. CASE Restart
    BY <1>2 DEF Restart
  <1>3. ASSUME NEW c \in Clients, NEW r \in AdminRequests, Send(c, r) PROVE LocalTyped'
    <2>1. MiddlewareAnswer(r) \in Answers
      BY MiddlewareAnswers
    <2>2. QED
      BY <1>3, <2>1 DEF Send, Reply
  <1>4. ASSUME NEW c \in Clients, ConfigRefused(c) \/ ToggleRefused(c) PROVE LocalTyped'
    <2>1. ConfigAnswer(req[c]) \in Answers /\ ToggleAnswer(req[c]) \in Answers
      BY ConfigAnswers, ToggleAnswers
    <2>2. QED
      BY <1>4, <2>1 DEF ConfigRefused, ToggleRefused, Reply
  <1>5. ASSUME NEW c \in Clients, ConfigCommit(c) PROVE LocalTyped'
    <2>1. RowOf(req[c]) \in Rows
      BY <1>5, AcceptedConfig DEF ConfigCommit, ConfigHandler
    <2>2. effect' \in [Clients -> SUBSET Effects]
      BY <1>5, Charged DEF ConfigCommit
    <2>3. QED
      BY <1>5, <2>1, <2>2 DEF ConfigCommit, Reply
  <1>6. ASSUME NEW c \in Clients, ConfigPublish(c) PROVE LocalTyped'
    <2>1. RowOf(req[c]) \in Rows
      BY <1>6, AcceptedConfig
      DEF ConfigPublish, ServiceInv, Sound, ConfigOwed, OwesConfig, Admitted, Methods
    <2>2. effect' \in [Clients -> SUBSET Effects]
      BY <1>6, Charged DEF ConfigPublish
    <2>3. QED
      BY <1>6, <2>1, <2>2 DEF ConfigPublish, Reply, Known200
  <1>7. ASSUME NEW c \in Clients, ConfigStoreError(c) PROVE LocalTyped'
    <2>1. effect' \in [Clients -> SUBSET Effects]
      BY <1>7, Charged DEF ConfigStoreError
    <2>2. late' \subseteq Statements
      <3>1. req[c].name \in Keys /\ RowOf(req[c]) \in Rows
        BY <1>7, AcceptedConfig DEF ConfigStoreError, ConfigHandler
      <3>2. [table |-> "config", name |-> req[c].name, row |-> RowOf(req[c])] \in Statements
        BY <3>1 DEF Statements
      <3>3. QED
        BY <1>7, <3>2 DEF ConfigStoreError, LeftLate
    <2>3. QED
      BY <1>7, <2>1, <2>2 DEF ConfigStoreError, Reply
  <1>8. ASSUME NEW c \in Clients, ToggleCommit(c) PROVE LocalTyped'
    <2>1. effect' \in [Clients -> SUBSET Effects]
      BY <1>8, Charged DEF ToggleCommit
    <2>2. QED
      BY <1>8, <2>1 DEF ToggleCommit
  <1>9. ASSUME NEW c \in Clients, TogglePublish(c) PROVE LocalTyped'
    <2>1. req[c].body \in FlagRows
      BY <1>9, ToggleAnswers
      DEF TogglePublish, ServiceInv, Sound, FlagOwed, OwesFlag, Bools, FlagRows
    <2>2. effect' \in [Clients -> SUBSET Effects]
      BY <1>9, Charged DEF TogglePublish
    <2>3. QED
      BY <1>9, <2>1, <2>2 DEF TogglePublish, Reply, Known200
  <1>10. ASSUME NEW c \in Clients, ToggleStoreError(c) PROVE LocalTyped'
    <2>1. effect' \in [Clients -> SUBSET Effects]
      BY <1>10, Charged DEF ToggleStoreError
    <2>2. late' \subseteq Statements
      <3>1. req[c].name \in Known /\ req[c].body \in Bools
        BY <1>10, AcceptedToggle DEF ToggleStoreError, FlagHandler
      <3>2. [table |-> "flags", name |-> req[c].name, row |-> req[c].body] \in Statements
        BY <3>1 DEF Statements
      <3>3. QED
        BY <1>10, <3>2 DEF ToggleStoreError, LeftLate
    <2>3. QED
      BY <1>10, <2>1, <2>2 DEF ToggleStoreError, Reply
  <1>11. ASSUME NEW c \in Clients, Receive(c) PROVE LocalTyped'
    BY <1>11 DEF Receive
  <1>12. CASE UNCHANGED vars
    BY <1>12 DEF vars, told
  <1>15. ASSUME NEW o \in late, LateConfig(o) \/ LateFlag(o) \/ LateDrop(o)
        PROVE  LocalTyped'
    <2>1. Overtake(o) => effect' \in [Clients -> SUBSET Effects]
      BY DEF Overtake, Effects
    <2>2. QED
      BY <1>15, <2>1 DEF LateConfig, LateFlag, LateDrop, told
  <1> HIDE DEF LocalTyped
  <1>13. ASSUME NEW c \in Clients, Handler(c) PROVE LocalTyped'
    BY <1>4, <1>5, <1>6, <1>7, <1>8, <1>9, <1>10, <1>13 DEF Handler
  <1>14. QED
    BY <1>1, <1>2, <1>3, <1>11, <1>12, <1>13, <1>15, CallIsSend DEF Next

-----------------------------------------------------------------------------
(* Requests. *)

LEMMA IdleSound ==
    ASSUME NEW d \in Clients, stage'[d] = "idle", effect'[d] = {}, answer'[d] = NoAnswer
    PROVE  Sound(d)'
  BY DEF Sound, Untouched, Admitted, ConfigOwed, OwesConfig, FlagOwed, OwesFlag,
         AnswerTellsEffect, AnswerBlames

\* What the step of one request says of another, whose write section it is not in.
LEMMA SoundKept ==
    ASSUME NEW d \in Clients, Sound(d), boot' = boot,
           stage'[d] = stage[d], req'[d] = req[d], answer'[d] = answer[d],
           effect'[d] = effect[d],
           OwesConfig(d) => UNCHANGED <<rows, due>>,
           OwesFlag(d) => UNCHANGED <<flagRows, flagsDue>>
    PROVE  Sound(d)'
  <1>1. Untouched(d)' /\ Admitted(d)'
    BY DEF Sound, Untouched, Admitted
  <1>2. ConfigOwed(d)'
    BY DEF Sound, ConfigOwed, OwesConfig, Manager!Nothing
  <1>3. FlagOwed(d)'
    BY DEF Sound, FlagOwed, OwesFlag, FlagStore!Settled
  <1>4. AnswerTellsEffect(d)' /\ AnswerBlames(d)'
    BY DEF Sound, AnswerTellsEffect, AnswerBlames
  <1>5. QED
    BY <1>1, <1>2, <1>3, <1>4 DEF Sound

\* A handler runs behind both middlewares, with nothing to answer for yet.
LEMMA HandlerFacts ==
    ASSUME NEW c \in Clients, Sound(c), stage[c] \in {"handler", "publish"}
    PROVE  /\ FromHeaderStatus(Env, req[c].hdr) # 500
           /\ req[c].hdr["Admin"] = AdminHeaderValue \/ AdminForAll
           /\ boot = "up" /\ req[c].method \in Methods
           /\ stage[c] = "handler" => effect[c] = {}
  BY MiddlewareAnswers DEF Sound, Admitted, Untouched

\* What a late statement says of a request: the row of one that owes may be another's.
LEMMA SoundOvertaken ==
    ASSUME NEW d \in Clients, NEW o, Sound(d), effect[d] \in SUBSET Effects,
           boot' = boot, due' = due, flagsDue' = flagsDue,
           stage'[d] = stage[d], req'[d] = req[d], answer'[d] = answer[d],
           effect'[d] = effect[d] \cup {x \in {"overtaken"} : Overtakes(o, d)},
           OwesConfig(d) => Overtakes(o, d) \/ rows'[req[d].name] = rows[req[d].name],
           OwesFlag(d) => Overtakes(o, d) \/ flagRows'[req[d].name] = flagRows[req[d].name]
    PROVE  Sound(d)'
  <1>1. /\ Overtakes(o, d) => stage[d] = "publish" /\ "overtaken" \in effect'[d]
        /\ ~Overtakes(o, d) => effect'[d] = effect[d]
        /\ \A x \in Effects : x # "overtaken" => (x \in effect'[d] <=> x \in effect[d])
        /\ effect'[d] \subseteq effect[d] \cup {"overtaken"}
    BY DEF Overtakes
  <1>2. Untouched(d)' /\ Admitted(d)'
    BY <1>1 DEF Sound, Untouched, Admitted
  <1>3. ConfigOwed(d)'
    BY <1>1 DEF Sound, ConfigOwed, OwesConfig, Manager!Nothing
  <1>4. FlagOwed(d)'
    BY <1>1 DEF Sound, FlagOwed, OwesFlag, FlagStore!Settled
  <1>5. AnswerTellsEffect(d)'
    <2>1. CASE Overtakes(o, d)
      <3>1. stage[d] = "publish" /\ answer[d] = NoAnswer
        BY <1>1, <2>1 DEF Sound, Untouched
      <3>2. req[d].hdr["Admin"] = AdminHeaderValue \/ AdminForAll
        BY <3>1, HandlerFacts
      <3>3. QED
        BY <1>1, <3>1, <3>2, FinalAnswers DEF Sound, AnswerTellsEffect, Status4xx
    <2>2. CASE ~Overtakes(o, d)
      BY <1>1, <2>2 DEF Sound, AnswerTellsEffect
    <2>3. QED
      BY <2>1, <2>2
  <1>6. AnswerBlames(d)'
    BY <1>1 DEF Sound, AnswerBlames, Effects
  <1>7. QED
    BY <1>2, <1>3, <1>4, <1>5, <1>6 DEF Sound

LEMMA ExclusiveKept ==
    ASSUME Exclusive, \A d \in Clients : stage'[d] = "publish" => stage[d] = "publish",
           \A d \in Clients : stage'[d] = "publish" => req'[d] = req[d]
    PROVE  Exclusive'
  BY DEF Exclusive, OwesConfig, OwesFlag

LEMMA PersistKept ==
    ASSUME AnsweredWritesPersist, UNCHANGED <<rows, flagRows, toldRow, toldFlag>>
    PROVE  AnsweredWritesPersist'
  BY DEF AnsweredWritesPersist

\* A handler that answers 200, or 500 for an outage it has met before it published.
LEMMA ReplySound ==
    ASSUME NEW c \in Clients, Sound(c), stage[c] \in {"handler", "publish"}, boot' = boot,
           stage'[c] = "replied", req'[c] = req[c], WellFormed(req[c]),
           \/ answer'[c] = AnswerOK /\ "outage" \notin effect'[c]
           \/ /\ answer'[c] = SendInternalError("store") /\ "outage" \in effect'[c]
              /\ effect'[c] \cap {"live", "flag"} = {},
           req[c].method = "toggleFlag" =>
             effect'[c] \subseteq {"flagRow", "flag", "outage", "overtaken"},
           req[c].method # "toggleFlag" =>
             effect'[c] \subseteq {"row", "live", "outage", "overtaken"}
    PROVE  Sound(c)'
  <1>1. Untouched(c)' /\ Admitted(c)' /\ ConfigOwed(c)' /\ FlagOwed(c)'
    BY HandlerFacts DEF Untouched, Admitted, ConfigOwed, OwesConfig, FlagOwed, OwesFlag
  <1>2. AnswerTellsEffect(c)'
    BY HandlerFacts, FinalAnswers DEF AnswerTellsEffect, Status4xx
  <1>3. AnswerBlames(c)'
    <2>1. WellFormed(req[c])'
      BY DEF WellFormed
    <2>2. QED
      BY <2>1, HandlerFacts, FinalAnswers, NoTextIsNoLevel DEF AnswerBlames
  <1>4. QED
    BY <1>1, <1>2, <1>3 DEF Sound

LEMMA ServiceInit == Init => ServiceInv
  <1> SUFFICES ASSUME Init PROVE ServiceInv
    OBVIOUS
  <1>1. ASSUME NEW c \in Clients PROVE Sound(c)
    BY <1>1
    DEF Init, Sound, Untouched, Admitted, ConfigOwed, OwesConfig, FlagOwed, OwesFlag,
        AnswerTellsEffect, AnswerBlames
  <1>2. Exclusive
    BY DEF Init, Exclusive, OwesConfig, OwesFlag
  <1>3. AnsweredWritesPersist
    BY DEF Init, AnsweredWritesPersist
  <1>4. QED
    BY <1>1, <1>2, <1>3 DEF ServiceInv


LEMMA ServiceStep == TypeInv /\ ServiceInv /\ [Next]_vars => ServiceInv'
  <1> SUFFICES ASSUME TypeInv, ServiceInv, [Next]_vars PROVE ServiceInv'
    OBVIOUS
  <1> USE DEF told
  <1> Exclusive /\ AnsweredWritesPersist /\ \A c \in Clients : Sound(c)
    BY DEF ServiceInv
  <1>0. /\ stage \in [Clients -> {"idle", "handler", "publish", "replied"}]
        /\ req \in [Clients -> AdminRequests]
        /\ answer \in [Clients -> Answers]
        /\ effect \in [Clients -> SUBSET Effects]
    BY DEF TypeInv, TypeOK, AdminRequests, Effects
  <1>1. CASE LoadConfig \/ LoadConfigPublish \/ LoadFlags \/ LoadFlagsPublish
    <2>1. \A c \in Clients : stage[c] = "idle"
      BY <1>1 DEF LoadConfig, LoadConfigPublish, LoadFlags, LoadFlagsPublish, Sound,
                  Admitted
    <2>2. UNCHANGED <<stage, req, answer, effect, rows, flagRows, toldRow, toldFlag>>
      BY <1>1
      DEF LoadConfig, LoadConfigPublish, LoadFlags, LoadFlagsPublish, managerVars, flagVars,
          Manager!Load, Manager!PublishDue, FlagStore!LoadFlags, FlagStore!PublishFlags
    <2>3. \A c \in Clients : Sound(c)'
      BY <2>1, <2>2, IdleSound DEF Sound, Untouched
    <2>4. QED
      BY <2>1, <2>2, <2>3, ExclusiveKept, PersistKept DEF ServiceInv
  <1>2. CASE Restart
    <2>1. \A c \in Clients : Sound(c)'
      BY <1>2, IdleSound DEF Restart
    <2>2. Exclusive'
      BY <1>2 DEF Restart, Exclusive, OwesConfig, OwesFlag
    <2>3. rows' = rows /\ flagRows' = flagRows
      BY <1>2 DEF Restart, Manager!Restart, Durable, FlagStore!RestartFlags
    <2>4. /\ \A k \in Keys : toldRow'[k] = toldRow[k] \/ toldRow'[k] = Unknown
          /\ \A f \in Known : toldFlag'[f] = toldFlag[f] \/ toldFlag'[f] = Unknown
      BY <1>2 DEF Restart
    <2>5. AnsweredWritesPersist'
      BY <2>3, <2>4 DEF AnsweredWritesPersist
    <2>6. QED
      BY <2>1, <2>2, <2>5 DEF ServiceInv
  <1>3. ASSUME NEW c \in Clients, NEW r \in AdminRequests, r.method \in Methods, Send(c, r)
        PROVE  ServiceInv'
    <2>1. \A d \in Clients \ {c} : Sound(d)'
      BY <1>0, <1>3, SoundKept DEF Send, Reply, managerVars, flagVars
    <2>2. /\ req'[c] = r /\ boot' = "up" /\ effect'[c] = {} /\ answer[c] = NoAnswer
          /\ UNCHANGED <<rows, flagRows, toldRow, toldFlag>>
      BY <1>0, <1>3 DEF Send, Sound, Untouched, managerVars, flagVars
    <2>3. CASE MiddlewareAnswer(r) # NoAnswer
      <3>1. stage'[c] = "replied" /\ answer'[c] = MiddlewareAnswer(r)
        BY <1>0, <1>3, <2>3 DEF Send, Reply
      <3>2. Sound(c)'
        BY <1>3, <2>2, <2>3, <3>1, MiddlewareAnswers
        DEF Sound, Untouched, Admitted, ConfigOwed, OwesConfig, FlagOwed, OwesFlag,
            AnswerTellsEffect, AnswerBlames, Status4xx
      <3>3. Exclusive'
        BY <1>0, <1>3, <3>1, ExclusiveKept DEF Send, Reply
      <3>4. QED
        BY <2>1, <2>2, <3>2, <3>3, PersistKept DEF ServiceInv
    <2>4. CASE MiddlewareAnswer(r) = NoAnswer
      <3>1. stage'[c] = "handler" /\ answer' = answer
        BY <1>0, <1>3, <2>4 DEF Send
      <3>2. Sound(c)'
        BY <1>3, <2>2, <2>4, <3>1
        DEF Sound, Untouched, Admitted, ConfigOwed, OwesConfig, FlagOwed, OwesFlag,
            AnswerTellsEffect, AnswerBlames
      <3>3. Exclusive'
        BY <1>0, <1>3, <2>4, <3>1, ExclusiveKept DEF Send
      <3>4. QED
        BY <2>1, <2>2, <3>2, <3>3, PersistKept DEF ServiceInv
    <2>5. QED
      BY <2>3, <2>4
  <1>4. ASSUME NEW c \in Clients, Receive(c) PROVE ServiceInv'
    <2>1. \A d \in Clients \ {c} : Sound(d)'
      BY <1>0, <1>4, SoundKept DEF Receive, managerVars, flagVars
    <2>2. Sound(c)'
      BY <1>0, <1>4, IdleSound DEF Receive
    <2>3. Exclusive'
      BY <1>0, <1>4, ExclusiveKept DEF Receive
    <2>4. QED
      BY <1>4, <2>1, <2>2, <2>3, PersistKept DEF Receive, ServiceInv, managerVars, flagVars
  <1>5. ASSUME NEW c \in Clients, ConfigRefused(c) \/ ToggleRefused(c) PROVE ServiceInv'
    <2>1. \A d \in Clients \ {c} : Sound(d)'
      BY <1>0, <1>5, SoundKept DEF ConfigRefused, ToggleRefused, Reply, managerVars,
                                   flagVars
    <2>2. /\ answer'[c].status \in Status4xx /\ answer'[c].log = "warn"
          /\ stage'[c] = "replied" /\ stage[c] = "handler"
      BY <1>0, <1>5, ConfigAnswers, ToggleAnswers
      DEF ConfigRefused, ToggleRefused, Reply, ConfigHandler, FlagHandler
    <2>3. UNCHANGED <<rows, flagRows, boot, req, effect, toldRow, toldFlag>>
      BY <1>5 DEF ConfigRefused, ToggleRefused, managerVars, flagVars
    <2>4. Sound(c)'
      BY <2>2, <2>3, HandlerFacts
      DEF Sound, Untouched, Admitted, ConfigOwed, OwesConfig, FlagOwed, OwesFlag,
          AnswerTellsEffect, AnswerBlames, Status4xx
    <2>5. Exclusive'
      BY <1>0, <1>5, ExclusiveKept DEF ConfigRefused, ToggleRefused, Reply
    <2>6. QED
      BY <2>1, <2>3, <2>4, <2>5, PersistKept DEF ServiceInv
  <1>6. ASSUME NEW c \in Clients, ConfigCommit(c) PROVE ServiceInv'
    <2> DEFINE k == req[c].name
    <2> DEFINE row == RowOf(req[c])
    <2>1. /\ stage[c] = "handler" /\ req[c].method \in {"putConfig", "deleteConfig"}
          /\ ConfigAnswer(req[c]) = NoAnswer
          /\ due = Manager!Nothing /\ rows' = [rows EXCEPT ![k] = row] /\ live' = live
          /\ UNCHANGED <<flagRows, flags, flagsDue, boot, req, toldFlag>>
      BY <1>6 DEF ConfigCommit, ConfigHandler, Manager!Commit, flagVars
    <2>2. k \in Keys /\ row \in Rows /\ WellFormed(req[c])
      BY <1>0, <2>1, AcceptedConfig
    <2>3. /\ \A d \in Clients : d # c => effect'[d] = effect[d]
          /\ effect'[c] \subseteq {"row"}
      <3>1. effect[c] = {}
        BY <2>1, HandlerFacts
      <3>2. effect'[c] \in SUBSET Effects
        BY <1>0, <1>6, Charged DEF ConfigCommit
      <3>3. QED
        BY <1>0, <1>6, <2>1, <3>1, <3>2, Charged DEF ConfigCommit, Effects
    <2>4. \A d \in Clients : ~OwesConfig(d)
      BY <2>1 DEF Sound, ConfigOwed
    <2>5. \A d \in Clients \ {c} :
            stage'[d] = stage[d] /\ req'[d] = req[d] /\ answer'[d] = answer[d]
      BY <1>0, <1>6 DEF ConfigCommit, Reply
    <2>6. \A d \in Clients \ {c} : Sound(d)'
      BY <2>1, <2>3, <2>4, <2>5, SoundKept
    <2>7. rows'[k] = row /\ \A x \in Keys \ {k} : rows'[x] = rows[x]
      BY <2>1, <2>2 DEF TypeInv, TypeOK
    <2>8. toldRow'[k] \in {row, Unknown} /\ \A x \in Keys \ {k} : toldRow'[x] = toldRow[x]
      BY <1>6, <2>2 DEF ConfigCommit, TypeInv, TypeOK
    <2>9. AnsweredWritesPersist'
      BY <2>1, <2>7, <2>8 DEF AnsweredWritesPersist
    <2>10. CASE k \in RestartRequired
      <3>1. stage'[c] = "replied" /\ answer'[c] = AnswerOK
        BY <1>0, <1>6, <2>10 DEF ConfigCommit, Reply
      <3>2. Sound(c)'
        BY <2>1, <2>2, <2>3, <3>1, ReplySound
      <3>3. Exclusive'
        BY <2>1, <2>5, <3>1, ExclusiveKept
      <3>4. QED
        BY <2>6, <2>9, <3>2, <3>3 DEF ServiceInv
    <2>11. CASE k \notin RestartRequired
      <3>1. stage'[c] = "publish" /\ answer' = answer
        BY <1>0, <1>6, <2>11 DEF ConfigCommit
      <3>2. due' # Manager!Nothing
        <4>1. due' = [x \in {k} |-> Manager!LiveOf(x, row)]
          BY <1>6, <2>11 DEF ConfigCommit, Manager!Commit
        <4>2. DOMAIN due' = {k} /\ DOMAIN Manager!Nothing = {}
          BY <4>1 DEF Manager!Nothing
        <4>3. QED
          BY <4>2
      <3>3. answer'[c] = NoAnswer
        BY <2>1, <3>1 DEF Sound, Untouched
      <3>4. Untouched(c)' /\ Admitted(c)'
        BY <2>1, <3>1, <3>3 DEF Sound, Untouched, Admitted
      <3>5. ConfigOwed(c)' /\ FlagOwed(c)'
        <4>1. ConfigAnswer(req[c])' = NoAnswer /\ RowOf(req[c])' = row
          BY <2>1 DEF ConfigAnswer, RowOf
        <4>2. due' # (Manager!Nothing)'
          BY <3>2 DEF Manager!Nothing
        <4>3. QED
          BY <2>1, <2>3, <2>7, <4>1, <4>2 DEF ConfigOwed, OwesConfig, FlagOwed, OwesFlag
      <3>6. AnswerTellsEffect(c)' /\ AnswerBlames(c)'
        BY <2>1, <2>3, <3>1, <3>3, HandlerFacts, FinalAnswers
        DEF AnswerTellsEffect, AnswerBlames, Status4xx
      <3>7. Exclusive'
        <4>1. \A d \in Clients \ {c} : ~OwesConfig(d)' /\ (OwesFlag(d)' <=> OwesFlag(d))
          BY <2>4, <2>5 DEF OwesConfig, OwesFlag
        <4>2. ~OwesFlag(c)'
          BY <2>1 DEF OwesFlag
        <4>3. QED
          BY <4>1, <4>2 DEF Exclusive
      <3>8. QED
        BY <2>6, <2>9, <3>4, <3>5, <3>6, <3>7 DEF ServiceInv, Sound
    <2>12. QED
      BY <2>10, <2>11
  <1>7. ASSUME NEW c \in Clients, ConfigPublish(c) PROVE ServiceInv'
    <2>1. /\ OwesConfig(c) /\ rows' = rows /\ stage'[c] = "replied" /\ answer'[c] = AnswerOK
          /\ UNCHANGED <<flagRows, flags, flagsDue, boot, req, toldFlag>>
      BY <1>0, <1>7 DEF ConfigPublish, Reply, OwesConfig, Manager!PublishDue, flagVars
    <2>2. /\ ConfigAnswer(req[c]) = NoAnswer
          /\ "overtaken" \notin effect[c] => rows[req[c].name] = RowOf(req[c])
          /\ effect[c] \subseteq {"row", "overtaken"} /\ req[c].method \in {"putConfig", "deleteConfig"}
      BY <2>1 DEF Sound, ConfigOwed, OwesConfig, Admitted, Methods
    <2>3. req[c].name \in Keys /\ WellFormed(req[c])
      BY <1>0, <2>2, AcceptedConfig
    <2>4. /\ \A d \in Clients : d # c => effect'[d] = effect[d]
          /\ effect'[c] \subseteq {"row", "live", "overtaken"}
      <3>1. effect'[c] \in SUBSET Effects
        BY <1>0, <1>7, Charged DEF ConfigPublish
      <3>2. QED
        BY <1>0, <1>7, <2>1, <2>2, <3>1, Charged DEF ConfigPublish, Effects
    <2>5. \A d \in Clients \ {c} :
            /\ stage'[d] = stage[d] /\ req'[d] = req[d] /\ answer'[d] = answer[d]
            /\ ~OwesConfig(d)
      BY <1>0, <1>7, <2>1 DEF ConfigPublish, Reply, Exclusive
    <2>6. \A d \in Clients \ {c} : Sound(d)'
      BY <2>1, <2>4, <2>5, SoundKept
    <2>7. Sound(c)'
      BY <2>1, <2>2, <2>3, <2>4, ReplySound DEF OwesConfig
    <2>8. Exclusive'
      BY <2>1, <2>5, ExclusiveKept
    <2>9. AnsweredWritesPersist'
      <3>1. /\ toldRow'[req[c].name] = Known200(c, RowOf(req[c]))
            /\ \A k \in Keys \ {req[c].name} : toldRow'[k] = toldRow[k]
        BY <1>7, <2>3 DEF ConfigPublish, TypeInv, TypeOK
      <3>2. QED
        BY <2>1, <2>2, <3>1 DEF AnsweredWritesPersist, Known200
    <2>10. QED
      BY <2>6, <2>7, <2>8, <2>9 DEF ServiceInv
  <1>8. ASSUME NEW c \in Clients, ConfigStoreError(c) PROVE ServiceInv'
    <2> DEFINE k == req[c].name
    <2>1. /\ stage[c] = "handler" /\ req[c].method \in {"putConfig", "deleteConfig"}
          /\ ConfigAnswer(req[c]) = NoAnswer /\ due = Manager!Nothing
          /\ rows' = rows \/ rows' = [rows EXCEPT ![k] = RowOf(req[c])]
          /\ UNCHANGED <<live, flagRows, flags, flagsDue, boot, req, toldFlag>>
      BY <1>8 DEF ConfigStoreError, ConfigHandler, Manager!Stray, managerVars, flagVars
    <2>2. k \in Keys /\ WellFormed(req[c])
      BY <1>0, <2>1, AcceptedConfig
    <2>3. /\ \A d \in Clients : d # c => effect'[d] = effect[d]
          /\ effect'[c] \subseteq {"row", "outage"} /\ "outage" \in effect'[c]
      <3>1. effect[c] = {}
        BY <2>1, HandlerFacts
      <3>2. effect'[c] \in SUBSET Effects
        BY <1>0, <1>8, Charged DEF ConfigStoreError
      <3>3. QED
        BY <1>0, <1>8, <2>1, <3>1, <3>2, Charged DEF ConfigStoreError, Effects
    <2>4. \A d \in Clients \ {c} :
            /\ stage'[d] = stage[d] /\ req'[d] = req[d] /\ answer'[d] = answer[d]
            /\ ~OwesConfig(d)
      BY <1>0, <1>8, <2>1 DEF ConfigStoreError, Reply, Sound, ConfigOwed
    <2>5. stage'[c] = "replied" /\ answer'[c] = SendInternalError("store")
      BY <1>0, <1>8 DEF ConfigStoreError, Reply
    <2>6. \A d \in Clients \ {c} : Sound(d)'
      BY <2>1, <2>3, <2>4, SoundKept
    <2>7. Sound(c)'
      BY <2>1, <2>2, <2>3, <2>5, ReplySound
    <2>8. Exclusive'
      BY <2>1, <2>4, <2>5, ExclusiveKept
    <2>9. AnsweredWritesPersist'
      <3>1. toldRow'[k] = Unknown /\ \A x \in Keys \ {k} : toldRow'[x] = toldRow[x]
        BY <1>8, <2>2 DEF ConfigStoreError, TypeInv, TypeOK
      <3>2. \A x \in Keys \ {k} : rows'[x] = rows[x]
        BY <2>1 DEF TypeInv, TypeOK
      <3>3. QED
        BY <2>1, <3>1, <3>2 DEF AnsweredWritesPersist
    <2>10. QED
      BY <2>6, <2>7, <2>8, <2>9 DEF ServiceInv
  <1>9. ASSUME NEW c \in Clients, ToggleCommit(c) PROVE ServiceInv'
    <2> DEFINE f == req[c].name
    <2>1. /\ stage[c] = "handler" /\ req[c].method = "toggleFlag"
          /\ ToggleAnswer(req[c]) = NoAnswer /\ flagsDue = FlagStore!Settled
          /\ flagRows' = [flagRows EXCEPT ![f] = FlagStore!Marshal(req[c].body = "true")]
          /\ UNCHANGED <<rows, live, due, flags, boot, req, answer, toldRow>>
      BY <1>9 DEF ToggleCommit, FlagHandler, FlagStore!Toggle, managerVars
    <2>2. f \in Known /\ FlagStore!Marshal(req[c].body = "true") = req[c].body
      BY <1>0, <2>1, AcceptedToggle
    <2>3. /\ \A d \in Clients : d # c => effect'[d] = effect[d]
          /\ effect'[c] \subseteq {"flagRow"}
      <3>1. effect[c] = {}
        BY <2>1, HandlerFacts
      <3>2. effect'[c] \in SUBSET Effects
        BY <1>0, <1>9, Charged DEF ToggleCommit
      <3>3. QED
        BY <1>0, <1>9, <2>1, <3>1, <3>2, Charged DEF ToggleCommit, Effects
    <2>4. \A d \in Clients : ~OwesFlag(d)
      BY <2>1 DEF Sound, FlagOwed
    <2>5. stage'[c] = "publish" /\ \A d \in Clients \ {c} : stage'[d] = stage[d]
      BY <1>0, <1>9 DEF ToggleCommit
    <2>6. \A d \in Clients \ {c} : Sound(d)'
      BY <2>1, <2>3, <2>4, <2>5, SoundKept
    <2>7. flagRows'[f] = req[c].body /\ \A x \in Known \ {f} : flagRows'[x] = flagRows[x]
      BY <2>1, <2>2, FlagAssumption DEF TypeInv, TypeOK
    <2>8. AnsweredWritesPersist'
      <3>1. toldFlag'[f] = Unknown /\ \A x \in Known \ {f} : toldFlag'[x] = toldFlag[x]
        BY <1>9, <2>2 DEF ToggleCommit, TypeInv, TypeOK
      <3>2. QED
        BY <2>1, <2>7, <3>1 DEF AnsweredWritesPersist
    <2>9. flagsDue' # FlagStore!Settled
      <3>1. flagsDue' = [x \in {f} |-> req[c].body = "true"]
        BY <1>9 DEF ToggleCommit, FlagStore!Toggle
      <3>2. DOMAIN flagsDue' = {f} /\ DOMAIN FlagStore!Settled = {}
        BY <3>1 DEF FlagStore!Settled
      <3>3. QED
        BY <3>2
    <2>10. Untouched(c)' /\ Admitted(c)'
      BY <2>1, <2>5 DEF Sound, Untouched, Admitted
    <2>11. ConfigOwed(c)' /\ FlagOwed(c)'
      <3>1. ToggleAnswer(req[c])' = NoAnswer
        BY <2>1 DEF ToggleAnswer
      <3>2. flagsDue' # (FlagStore!Settled)'
        BY <2>9 DEF FlagStore!Settled
      <3>3. QED
        BY <2>1, <2>3, <2>7, <3>1, <3>2 DEF ConfigOwed, OwesConfig, FlagOwed, OwesFlag
    <2>12. AnswerTellsEffect(c)' /\ AnswerBlames(c)'
      <3>1. answer'[c] = NoAnswer
        BY <2>1 DEF Sound, Untouched
      <3>2. QED
        BY <2>1, <2>3, <2>5, <3>1, HandlerFacts, FinalAnswers
        DEF AnswerTellsEffect, AnswerBlames, Status4xx
    <2>13. Exclusive'
      <3>1. \A d \in Clients \ {c} : ~OwesFlag(d)' /\ (OwesConfig(d)' <=> OwesConfig(d))
        BY <2>1, <2>4, <2>5 DEF OwesConfig, OwesFlag
      <3>2. ~OwesConfig(c)'
        BY <2>1 DEF OwesConfig
      <3>3. QED
        BY <3>1, <3>2 DEF Exclusive
    <2>14. QED
      BY <2>6, <2>8, <2>10, <2>11, <2>12, <2>13 DEF ServiceInv, Sound
  <1>10. ASSUME NEW c \in Clients, TogglePublish(c) PROVE ServiceInv'
    <2>1. /\ OwesFlag(c) /\ flagRows' = flagRows /\ stage'[c] = "replied"
          /\ answer'[c] = AnswerOK
          /\ UNCHANGED <<rows, live, due, boot, req, toldRow>>
      BY <1>0, <1>10 DEF TogglePublish, Reply, OwesFlag, FlagStore!PublishFlags, managerVars
    <2>2. /\ ToggleAnswer(req[c]) = NoAnswer
          /\ "overtaken" \notin effect[c] => flagRows[req[c].name] = req[c].body
          /\ effect[c] \subseteq {"flagRow", "overtaken"} /\ req[c].method = "toggleFlag"
      BY <2>1 DEF Sound, FlagOwed, OwesFlag
    <2>3. req[c].name \in Known /\ WellFormed(req[c])
      BY <1>0, <2>2, AcceptedToggle
    <2>4. /\ \A d \in Clients : d # c => effect'[d] = effect[d]
          /\ effect'[c] \subseteq {"flagRow", "flag", "overtaken"}
      <3>1. effect'[c] \in SUBSET Effects
        BY <1>0, <1>10, Charged DEF TogglePublish
      <3>2. QED
        BY <1>0, <1>10, <2>1, <2>2, <3>1, Charged DEF TogglePublish, Effects
    <2>5. \A d \in Clients \ {c} :
            /\ stage'[d] = stage[d] /\ req'[d] = req[d] /\ answer'[d] = answer[d]
            /\ ~OwesFlag(d)
      BY <1>0, <1>10, <2>1 DEF TogglePublish, Reply, Exclusive
    <2>6. \A d \in Clients \ {c} : Sound(d)'
      BY <2>1, <2>4, <2>5, SoundKept
    <2>7. Sound(c)'
      BY <2>1, <2>2, <2>3, <2>4, ReplySound DEF OwesFlag
    <2>8. Exclusive'
      BY <2>1, <2>5, ExclusiveKept
    <2>9. AnsweredWritesPersist'
      <3>1. /\ toldFlag'[req[c].name] = Known200(c, req[c].body)
            /\ \A f \in Known \ {req[c].name} : toldFlag'[f] = toldFlag[f]
        BY <1>10, <2>3 DEF TogglePublish, TypeInv, TypeOK
      <3>2. QED
        BY <2>1, <2>2, <3>1 DEF AnsweredWritesPersist, Known200
    <2>10. QED
      BY <2>6, <2>7, <2>8, <2>9 DEF ServiceInv
  <1>11. ASSUME NEW c \in Clients, ToggleStoreError(c) PROVE ServiceInv'
    <2> DEFINE f == req[c].name
    <2>1. /\ stage[c] = "handler" /\ req[c].method = "toggleFlag"
          /\ ToggleAnswer(req[c]) = NoAnswer /\ flagsDue = FlagStore!Settled
          /\ \/ flagRows' = flagRows
             \/ flagRows' = [flagRows EXCEPT ![f] = FlagStore!Marshal(req[c].body = "true")]
          /\ UNCHANGED <<rows, live, due, flags, boot, req, toldRow>>
      BY <1>11 DEF ToggleStoreError, FlagHandler, FlagStore!StrayToggle, managerVars,
                   flagVars
    <2>2. f \in Known /\ WellFormed(req[c])
      BY <1>0, <2>1, AcceptedToggle
    <2>3. /\ \A d \in Clients : d # c => effect'[d] = effect[d]
          /\ effect'[c] \subseteq {"flagRow", "outage"} /\ "outage" \in effect'[c]
      <3>1. effect[c] = {}
        BY <2>1, HandlerFacts
      <3>2. effect'[c] \in SUBSET Effects
        BY <1>0, <1>11, Charged DEF ToggleStoreError
      <3>3. QED
        BY <1>0, <1>11, <2>1, <3>1, <3>2, Charged DEF ToggleStoreError, Effects
    <2>4. \A d \in Clients \ {c} :
            /\ stage'[d] = stage[d] /\ req'[d] = req[d] /\ answer'[d] = answer[d]
            /\ ~OwesFlag(d)
      BY <1>0, <1>11, <2>1 DEF ToggleStoreError, Reply, Sound, FlagOwed
    <2>5. stage'[c] = "replied" /\ answer'[c] = SendInternalError("store")
      BY <1>0, <1>11 DEF ToggleStoreError, Reply
    <2>6. \A d \in Clients \ {c} : Sound(d)'
      BY <2>1, <2>3, <2>4, SoundKept
    <2>7. Sound(c)'
      BY <2>1, <2>2, <2>3, <2>5, ReplySound
    <2>8. Exclusive'
      BY <2>1, <2>4, <2>5, ExclusiveKept
    <2>9. AnsweredWritesPersist'
      <3>1. toldFlag'[f] = Unknown /\ \A x \in Known \ {f} : toldFlag'[x] = toldFlag[x]
        BY <1>11, <2>2 DEF ToggleStoreError, TypeInv, TypeOK
      <3>2. \A x \in Known \ {f} : flagRows'[x] = flagRows[x]
        BY <2>1, FlagAssumption DEF TypeInv, TypeOK
      <3>3. QED
        BY <2>1, <3>1, <3>2 DEF AnsweredWritesPersist
    <2>10. QED
      BY <2>6, <2>7, <2>8, <2>9 DEF ServiceInv
  <1>12. CASE UNCHANGED vars
    <2>1. \A c \in Clients : Sound(c)'
      BY <1>12, SoundKept DEF vars, managerVars, flagVars
    <2>2. QED
      BY <1>12, <2>1, ExclusiveKept, PersistKept DEF vars, managerVars, flagVars, ServiceInv
  <1>13. ASSUME NEW c \in Clients, Handler(c) PROVE ServiceInv'
    BY <1>5, <1>6, <1>7, <1>8, <1>9, <1>10, <1>11, <1>13 DEF Handler
  <1>14. ASSUME NEW o \in late, LateConfig(o) PROVE ServiceInv'
    <2>1. /\ o.name \in Keys /\ o.table = "config"
          /\ rows' = [rows EXCEPT ![o.name] = o.row] /\ toldRow' = [toldRow EXCEPT ![o.name] = Unknown]
          /\ UNCHANGED <<live, due, flagRows, flags, flagsDue, boot, req, stage, answer, toldFlag>>
      BY <1>14 DEF LateConfig, Manager!Stray, flagVars, TypeInv, TypeOK, Statements
    <2>2. ASSUME NEW d \in Clients PROVE Sound(d)'
      <3>1. effect'[d] = effect[d] \cup {x \in {"overtaken"} : Overtakes(o, d)}
        BY <1>14 DEF LateConfig, Overtake
      <3>2. OwesConfig(d) => Overtakes(o, d) \/ rows'[req[d].name] = rows[req[d].name]
        <4>1. SUFFICES ASSUME OwesConfig(d), req[d].name # o.name
                       PROVE  rows'[req[d].name] = rows[req[d].name]
          BY <2>1 DEF OwesConfig, Overtakes
        <4>2. QED
          BY <2>1, <4>1 DEF TypeInv, TypeOK
      <3>3. QED
        BY <1>0, <2>1, <3>1, <3>2, SoundOvertaken
    <2>3. Exclusive'
      BY <2>1, ExclusiveKept
    <2>4. AnsweredWritesPersist'
      BY <2>1 DEF AnsweredWritesPersist, TypeInv, TypeOK
    <2>5. QED
      BY <2>2, <2>3, <2>4 DEF ServiceInv
  <1>15. ASSUME NEW o \in late, LateFlag(o) PROVE ServiceInv'
    <2>1. /\ o.name \in Known /\ o.table = "flags"
          /\ flagRows' = [flagRows EXCEPT ![o.name] = FlagStore!Marshal(o.row = "true")]
          /\ toldFlag' = [toldFlag EXCEPT ![o.name] = Unknown]
          /\ UNCHANGED <<rows, live, due, flags, flagsDue, boot, req, stage, answer, toldRow>>
      BY <1>15 DEF LateFlag, FlagStore!StrayToggle, managerVars, TypeInv, TypeOK, Statements
    <2>2. ASSUME NEW d \in Clients PROVE Sound(d)'
      <3>1. effect'[d] = effect[d] \cup {x \in {"overtaken"} : Overtakes(o, d)}
        BY <1>15 DEF LateFlag, Overtake
      <3>2. OwesFlag(d) => Overtakes(o, d) \/ flagRows'[req[d].name] = flagRows[req[d].name]
        <4>1. SUFFICES ASSUME OwesFlag(d), req[d].name # o.name
                       PROVE  flagRows'[req[d].name] = flagRows[req[d].name]
          BY <2>1 DEF OwesFlag, Overtakes
        <4>2. QED
          BY <2>1, <4>1 DEF TypeInv, TypeOK
      <3>3. QED
        BY <1>0, <2>1, <3>1, <3>2, SoundOvertaken
    <2>3. Exclusive'
      BY <2>1, ExclusiveKept
    <2>4. AnsweredWritesPersist'
      BY <2>1, FlagAssumption DEF AnsweredWritesPersist, TypeInv, TypeOK
    <2>5. QED
      BY <2>2, <2>3, <2>4 DEF ServiceInv
  <1>16. ASSUME NEW o \in late, LateDrop(o) PROVE ServiceInv'
    <2>1. \A c \in Clients : Sound(c)'
      BY <1>16, SoundKept DEF LateDrop, managerVars, flagVars
    <2>2. QED
      BY <1>16, <2>1, ExclusiveKept, PersistKept DEF LateDrop, managerVars, flagVars, ServiceInv
  <1>17. QED
    BY <1>1, <1>2, <1>3, <1>4, <1>12, <1>13, <1>14, <1>15, <1>16, CallIsSend DEF Next

LEMMA Service == Spec => [](TypeInv /\ ServiceInv)
  BY TypeInit, TypeStep, ServiceInit, ServiceStep, PTL DEF Spec

\* Every reachable state of the service is well typed.
THEOREM AdminServiceTypes == Spec => []TypeOK
  BY Service, PTL DEF TypeInv

\* What was answered with 200 is in the tables, for config keys and for flags of the
\* same name, whatever other requests run, fail or die with the process, until another
\* statement writes the row, be it one that failed for its caller and runs late.
THEOREM AnsweredWritesArePersisted == Spec => []AnsweredWritesPersist
  BY Service, PTL DEF ServiceInv

\* A 4xx changed nothing, a 500 nothing that is live, a config handler no flag and
\* toggleFlag no key, and only a request that RequireAdmin let through anything.
THEOREM AnswersMatchEffects == Spec => []AnswerMatchesEffect
  <1>1. ServiceInv => AnswerMatchesEffect
    BY DEF ServiceInv, Sound, AnswerMatchesEffect
  <1>2. QED
    BY <1>1, Service, PTL

\* An error is logged iff the store or the gateway is at fault, a handler never sends
\* its text, and a faulty request gets a 4xx.
THEOREM FaultsAreBlamed == Spec => []FaultyRequestsAre4xx
  <1>1. ServiceInv => FaultyRequestsAre4xx
    BY DEF ServiceInv, Sound, FaultyRequestsAre4xx
  <1>2. QED
    BY <1>1, Service, PTL

\* The Manager and the FlagSet of a running service behave as their contracts: no
\* handler, start or restart takes them out of them.
THEOREM ServiceKeepsContracts == Spec => Manager!Spec /\ FlagStore!Spec
  <1>1. Init => Manager!Init /\ FlagStore!Init
    BY DEF Init
  <1>2. TypeInv /\ [Next]_vars => [Manager!Next]_(Manager!contractVars)
                                 /\ [FlagStore!Next]_(FlagStore!flagContractVars)
    BY ContractsKept
    DEF ManagerStep, FlagStep, Manager!contractVars, FlagStore!flagContractVars,
        managerVars, flagVars
  <1>3. QED
    BY <1>1, <1>2, Service, PTL DEF Spec, Manager!Spec, FlagStore!Spec

-----------------------------------------------------------------------------
(* The travel of an identity. *)

(* The inductive invariant: what is known of one request, by its stage. *)

Received == {"FromHeader", "RequireAdmin", "handler", "replied"}

\* A request under way is at a backend.
PlaceInv == \A q \in Requests : step[q] # "idle" => at[q] \in Backends

TravelTyped == TravelTypeOK /\ PlaceInv

\* The gateway has authenticated whom it is about to stamp.
Authenticated(q) == step[q] = "client" => user[q] \in Users

\* A backend receives the identity version only together with the user the
\* gateway authenticated: a peer replays both or neither.
Identified(q) ==
    step[q] \in Received /\ hdr[q]["Version"] # Absent =>
        hdr[q]["User"] = user[q] /\ user[q] \in Users

\* A backend receives the admin header from the gateway, for an admin on an admin
\* route, or from a developer who has switched trust off; never from a peer.
AdminHeaderEarned(q) ==
    step[q] \in Received /\ hdr[q]["Admin"] = AdminHeaderValue =>
        \/ via[q] = "gateway" /\ user[q] \in Admins
        \/ via[q] = "direct" /\ ~TrustEnabled(env[at[q]])

\* From FromHeader on the context has the snapshot of the headers that the peers
\* will be sent; the claims are set and the version was checked where trust is on.
SnapshotTaken(q) ==
    step[q] \in {"RequireAdmin", "handler"} =>
        /\ ctx[q] = captureTrustHeaders(hdr[q])
        /\ TrustEnabled(env[at[q]]) =>
              /\ hdr[q]["Version"] = CurrentIdentityVersion
              /\ claims[q] = hdr[q]["User"]

\* The handler of an admin route runs behind RequireAdmin.
Guarded(q) ==
    step[q] = "handler" /\ admin[q] => RequireAdminStatus(env[at[q]], hdr[q]) = 0

TravelSound(q) ==
    Authenticated(q) /\ Identified(q) /\ AdminHeaderEarned(q) /\ SnapshotTaken(q)
    /\ Guarded(q)

TrustInv == (\A q \in Requests : TravelSound(q)) /\ AnonymousCallsAreWarned

-----------------------------------------------------------------------------
(* Facts about the pure operators. *)

LEMMA AbsentIsNoValue == Absent \notin {"1", "2", "org", "nil"}
  BY Zenon DEF Absent

LEMMA DetachedIsNoSnapshot == \A f \in [Headers -> HeaderValues] : f # Detached
  <1> SUFFICES ASSUME NEW f \in [Headers -> HeaderValues], f = Detached PROVE FALSE
    OBVIOUS
  <1>1. "User" \in DOMAIN f /\ DOMAIN Detached = {}
    BY DEF Headers, Detached
  <1>2. QED
    BY <1>1

LEMMA CaptureType ==
    ASSUME NEW h \in [Headers -> HeaderValues]
    PROVE  /\ captureTrustHeaders(h) \in [Headers -> HeaderValues]
           /\ captureTrustHeaders(h)["User"] = h["User"]
           /\ captureTrustHeaders(h)["Version"] = h["Version"]
           /\ captureTrustHeaders(h)["Admin"] = Absent
  BY DEF captureTrustHeaders, Headers, PropagatedTrustHeaders, HeaderValues

LEMMA NoHeadersType ==
    /\ NoHeaders \in [Headers -> HeaderValues]
    /\ \A h \in Headers : NoHeaders[h] = Absent
  BY DEF NoHeaders, HeaderValues

\* A peer is sent the user and the version of the snapshot, if there is one, and
\* never the admin header.
LEMMA PropagatedType ==
    ASSUME NEW src \in [Headers -> HeaderValues] \cup {Detached}
    PROVE  /\ Propagated(src) \in [Headers -> HeaderValues]
           /\ Propagated(src)["Admin"] = Absent
           /\ src # Detached => /\ Propagated(src)["User"] = src["User"]
                                /\ Propagated(src)["Version"] = src["Version"]
           /\ src = Detached => Propagated(src)["Version"] = Absent
  BY CaptureType, NoHeadersType DEF Propagated, Headers

LEMMA StampedType ==
    ASSUME TravelTypeOK, NEW q \in Requests
    PROVE  /\ Stamped(q) \in [Headers -> HeaderValues]
           /\ Stamped(q)["User"] = user[q]
           /\ Stamped(q)["Version"] = version
           /\ Stamped(q)["Admin"] = IF admin[q] THEN AdminHeaderValue ELSE Absent
  BY DEF Stamped, TravelTypeOK, Headers, AllTrustHeaders, HeaderValues,
         AdminHeaderValue

-----------------------------------------------------------------------------
(* Types. *)

LEMMA TravelTypeInit == TravelInit => TravelTyped
  BY NoHeadersType, EastWestAssumption DEF TravelInit, TravelTyped, TravelTypeOK, PlaceInv

LEMMA PlaceStep == TravelTyped /\ [TravelNext]_travelVars => PlaceInv'
  BY DEF TravelTyped, TravelTypeOK, PlaceInv, TravelNext, SetPropagateLogger, ClientSends,
         DirectCall,
         CallPeer, BackgroundCall, GatewayForwards, FromHeader, RequireAdmin,
         Finish, travelVars

LEMMA TravelTypeStep == TravelTyped /\ [TravelNext]_travelVars => TravelTyped'
  <1> SUFFICES ASSUME TravelTyped, [TravelNext]_travelVars PROVE TravelTypeOK'
    BY PlaceStep DEF TravelTyped
  <1> TravelTypeOK /\ PlaceInv
    BY DEF TravelTyped
  <1> USE EastWestAssumption DEF config, once
  <1>1. ASSUME NEW b \in Backends, SetPropagateLogger(b) PROVE TravelTypeOK'
    BY <1>1 DEF SetPropagateLogger, TravelTypeOK
  <1>2. ASSUME NEW q \in Requests, NEW b \in Backends, NEW adm \in BOOLEAN,
              NEW u \in Users, NEW forged \in Users,
              ClientSends(q, u, b, adm, [h \in Headers |-> IF h = "User" THEN forged
                                                          ELSE "1"])
        PROVE  TravelTypeOK'
    <2>1. [h \in Headers |-> IF h = "User" THEN forged ELSE "1"]
            \in [Headers -> HeaderValues]
      BY DEF HeaderValues
    <2>2. QED
      BY <1>2, <2>1 DEF ClientSends, TravelTypeOK
  <1>3. ASSUME NEW q \in Requests, NEW b \in Backends, NEW adm \in BOOLEAN,
              NEW a \in {Absent, AdminHeaderValue},
              DirectCall(q, b, adm, [NoHeaders EXCEPT !["Admin"] = a])
        PROVE  TravelTypeOK'
    <2>1. [NoHeaders EXCEPT !["Admin"] = a] \in [Headers -> HeaderValues]
      BY NoHeadersType DEF HeaderValues, AdminHeaderValue
    <2>2. QED
      BY <1>3, <2>1 DEF DirectCall, TravelTypeOK
  <1>4. ASSUME NEW q \in Requests, NEW b \in Backends, NEW adm \in BOOLEAN,
              CallPeer(q, b, adm)
        PROVE  TravelTypeOK'
    <2>1. Propagated(ctx[q]) \in [Headers -> HeaderValues]
      BY PropagatedType DEF TravelTypeOK
    <2>2. warned' \in [Backends -> BOOLEAN] /\ logger' = logger
      BY <1>4 DEF CallPeer, Warn, TravelTypeOK
    <2>3. anonymous' \subseteq Backends
      BY <1>4 DEF CallPeer, Warn, TravelTypeOK, PlaceInv
    <2>4. hops' \in [Requests -> 0..MaxHops]
      BY <1>4 DEF CallPeer, TravelTypeOK
    <2>5. QED
      BY <1>4, <2>1, <2>2, <2>3, <2>4 DEF CallPeer, TravelTypeOK
  <1>5. ASSUME NEW q \in Requests, NEW b \in Backends, NEW adm \in BOOLEAN,
              NEW a \in Backends, BackgroundCall(q, a, b, adm)
        PROVE  TravelTypeOK'
    <2>1. Propagated(Detached) \in [Headers -> HeaderValues]
      BY PropagatedType
    <2>2. warned' \in [Backends -> BOOLEAN] /\ logger' = logger
      BY <1>5 DEF BackgroundCall, Warn, TravelTypeOK
    <2>3. anonymous' \subseteq Backends
      BY <1>5 DEF BackgroundCall, Warn, TravelTypeOK
    <2>4. QED
      BY <1>5, <2>1, <2>2, <2>3 DEF BackgroundCall, TravelTypeOK
  <1>6. ASSUME NEW q \in Requests, GatewayForwards(q) PROVE TravelTypeOK'
    BY <1>6, StampedType DEF GatewayForwards, TravelTypeOK
  <1>7. ASSUME NEW q \in Requests, FromHeader(q) PROVE TravelTypeOK'
    <2>1. captureTrustHeaders(hdr[q]) \in [Headers -> HeaderValues]
      BY CaptureType DEF TravelTypeOK
    <2>2. claims' \in [Requests -> HeaderValues \cup {"nil"}]
      <3>1. ClaimsOf(env[at[q]], hdr[q]) \in HeaderValues \cup {"nil"}
        BY DEF ClaimsOf, TravelTypeOK, Headers
      <3>2. QED
        BY <1>7, <3>1 DEF FromHeader, TravelTypeOK
    <2>3. QED
      BY <1>7, <2>1, <2>2 DEF FromHeader, TravelTypeOK
  <1>8. ASSUME NEW q \in Requests, RequireAdmin(q) PROVE TravelTypeOK'
    BY <1>8 DEF RequireAdmin, TravelTypeOK
  <1>9. ASSUME NEW q \in Requests, Finish(q) PROVE TravelTypeOK'
    BY <1>9, NoHeadersType DEF Finish, TravelTypeOK
  <1>10. CASE UNCHANGED travelVars
    BY <1>10 DEF travelVars, TravelTypeOK
  <1>11. QED
    BY <1>1, <1>2, <1>3, <1>4, <1>5, <1>6, <1>7, <1>8, <1>9, <1>10 DEF TravelNext

\* Every request, header map and snapshot is well typed, and a request under way is
\* at a backend.
THEOREM EastWestTypes == TravelSpec => []TravelTyped
  <1>1. TravelInit => TravelTyped
    BY TravelTypeInit
  <1>2. TravelTyped /\ [TravelNext]_travelVars => TravelTyped'
    BY TravelTypeStep
  <1>3. QED
    BY <1>1, <1>2, PTL DEF TravelSpec

-----------------------------------------------------------------------------
(* Trust. *)

LEMMA TravelSoundInit == TravelInit => TrustInv
  BY DEF TravelInit, TrustInv, TravelSound, Authenticated, Identified, AdminHeaderEarned,
         SnapshotTaken,
         Guarded, AnonymousCallsAreWarned, Received

\* What one request's step says of another: nothing changes for it.
LEMMA TravelSoundKept ==
    ASSUME NEW r \in Requests, TravelSound(r), env' = env,
           step'[r] = step[r], user'[r] = user[r], hdr'[r] = hdr[r], via'[r] = via[r],
           at'[r] = at[r], ctx'[r] = ctx[r], claims'[r] = claims[r], admin'[r] = admin[r]
    PROVE  TravelSound(r)'
  BY DEF TravelSound, Authenticated, Identified, AdminHeaderEarned, SnapshotTaken, Guarded

\* A step in which no backend calls a peer.
LEMMA WarnedKept ==
    ASSUME AnonymousCallsAreWarned, env' = env, UNCHANGED <<warned, anonymous>>
    PROVE  AnonymousCallsAreWarned'
  BY DEF AnonymousCallsAreWarned

LEMMA TravelSoundStep ==
    ASSUME TravelTyped, TravelTyped', TrustInv, [TravelNext]_travelVars
    PROVE  TrustInv'
  <1> TravelTypeOK /\ PlaceInv /\ AnonymousCallsAreWarned /\ \A q \in Requests : TravelSound(q)
    BY DEF TravelTyped, TrustInv
  <1> USE AbsentIsNoValue, EastWestAssumption DEF config, once
  <1>1. ASSUME NEW b \in Backends, SetPropagateLogger(b) PROVE TrustInv'
    BY <1>1, TravelSoundKept, WarnedKept DEF SetPropagateLogger, TrustInv
  <1>2. ASSUME NEW q \in Requests, NEW b \in Backends, NEW adm \in BOOLEAN,
              NEW u \in Users, NEW forged \in Users,
              ClientSends(q, u, b, adm, [h \in Headers |-> IF h = "User" THEN forged
                                                          ELSE "1"])
        PROVE  TrustInv'
    <2>1. \A r \in Requests \ {q} : TravelSound(r)'
      BY <1>2, TravelSoundKept DEF ClientSends, TravelTypeOK
    <2>2. TravelSound(q)'
      BY <1>2 DEF ClientSends, TravelSound, Authenticated, Identified,
         AdminHeaderEarned, SnapshotTaken, Guarded, Received, TravelTypeOK
    <2>3. QED
      BY <1>2, <2>1, <2>2, WarnedKept DEF ClientSends, TrustInv
  <1>3. ASSUME NEW q \in Requests, NEW b \in Backends, NEW adm \in BOOLEAN,
              NEW a \in {Absent, AdminHeaderValue},
              DirectCall(q, b, adm, [NoHeaders EXCEPT !["Admin"] = a])
        PROVE  TrustInv'
    <2>1. \A r \in Requests \ {q} : TravelSound(r)'
      BY <1>3, TravelSoundKept DEF DirectCall, TravelTypeOK
    <2>0. [NoHeaders EXCEPT !["Admin"] = a]["Version"] = Absent
      BY NoHeadersType DEF Headers
    <2>2. TravelSound(q)'
      <3>1. /\ step'[q] = "FromHeader" /\ via'[q] = "direct" /\ at'[q] = b /\ env' = env
            /\ hdr'[q] = [NoHeaders EXCEPT !["Admin"] = a]
        BY <1>3 DEF DirectCall, TravelTypeOK
      <3>2. hdr'[q]["Admin"] = AdminHeaderValue => ~TrustEnabled(env[b])
        BY <1>3, <3>1 DEF DirectCall
      <3>3. QED
        BY <2>0, <3>1, <3>2
        DEF TravelSound, Authenticated, Identified, AdminHeaderEarned, SnapshotTaken,
            Guarded,
            Received
    <2>3. QED
      BY <1>3, <2>1, <2>2, WarnedKept DEF DirectCall, TrustInv
  <1>4. ASSUME NEW q \in Requests, GatewayForwards(q) PROVE TrustInv'
    <2>1. \A r \in Requests \ {q} : TravelSound(r)'
      BY <1>4, TravelSoundKept DEF GatewayForwards, TravelTypeOK
    <2>2. TravelSound(q)'
      <3>1. /\ step'[q] = "FromHeader" /\ via'[q] = "gateway" /\ user'[q] = user[q]
            /\ hdr'[q] = Stamped(q)
        BY <1>4 DEF GatewayForwards, TravelTypeOK
      <3>2. user[q] \in Users
        BY <1>4 DEF GatewayForwards, TravelSound, Authenticated
      <3>3. hdr'[q]["User"] = user[q]
        BY <3>1, StampedType
      <3>4. hdr'[q]["Admin"] = AdminHeaderValue => user[q] \in Admins
        BY <1>4, <3>1, StampedType DEF GatewayForwards, AdminHeaderValue
      <3>5. QED
        BY <3>1, <3>2, <3>3, <3>4
        DEF TravelSound, Authenticated, Identified, AdminHeaderEarned, SnapshotTaken,
            Guarded,
            Received
    <2>3. QED
      BY <1>4, <2>1, <2>2, WarnedKept DEF GatewayForwards, TrustInv
  <1>5. ASSUME NEW q \in Requests, FromHeader(q) PROVE TrustInv'
    <2>1. \A r \in Requests \ {q} : TravelSound(r)'
      BY <1>5, TravelSoundKept DEF FromHeader, TravelTypeOK
    <2>2. TravelSound(q)'
      BY <1>5 DEF FromHeader, FromHeaderStatus, ClaimsOf, TravelSound, Authenticated,
                  Identified,
         AdminHeaderEarned, SnapshotTaken, Guarded, Received, TravelTypeOK
    <2>3. QED
      BY <1>5, <2>1, <2>2, WarnedKept DEF FromHeader, TrustInv
  <1>6. ASSUME NEW q \in Requests, RequireAdmin(q) PROVE TrustInv'
    <2>1. \A r \in Requests \ {q} : TravelSound(r)'
      BY <1>6, TravelSoundKept DEF RequireAdmin, TravelTypeOK
    <2>2. TravelSound(q)'
      BY <1>6 DEF RequireAdmin, TravelSound, Authenticated, Identified,
         AdminHeaderEarned, SnapshotTaken, Guarded, Received, TravelTypeOK
    <2>3. QED
      BY <1>6, <2>1, <2>2, WarnedKept DEF RequireAdmin, TrustInv
  <1>7. ASSUME NEW q \in Requests, Finish(q) PROVE TrustInv'
    <2>1. \A r \in Requests \ {q} : TravelSound(r)'
      BY <1>7, TravelSoundKept DEF Finish, TravelTypeOK
    <2>2. TravelSound(q)'
      BY <1>7, NoHeadersType DEF Finish, TravelSound, Authenticated, Identified,
         AdminHeaderEarned, SnapshotTaken, Guarded, Received, TravelTypeOK
    <2>3. QED
      BY <1>7, <2>1, <2>2, WarnedKept DEF Finish, TrustInv
  <1>8. ASSUME NEW q \in Requests, NEW b \in Backends, NEW adm \in BOOLEAN,
              CallPeer(q, b, adm)
        PROVE  TrustInv'
    <2>1. \A r \in Requests \ {q} : TravelSound(r)'
      BY <1>8, TravelSoundKept DEF CallPeer, TravelTypeOK
    <2>2. /\ ctx[q] \in [Headers -> HeaderValues] /\ ctx[q] # Detached
          /\ ctx[q]["User"] = hdr[q]["User"] /\ ctx[q]["Version"] = hdr[q]["Version"]
      BY <1>8, CaptureType, DetachedIsNoSnapshot DEF CallPeer, TravelSound,
          SnapshotTaken, TravelTypeOK
    <2>3. /\ Propagated(ctx[q])["Version"] = hdr[q]["Version"]
          /\ Propagated(ctx[q])["User"] = hdr[q]["User"]
          /\ Propagated(ctx[q])["Admin"] = Absent
      BY <2>2, PropagatedType
    <2>4. TravelSound(q)'
      BY <1>8, <2>3 DEF CallPeer, TravelSound, Authenticated, Identified,
         AdminHeaderEarned, SnapshotTaken, Guarded, Received, TravelTypeOK, AdminHeaderValue
    <2>5. AnonymousCallsAreWarned'
      <3>1. TrustEnabled(env[at[q]]) => Propagated(ctx[q])["Version"] # Absent
        BY <1>8, <2>3 DEF CallPeer, TravelSound, SnapshotTaken, CurrentIdentityVersion
      <3>2. \A c \in Backends : warned[c] => warned'[c]
        BY <1>8 DEF CallPeer, Warn, TravelTypeOK
      <3>3. \A c \in anonymous' : c \in anonymous \/ ~TrustEnabled(env[c])
        BY <1>8, <3>1 DEF CallPeer, Warn
      <3>4. env' = env
        BY <1>8 DEF CallPeer
      <3>5. QED
        BY <3>2, <3>3, <3>4 DEF AnonymousCallsAreWarned, TravelTypeOK
    <2>6. QED
      BY <2>1, <2>4, <2>5 DEF TrustInv
  <1>9. ASSUME NEW q \in Requests, NEW b \in Backends, NEW adm \in BOOLEAN,
              NEW a \in Backends,
              BackgroundCall(q, a, b, adm)
        PROVE  TrustInv'
    <2>1. \A r \in Requests \ {q} : TravelSound(r)'
      BY <1>9, TravelSoundKept DEF BackgroundCall, TravelTypeOK
    <2>2. /\ Propagated(Detached)["Version"] = Absent
          /\ Propagated(Detached)["Admin"] = Absent
      BY PropagatedType
    <2>3. TravelSound(q)'
      BY <1>9, <2>2 DEF BackgroundCall, TravelSound, Authenticated, Identified,
         AdminHeaderEarned, SnapshotTaken, Guarded, Received, TravelTypeOK, AdminHeaderValue
    <2>4. AnonymousCallsAreWarned'
      <3>1. \A c \in Backends : warned'[c] = (warned[c] \/ (c = a /\ logger[a]))
        BY <1>9 DEF BackgroundCall, Warn, TravelTypeOK
      <3>2. \A c \in anonymous' : c \in anonymous \/ (c = a /\ logger[a])
        BY <1>9 DEF BackgroundCall, Warn
      <3>3. env' = env
        BY <1>9 DEF BackgroundCall
      <3>4. QED
        BY <3>1, <3>2, <3>3 DEF AnonymousCallsAreWarned, TravelTypeOK
    <2>5. QED
      BY <2>1, <2>3, <2>4 DEF TrustInv
  <1>10. CASE UNCHANGED travelVars
    BY <1>10, TravelSoundKept, WarnedKept DEF travelVars, TrustInv
  <1>11. QED
    BY <1>1, <1>2, <1>3, <1>4, <1>5, <1>6, <1>7, <1>8, <1>9, <1>10 DEF TravelNext

LEMMA Trust == TravelSpec => [](TravelTyped /\ TrustInv)
  <1>1. TravelInit => TravelTyped /\ TrustInv
    BY TravelTypeInit, TravelSoundInit
  <1>2. TravelTyped /\ TrustInv /\ [TravelNext]_travelVars => (TravelTyped /\ TrustInv)'
    BY TravelTypeStep, TravelSoundStep
  <1>3. QED
    BY <1>1, <1>2, PTL DEF TravelSpec

\* RequireAdmin lets a request through to the handler of an admin route only when the
\* gateway sent it for an admin, or in local development: no chain of peers, forged
\* header or background task gains the privilege.
THEOREM AdminRoutesAreGuarded == TravelSpec => []AdminRunsAuthorised
  <1>1. TravelTyped /\ TrustInv => AdminRunsAuthorised
    BY DEF TrustInv, TravelSound, AdminHeaderEarned, Guarded, Received,
    RequireAdminStatus, AdminRunsAuthorised
  <1>2. QED
    BY <1>1, Trust, PTL

\* Behind FromHeader with trust on, a handler sees the claims of the user the gateway
\* authenticated, however many peers have replayed the headers.
THEOREM ClaimsStayAuthentic == TravelSpec => []ClaimsAreAuthentic
  <1>1. TravelTyped /\ TrustInv => ClaimsAreAuthentic
    BY AbsentIsNoValue, EastWestAssumption
    DEF TrustInv, TravelSound, Identified, SnapshotTaken, Received,
        CurrentIdentityVersion, ClaimsAreAuthentic
  <1>2. QED
    BY <1>1, Trust, PTL

\* PropagateTrustHeaders has warned in every backend that enforces trust and made an
\* anonymous call while its logger was wired.
THEOREM AnonymousCallsAreKnown == TravelSpec => []AnonymousCallsAreWarned
  <1>1. TravelTyped /\ TrustInv => AnonymousCallsAreWarned
    BY DEF TrustInv
  <1>2. QED
    BY <1>1, Trust, PTL
==============================================================================
