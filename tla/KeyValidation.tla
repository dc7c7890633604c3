--------------------------- MODULE KeyValidation ---------------------------
(***************************************************************************)
(* The registry of config keys and the one gate every value passes:        *)
(* Register with normalizeValue for the defaults, Validate for a PUT and   *)
(* for a row read at boot, the typed getters that read the result, and the *)
(* JSON the merged view shows.  ConfigRegistry's constants Decode and      *)
(* Default stand for what this module computes.                            *)
(*                                                                         *)
(* A JSON number and a float64 n stand for n/Unit (n grains, see Floats);  *)
(* a duration is kept in ticks of 1/Second seconds.  Integers lie in       *)
(* -MaxInt-1 .. MaxInt.                                                    *)
(***************************************************************************)
EXTENDS Floats, SequencesExt

CONSTANTS
    Declarations,   \* the Key literals a service may pass to Register
    Numbers,        \* the JSON numbers a caller may write, in grains
    Unit, Second,
    MaxInt,
    MaxKeys         \* bound: keys registered before the service starts

ASSUME ValidationAssumption ==
    /\ Unit \in Nat \ {0} /\ Second \in Nat \ {0} /\ MaxInt \in Nat
    /\ Numbers \subseteq Int

VARIABLES
    overflow,   \* how the build converts a float64 beyond int64
    reg,        \* Registry.keys, in registration order
    panicked,   \* Register has panicked: the service does not start
    up,         \* registration is over
    over        \* name -> override; partial

vars == <<overflow, reg, panicked, up, over>>

\* JSON values, and the typed Go values they become.
Num(n) == [json |-> "number", n |-> n]
NoString == ""
Str(s) == [json |-> "string", s |-> s]
Bool(b) == [json |-> "bool", s |-> b]
Null == [json |-> "null"]
Object == [json |-> "object"]

Raws == {Num(n) : n \in Numbers} \cup {Str("a"), Str("z"), Str(NoString)}
        \cup {Bool("true"), Bool("false"), Null, Object}

GoInt(i) == [go |-> "int64", n |-> i]
GoFloat(f) == [go |-> "float64", n |-> f]
GoDuration(d) == [go |-> "Duration", n |-> d]
GoBool(b) == [go |-> "bool", s |-> b]
GoString(s) == [go |-> "string", s |-> s]
Error == [go |-> "error"]

Kinds == {"int", "float", "bool", "string", "enum", "duration"}

GoType(kind) ==
    CASE kind = "int" -> "int64"
      [] kind = "float" -> "float64"
      [] kind = "duration" -> "Duration"
      [] kind = "bool" -> "bool"
      [] kind \in {"string", "enum"} -> "string"

GoValues ==
    [go : {"int64", "float64", "Duration"}, n : Int] \cup [go : {"bool", "string"}, s : STRING]

Keys ==
    [name : STRING, kind : Kinds, default : GoValues, min : SUBSET Int, max : SUBSET Int,
     enum : SUBSET STRING]

\* Bounds.Min and Bounds.Max are each a float64 or nil (and so are both when Bounds
\* is nil): here a set of at most one number.
ASSUME DeclarationAssumption ==
    /\ Declarations \subseteq Keys
    /\ \A k \in Declarations : \A b, c \in k.min \cup k.max :
         {b, c} \subseteq k.min \/ {b, c} \subseteq k.max => b = c

-----------------------------------------------------------------------------
Trunc(a, b) == IF a >= 0 THEN a \div b ELSE -((-a) \div b)

\* int64(f): towards zero; out of range, the bound that it is beyond (arm64) or always
\* the least integer (amd64).
ToInt(f) ==
    IF Trunc(f, Unit) \in -MaxInt - 1 .. MaxInt THEN Trunc(f, Unit)
    ELSE IF overflow = "saturates" /\ f > 0 THEN MaxInt ELSE -MaxInt - 1

\* float64(i): the nearest float.
ToFloat(i) == Fl(i * Unit, 1)

\* time.Duration(f * float64(time.Second)), the product rounded before it is truncated.
ToDuration(f) == ToInt(Fl(f * Second, 1))

\* Duration.Seconds(): float64(sec) + float64(nsec)/1e9, each rounded.
Seconds(d) ==
    LET sec == Trunc(d, Second)  nsec == d - sec * Second IN
    Fl(ToFloat(sec) + Fl(ToFloat(nsec), Second), 1)

\* int64 multiplication.
Wrap(x) == ((x + MaxInt + 1) % (2 * (MaxInt + 1))) - (MaxInt + 1)

\* json.Unmarshal into a float64, a string or a bool.  null leaves the zero value.
Unmarshals(kind, raw) ==
    \/ raw = Null
    \/ raw.json = CASE kind \in {"int", "float", "duration"} -> "number"
                    [] kind \in {"string", "enum"} -> "string"
                    [] kind = "bool" -> "bool"

NumberOf(raw) == IF raw = Null THEN 0 ELSE Fl(raw.n, 1)
StringOf(raw) == IF raw = Null THEN NoString ELSE raw.s
BoolOf(raw) == IF raw = Null THEN "false" ELSE raw.s

\* Mutant: the maximum is exclusive of one unit too many.
checkBoundsLoose(k, f) ==
    (\A b \in k.min : f >= b) /\ (\A b \in k.max : f <= b + Unit)

\* Bounds are inclusive.
checkBounds(k, f) ==
    (\A b \in k.min : f >= b) /\ (\A b \in k.max : f <= b)

validateNumber(k, f) ==
    IF (k.kind = "int" => f = ToFloat(ToInt(f))) /\ checkBounds(k, f)
    THEN CASE k.kind = "int" -> GoInt(ToInt(f))
           [] k.kind = "float" -> GoFloat(f)
           [] k.kind = "duration" -> GoDuration(ToDuration(f))
    ELSE Error

\* Errors wrap ErrInvalidValue; Apply, Clear and LoadAtBoot only tell them from none.
validateAgainst(k, raw) ==
    IF ~Unmarshals(k.kind, raw) THEN Error
    ELSE CASE k.kind = "bool" -> GoBool(BoolOf(raw))
           [] k.kind = "string" -> GoString(StringOf(raw))
           [] k.kind = "enum" -> IF StringOf(raw) \in k.enum THEN GoString(StringOf(raw))
                                 ELSE Error
           [] OTHER -> validateNumber(k, NumberOf(raw))

\* Mutant: a whole number given as the default of a float stays an int64.
normalizeValueKept(kind, v) ==
    CASE kind = "float" /\ v.go = "int64" -> v
      [] v.go = GoType(kind) -> v
      [] OTHER -> Error

\* A default, given as one of the Go types, in the type of the kind.
normalizeValue(kind, v) ==
    IF v.go = GoType(kind) THEN v
    ELSE IF kind = "int" /\ v.go = "float64" /\ v.n = ToFloat(ToInt(v.n))
         THEN GoInt(ToInt(v.n))
    ELSE IF kind = "float" /\ v.go = "int64" THEN GoFloat(ToFloat(v.n))
    ELSE IF kind = "duration" /\ v.go = "int64" THEN GoDuration(Wrap(v.n * Second))
    ELSE IF kind = "duration" /\ v.go = "float64" THEN GoDuration(ToDuration(v.n))
    ELSE Error

\* Mutant: a duration is shown as the raw number of ticks.
toJSONValueRaw(v) ==
    CASE v.go = "int64" -> Num(v.n * Unit)
      [] v.go = "float64" -> Num(v.n)
      [] v.go = "Duration" -> Num(v.n * Unit)
      [] v.go = "bool" -> Bool(v.s)
      [] v.go = "string" -> Str(v.s)

\* What the merged view shows for a value; a duration is shown in seconds.
toJSONValue(v) ==
    CASE v.go = "int64" -> Num(v.n * Unit)
      [] v.go = "float64" -> Num(v.n)
      [] v.go = "Duration" -> Num(Seconds(v.n))
      [] v.go = "bool" -> Bool(v.s)
      [] v.go = "string" -> Str(v.s)

-----------------------------------------------------------------------------
Registered == {reg[i].name : i \in DOMAIN reg}
KeyNamed(name) == reg[CHOOSE i \in DOMAIN reg : reg[i].name = name]

TypeOK ==
    /\ overflow \in {"saturates", "indefinite"}
    /\ panicked \in BOOLEAN /\ up \in BOOLEAN
    /\ DOMAIN over \subseteq Registered
    /\ \A i, j \in DOMAIN reg : reg[i].name = reg[j].name => i = j

Init ==
    /\ overflow \in {"saturates", "indefinite"}
    /\ reg = <<>> /\ panicked = FALSE /\ up = FALSE
    /\ over = [n \in {} |-> Error]

\* Panics leave the registry as it was.
Register(k) ==
    LET nv == normalizeValue(k.kind, k.default) IN
    /\ ~up /\ ~panicked /\ Len(reg) < MaxKeys
    /\ IF k.name = NoString \/ k.name \in Registered \/ nv = Error
         THEN panicked' = TRUE /\ UNCHANGED reg
         ELSE reg' = Append(reg, [k EXCEPT !.default = nv]) /\ UNCHANGED panicked
    /\ UNCHANGED <<overflow, up, over>>

Start ==
    /\ ~up /\ ~panicked
    /\ up' = TRUE
    /\ UNCHANGED <<overflow, reg, panicked, over>>

\* A PUT, or a persisted row at boot: what Validate returns becomes the override.
Override(name, raw) ==
    LET v == validateAgainst(KeyNamed(name), raw) IN
    /\ up
    /\ name \in Registered
    /\ v # Error
    /\ over' = [n \in DOMAIN over \cup {name} |-> IF n = name THEN v ELSE over[n]]
    /\ UNCHANGED <<overflow, reg, panicked, up>>

Next ==
    \/ \E k \in Declarations : Register(k)
    \/ Start
    \/ \E name \in Registered, raw \in Raws : Override(name, raw)

Spec == Init /\ [][Next]_vars

-----------------------------------------------------------------------------
\* resolve: the live override, else the default.
Resolve(name) == IF name \in DOMAIN over THEN over[name] ELSE KeyNamed(name).default

\* The typed getter of a key's kind asserts the Go type and returns zero when it
\* is another: for a registered key that fallback is never taken, whether the
\* value is a default in any Go type Register takes or an override.
GettersSeeTheirType ==
    \A name \in Registered : Resolve(name).go = GoType(KeyNamed(name).kind)

\* The ticks that b seconds convert to, where the type does not end.
Ticks(b) == Trunc(Fl(b * Second, 1), Unit)

\* A duration key that accepts seconds a time.Duration cannot hold, and an override
\* that such seconds may have become.
OpenEnded(k) ==
    k.min = {} \/ k.max = {} \/ \E b \in k.min \cup k.max : Ticks(b) \notin -MaxInt - 1 .. MaxInt

Overflown(k, d) == OpenEnded(k) /\ d \in {-MaxInt - 1, MaxInt}

\* A bound of a duration key is kept up to its own conversion, which may lose the
\* part of a tick.
DurationKeepsBounds(k, d) ==
    Overflown(k, d) \/ ((\A b \in k.min : d >= Ticks(b)) /\ (\A b \in k.max : d <= Ticks(b)))

\* Every override, from a PUT or from a row, keeps to the bounds and the enum of
\* its key; null too.  (Defaults are not held to them.)
OverridesKeepBounds ==
    \A name \in DOMAIN over :
        LET k == KeyNamed(name)  v == over[name] IN
        /\ k.kind = "enum" => v.s \in k.enum
        /\ k.kind = "int" => checkBounds(k, ToFloat(v.n))
        /\ k.kind = "float" => checkBounds(k, v.n)
        /\ k.kind = "duration" => DurationKeepsBounds(k, v.n)

WrittenBack(name) == validateAgainst(KeyNamed(name), toJSONValue(over[name]))

\* A PUT of the value that GET shows for an override yields the same typed value.
\* For a duration this is so for whole seconds that float64 holds exactly, if they are
\* within the bounds; any other one may lose a tick.
ViewIsWrittenBack ==
    \A name \in DOMAIN over :
        LET k == KeyNamed(name)  v == over[name] IN
        /\ k.kind # "duration" => WrittenBack(name) = v
        /\ /\ k.kind = "duration" /\ checkBounds(k, Seconds(v.n))
           /\ v.n % Second = 0 /\ IsFloat(v.n * Unit) /\ IsFloat((v.n \div Second) * Unit)
           => WrittenBack(name) = v

\* The bounds of a key are whole seconds or absent.
WholeBounds(k) == \A b \in k.min \cup k.max : b % Unit = 0

ViewCanBeWrittenBack ==
    /\ ViewIsWrittenBack
    /\ \A name \in DOMAIN over :
         LET k == KeyNamed(name)  w == WrittenBack(name) IN
         /\ k.kind = "duration" /\ WholeBounds(k)
         /\ k.min \cup k.max = {} \/ ~Overflown(k, over[name].n)
         =>
            /\ w # Error
            /\ over[name].n \in -Significand .. Significand =>
                 over[name].n - w.n \in -1 .. 1
=============================================================================
