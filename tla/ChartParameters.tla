-------------------------- MODULE ChartParameters --------------------------
(***************************************************************************)
(* The weather-parameter registry: what a series inherits from its         *)
(* parameter, the status of a value and the bands shaded behind the marks. *)
(* One entry of each shape stands for the table: with and without          *)
(* thresholds, inverted, an accumulation drawn as bars.                    *)
(***************************************************************************)
EXTENDS ChartScale

CONSTANT Texts  \* names, units, marks and statuses

ASSUME TextAssumption ==
    {"", "line", "bar", "C", "hPa", "m/s", "mm", "km", "none", "good", "warning", "critical",
     "wind_speed", "wind_direction"} \subseteq Texts

ParameterDef(unit, mark, zero, inverted, breaks, worst) ==
    [unit |-> unit, mark |-> mark, zero |-> zero,
     inverted |-> inverted, breaks |-> breaks, worst |-> worst]

Break(at, status) == [at |-> at * Unit, status |-> status]

\* Without thresholds, or without a definition: no breaks and no status.
Unregistered == ParameterDef("", "", FALSE, FALSE, <<>>, "none")

parameterDefs ==
    [k \in {"temperature_2m", "mslp", "wind_speed", "precipitation", "visibility"} |->
        CASE k = "temperature_2m" ->
               ParameterDef("C", "", FALSE, FALSE,
                            <<Break(30, "good"), Break(35, "warning")>>, "critical")
          [] k = "mslp" -> ParameterDef("hPa", "", FALSE, FALSE, <<>>, "none")
          [] k = "wind_speed" ->
               ParameterDef("m/s", "", TRUE, FALSE,
                            <<Break(10, "good"), Break(20, "warning")>>, "critical")
          [] k = "precipitation" ->
               ParameterDef("mm", "bar", TRUE, FALSE,
                            <<Break(1, "good"), Break(5, "warning")>>, "critical")
          [] k = "visibility" ->
               ParameterDef("km", "", TRUE, TRUE,
                            <<Break(10, "good"), Break(5, "warning")>>, "critical")]

parameterAliases == [a \in {"temp", "rain"} |->
                        IF a = "temp" THEN "temperature_2m" ELSE "precipitation"]

\* strings.ToLower of strings.TrimSpace, on the names that need it.
Folded(name) == IF name = " Rain" THEN "rain" ELSE name

Parameter(name) ==
    LET key == IF Folded(name) \in DOMAIN parameterAliases
                 THEN parameterAliases[Folded(name)] ELSE Folded(name)
    IN  IF key \in DOMAIN parameterDefs THEN parameterDefs[key] ELSE Unregistered

EffectiveUnit(s) == IF s.unit # "" THEN s.unit ELSE Parameter(s.param).unit

EffectiveMark(s) ==
    CASE s.mark # "" -> s.mark
      [] s.mark = "" /\ Parameter(s.param).mark # "" -> Parameter(s.param).mark
      [] OTHER -> "line"

-----------------------------------------------------------------------------
\* The first break on whose good side the value is.
Classify(name, v) ==
    LET t == Parameter(name)
        reached == {i \in DOMAIN t.breaks :
                       IF t.inverted THEN v >= t.breaks[i].at ELSE v <= t.breaks[i].at}
    IN  IF reached = {} THEN t.worst ELSE t.breaks[Min(reached)].status

Band(from, to, status, labelled) ==
    [from |-> from, to |-> to, status |-> status, labelled |-> labelled]

\* Mutant: the open band of an inverted parameter is the upper one too.
BandsForUpward(name) ==
    LET t == Parameter(name)
        n == Len(t.breaks)
        Between(i) == IF t.inverted
            THEN Band(t.breaks[i + 1].at, t.breaks[i].at, t.breaks[i + 1].status, TRUE)
            ELSE Band(t.breaks[i].at, t.breaks[i + 1].at, t.breaks[i + 1].status, TRUE)
    IN  IF n = 0 THEN <<>>
        ELSE Append([i \in 1..n - 1 |-> Between(i)], Band(t.breaks[n].at, Nil, t.worst, TRUE))

\* A band between every two breaks and the open one past the last.
BandsFor(name) ==
    LET t == Parameter(name)
        n == Len(t.breaks)
        Between(i) == IF t.inverted
            THEN Band(t.breaks[i + 1].at, t.breaks[i].at, t.breaks[i + 1].status, TRUE)
            ELSE Band(t.breaks[i].at, t.breaks[i + 1].at, t.breaks[i + 1].status, TRUE)
        Past == IF t.inverted THEN Band(Nil, t.breaks[n].at, t.worst, TRUE)
                              ELSE Band(t.breaks[n].at, Nil, t.worst, TRUE)
    IN  IF n = 0 THEN <<>> ELSE Append([i \in 1..n - 1 |-> Between(i)], Past)

\* panelBackground: the stripes that are left on an axis from min to max.
panelBackground(bands, min, max) ==
    LET Clipped(b) == [from |-> IF b.from = Nil THEN min ELSE MaxOf(min, b.from),
                       to   |-> IF b.to = Nil THEN max ELSE MinOf(max, b.to),
                       status |-> b.status]
    IN  {r \in {Clipped(bands[i]) : i \in DOMAIN bands} : r.from < r.to}
=============================================================================
