----------------------------- MODULE ChartScale -----------------------------
(***************************************************************************)
(* The axes: round domains, steps and ticks.  A value is an integer number *)
(* of 1/Unit, with exact arithmetic where the code has float64; a time is  *)
(* a whole number of 1/Minute minutes since Go's zero time, a midnight UTC,*)
(* and after 1970.                                                         *)
(***************************************************************************)
EXTENDS Integers, SequencesExt

CONSTANTS
    targetTicks, timeTickSteps,
    Unit,       \* steps per 1
    Minute,     \* of the time axis
    Milli,      \* a millisecond of the time axis
    Reach,      \* no value and no pin is further from zero
    Decades,    \* the powers of ten, as far as an axis may need them
    Nil,        \* a nil pointer
    NotFinite   \* a NaN or an infinity

maxTicks == 65

ASSUME ScaleAssumption ==
    /\ targetTicks \in 3..maxTicks - 2
    /\ Unit \in Nat \ {0} /\ Unit % 10 = 0
    /\ Reach \in Nat
    /\ Nil \notin Int /\ NotFinite \notin Int \cup {Nil}

ASSUME DecadeAssumption ==
    /\ Decades \subseteq Nat \ {0}
    /\ \A p \in Decades : p = 1 \/ \E q \in Decades : p = 10 * q
    /\ \E p \in Decades : p >= 20 * (Reach + Unit)

\* A step is at most targetTicks + 1 times the one before.
ASSUME TimeAssumption ==
    /\ Minute \in Nat \ {0} /\ Milli \in Nat \ {0} /\ Minute % Milli = 0
    /\ timeTickSteps \in Seq(Nat \ {0}) /\ timeTickSteps # <<>>
    /\ \A n \in 1..Len(timeTickSteps) : timeTickSteps[n] % Milli = 0
    /\ \A n \in 1..Len(timeTickSteps) - 1 :
         timeTickSteps[n + 1] <= (targetTicks + 1) * timeTickSteps[n]

MaxOf(a, b) == IF a > b THEN a ELSE b
MinOf(a, b) == IF a < b THEN a ELSE b

NiceSteps == {d * p : d \in {1, 2, 5}, p \in Decades}

\* The next 1-2-5 step for a span cut into targetTicks.
niceStep(span) ==
    CHOOSE s \in NiceSteps : /\ s * targetTicks >= span
                             /\ \A r \in NiceSteps : r * targetTicks >= span => s <= r

Floor(v, s) == (v \div s) * s

\* Mutant: the top of the domain is rounded down.
CeilDown(v, s) == (v \div s) * s

Ceil(v, s) == -((-v) \div s) * s

niceDomain(lo0, hi0, includeZero) ==
    LET lo1 == IF includeZero THEN MinOf(lo0, 0) ELSE lo0
        hi1 == IF includeZero THEN MaxOf(hi0, 0) ELSE hi0
        pad == IF lo1 # hi1 THEN 0
               ELSE MaxOf(MaxOf(hi1, -hi1) \div 10, Unit)
        lo == lo1 - pad
        hi == hi1 + pad
        step == niceStep(hi - lo)
    IN  [lo |-> Floor(lo, step), hi |-> Ceil(hi, step), step |-> step]

numericTicks(lo, hi, step) ==
    [n \in 1..MinOf((hi - lo) \div step + 1, maxTicks) |-> lo + (n - 1) * step]

timeStep(span) ==
    LET fits == {n \in DOMAIN timeTickSteps : span \div timeTickSteps[n] <= targetTicks}
    IN  IF fits = {} THEN Last(timeTickSteps) ELSE timeTickSteps[Min(fits)]

\* Time.Truncate works on the absolute time, whatever the location.
timeTicks(t0, t1) ==
    LET step  == timeStep(t1 - t0)
        first == t0 + ((-t0) % step)
    IN  IF first > t1 THEN <<>>
        ELSE [n \in 1..MinOf((t1 - first) \div step + 1, maxTicks) |-> first + (n - 1) * step]

\* Every finite value and band bound of a panel's series.
seriesExtent(series) ==
    (UNION {UNION {{series[j].points[k].v, series[j].points[k].lo, series[j].points[k].hi}
                   : k \in DOMAIN series[j].points} : j \in DOMAIN series}) \ {Nil, NotFinite}

\* time.UnixMilli of UnixMilli, or of a whole millisecond before the conversion to int64.
InMillis(t) == (t \div Milli) * Milli

\* The times of the series of all panels.
timeExtent(panels) ==
    UNION {UNION {{panels[i].series[j].points[k].t : k \in DOMAIN panels[i].series[j].points}
                  : j \in DOMAIN panels[i].series} : i \in DOMAIN panels}
=============================================================================
