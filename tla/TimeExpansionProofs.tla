------------------------ MODULE TimeExpansionProofs ------------------------
(***************************************************************************)
(* Proofs about TimeExpansion, for every cap, every size of an hour and of *)
(* a duration that TimeAssumption allows, and every input.                 *)
(***************************************************************************)
EXTENDS TimeExpansion, TLAPS

(* The inductive invariant. *)

\* What is known of the list and the step at each point.  A step that expandRangeTime
\* chose fits; the i-th entry of the walk is i - 1 steps from the start, and the
\* walk is never more than one step beyond the end.
WalkInv ==
    /\ pc \in {"idle", "expand", "step", "refused"} => out = <<>>
    /\ pc \in {"step", "walk"} => end > start
    /\ pc = "step" /\ form \notin ParsedSteps => Fits
    /\ pc = "walk" =>
         /\ Fits
         /\ t = start + Len(out) * step /\ t <= end + step
         /\ \A i \in 1..Len(out) : out[i] = start + (i - 1) * step
    /\ pc = "done" /\ SpanFits => Len(out) <= MaxTimestamps
    /\ pc # "fallback"

RangeAsked ==
    /\ asked # Nil /\ asked.type = "range_offset" /\ asked.lower
    /\ asked.hours \in 1..MaxResolutionHours

OffsetAsked ==
    asked # Nil /\ asked.type = "offset" /\ asked.hours \in 0..MaxResolutionHours

\* What a shortcut has become.
ShortcutInv ==
    /\ pc = "idle" => asked = Nil
    /\ asked # Nil => asked \in Shortcuts /\ (pc = "refused" <=> ~asked.lower)
    /\ asked # Nil /\ pc \in {"expand", "step", "walk"} =>
         form = "shortcut" /\ ~OffsetAsked
    /\ RangeAsked => /\ start % Day = 0 /\ end = start + asked.hours * Hour
                     /\ pc = "expand" => hours = 1
                     /\ pc = "done" => Head(out) = start /\ Last(out) = end
    /\ OffsetAsked /\ pc = "done" =>
         Len(out) = 1 /\ (out[1] - asked.hours * Hour) % Day = 0

\* The forms for which hours are a promise, and what is promised.
HoursAsked ==
    /\ form \in {"comma", "slash", "json", "shortcut"}
    /\ hours \in 1..MaxResolutionHours /\ end > start
    /\ form = "shortcut" => ~coarsened

\* The step is the one that was asked for: what was accepted is not made coarser.
GridInv ==
    /\ pc = "expand" /\ form = "json" /\ HoursAsked =>
         stepCount(Sub(end, start), hours * Hour) <= MaxTimestamps
    /\ pc = "expand" /\ form \in {"comma", "slash"} => hours = 0
    /\ pc \in {"step", "walk"} /\ HoursAsked => step = hours * Hour
    /\ pc = "done" /\ HoursAsked => out = Grid(hours)

TimeInv == WalkInv /\ ShortcutInv /\ GridInv

-----------------------------------------------------------------------------
(* Division. *)

LEMMA DivMod ==
    ASSUME NEW a \in Int, NEW b \in Nat \ {0}
    PROVE  /\ a \div b \in Int /\ a % b \in 0..(b - 1)
           /\ a = b * (a \div b) + (a % b)
  OBVIOUS

LEMMA Scaled ==
    ASSUME NEW j \in Int, NEW k \in Int, NEW b \in Nat \ {0}, j < k
    PROVE  j * b + b <= k * b
  OBVIOUS

LEMMA DivAtLeast ==
    ASSUME NEW a \in Int, NEW b \in Nat \ {0}, NEW k \in Int, k * b <= a
    PROVE  k <= a \div b
  <1> DEFINE d == a \div b
  <1>1. d \in Int /\ a < d * b + b
    BY DivMod
  <1>2. d < k => d * b + b <= k * b
    BY <1>1, Scaled
  <1>3. d * b \in Int /\ k * b \in Int
    BY <1>1
  <1> HIDE DEF d
  <1>4. QED
    BY <1>1, <1>2, <1>3 DEF d

LEMMA DivBelow ==
    ASSUME NEW a \in Int, NEW b \in Nat \ {0}, NEW k \in Int, a < k * b
    PROVE  a \div b < k
  <1> DEFINE d == a \div b
  <1>1. d \in Int /\ d * b <= a
    BY DivMod
  <1>2. k < d => k * b + b <= d * b
    BY <1>1, Scaled
  <1>3. d * b \in Int /\ k * b \in Int
    BY <1>1
  <1>4. k # d
    BY <1>1
  <1> HIDE DEF d
  <1>5. QED
    BY <1>1, <1>2, <1>3, <1>4 DEF d

LEMMA ModMultiple ==
    ASSUME NEW k \in Int, NEW b \in Nat \ {0}
    PROVE  (k * b) % b = 0
  OBVIOUS

-----------------------------------------------------------------------------
(* The arithmetic of the code. *)

Durations == -MaxDuration - 1 .. MaxDuration

LEMMA Constants ==
    /\ MaxTimestamps \in Nat /\ MaxTimestamps > 3 /\ MaxResolutionHours \in Nat
    /\ Hour \in Nat \ {0} /\ Hour > MaxTimestamps
    /\ Second \in Nat \ {0} /\ Day \in Nat \ {0} /\ MaxDuration \in Nat
    /\ MaxResolutionHours * Hour <= MaxDuration
    /\ MaxTimestamps * Hour < MaxDuration
  <1>1. /\ MaxTimestamps \in Nat /\ MaxTimestamps > 3 /\ MaxResolutionHours \in Nat
        /\ Hour \in Nat \ {0} /\ Hour > MaxTimestamps
        /\ Second \in Nat \ {0} /\ Day \in Nat \ {0} /\ MaxDuration \in Nat
        /\ MaxResolutionHours * Hour <= MaxDuration
        /\ MaxDuration \div Hour > MaxTimestamps
    BY TimeAssumption
  <1>2. MaxTimestamps * Hour < MaxDuration
    <2> DEFINE d == MaxDuration \div Hour
    <2>1. d \in Int /\ Hour * d <= MaxDuration
      BY <1>1, DivMod
    <2>2. MaxTimestamps * Hour + Hour <= d * Hour
      BY <1>1, <2>1, Scaled
    <2>3. QED
      BY <1>1, <2>1, <2>2
  <1>3. QED
    BY <1>1, <1>2

LEMMA Wraps ==
    ASSUME NEW x \in Int
    PROVE  Wrap(x) \in Durations /\ (x \in Durations => Wrap(x) = x)
  <1> DEFINE m == 2 * (MaxDuration + 1)
             y == x + MaxDuration + 1
  <1>1. m \in Nat \ {0} /\ y \in Int /\ MaxDuration \in Nat
    BY Constants
  <1>2. y % m \in 0..(m - 1) /\ y \div m \in Int /\ y = m * (y \div m) + (y % m)
    BY <1>1, DivMod
  <1>3. Wrap(x) = (y % m) - (MaxDuration + 1)
    BY DEF Wrap
  <1>4. Wrap(x) \in Durations
    BY <1>1, <1>2, <1>3 DEF Durations
  <1>5. x \in Durations => y \in 0..(m - 1)
    BY <1>1 DEF Durations
  <1>6. y \in 0..(m - 1) => y % m = y
    BY <1>1
  <1>7. x \in Durations => Wrap(x) = x
    BY <1>1, <1>3, <1>5, <1>6
  <1>8. QED
    BY <1>4, <1>7

\* The product of an allowed resolution and an hour does not wrap.
LEMMA HoursFit ==
    ASSUME NEW h \in Nat, h <= MaxResolutionHours
    PROVE  /\ h * Hour \in Nat /\ h * Hour <= MaxDuration
           /\ Wrap(h * Hour) = h * Hour
           /\ h > 0 => h * Hour >= Hour
  <1>1. h * Hour \in Nat /\ h * Hour <= MaxResolutionHours * Hour
    BY Constants
  <1>2. h > 0 => h * Hour >= Hour
    BY Constants
  <1>3. h * Hour \in Durations
    BY <1>1, Constants DEF Durations
  <1>4. QED
    BY <1>1, <1>2, <1>3, Wraps, Constants

LEMMA Spans ==
    ASSUME NEW a \in Int, NEW b \in Int
    PROVE  /\ Sub(a, b) \in Durations
           /\ a > b => Sub(a, b) \in 1..MaxDuration
           /\ a > b /\ a - b <= MaxDuration => Sub(a, b) = a - b
  BY Constants DEF Sub, Durations

LEMMA CountsSteps ==
    ASSUME NEW span \in Nat, NEW stp \in Nat \ {0}
    PROVE  /\ stepCount(span, stp) \in Nat
           /\ stepCount(span, stp) >= (span \div stp) + 1
           /\ stepCount(span, stp) <= (span \div stp) + 2
           /\ span % stp # 0 => stepCount(span, stp) = (span \div stp) + 2
  <1>1. span \div stp \in Int /\ 0 <= span \div stp
    BY DivMod, DivAtLeast
  <1>2. QED
    BY <1>1 DEF stepCount

\* Rounding up to whole hours.
LEMMA WholeHours ==
    ASSUME NEW a \in Nat
    PROVE  LET c == ((a + Hour - 1) \div Hour) * Hour IN
           /\ c \in Nat /\ c >= a /\ c <= a + Hour - 1
           /\ c # a \/ a = 0 \/ a >= Hour
  <1> DEFINE d == (a + Hour - 1) \div Hour
             c == d * Hour
  <1>1. Hour \in Nat \ {0} /\ a + Hour - 1 \in Nat
    BY Constants
  <1>2. /\ d \in Int /\ (a + Hour - 1) % Hour \in 0..(Hour - 1)
        /\ a + Hour - 1 = Hour * d + ((a + Hour - 1) % Hour)
    BY <1>1, DivMod
  <1>3. d >= 0
    BY <1>1, DivAtLeast
  <1> HIDE DEF d
  <1>4. c \in Nat /\ Hour * d = c /\ (d > 0 => c >= Hour) /\ (d = 0 => c = 0)
    BY <1>1, <1>2, <1>3
  <1>5. c >= a /\ c <= a + Hour - 1
    BY <1>1, <1>2, <1>4
  <1>6. c = a => a = 0 \/ a >= Hour
    BY <1>2, <1>3, <1>4
  <1>7. QED
    BY <1>4, <1>5, <1>6 DEF d

\* A step that is too fine for the cap is replaced by one that is not: "+ 2" in the
\* count stands for the start and for an end off the grid, which is why the divisor
\* is MaxTimestamps - 2.
LEMMA CoarserFits ==
    ASSUME NEW span \in 1..MaxDuration, span >= Hour
    PROVE  /\ Coarser(span) \in 1..MaxDuration
           /\ stepCount(span, Coarser(span)) <= MaxTimestamps
  <1> DEFINE m == MaxTimestamps - 2
             a == span \div m
             c == Coarser(span)
  <1>1. /\ m \in Nat \ {0} /\ m >= 2 /\ span \in Nat /\ span >= Hour /\ Hour > m
        /\ Hour \in Nat /\ MaxDuration \in Nat /\ span <= MaxDuration
        /\ MaxTimestamps \in Nat /\ m = MaxTimestamps - 2
    BY Constants
  <1> HIDE DEF m
  <1>2. a \in Int /\ span % m \in 0..(m - 1) /\ span = m * a + (span % m)
    <2>1. span \in Int /\ m \in Nat \ {0}
      BY <1>1
    <2>2. QED
      BY ONLY <2>1, DivMod
  <1>3. a >= 1
    <2>1. 1 * m <= span
      BY <1>1
    <2>2. QED
      BY <1>1, <2>1, DivAtLeast
  <1>4. /\ c \in Nat /\ c >= a /\ c <= a + Hour - 1
        /\ c # a \/ a = 0 \/ a >= Hour
    <2>1. c = ((a + Hour - 1) \div Hour) * Hour
      BY DEF Coarser, m
    <2>2. a \in Nat
      BY <1>2, <1>3
    <2> HIDE DEF a, c
    <2>3. QED
      BY <2>1, <2>2, WholeHours
  <1> HIDE DEF a, c
  <1>5. c \in 1..MaxDuration
    <2>1. 2 * a <= m * a /\ m * a <= span
      BY <1>1, <1>2, <1>3
    <2>2. 2 * Hour <= MaxDuration
      <3>1. 2 * Hour <= MaxTimestamps * Hour
        BY <1>1, Constants
      <3>2. QED
        BY <1>1, <3>1, Constants
    <2>3. 2 * a <= MaxDuration
      BY <1>1, <1>2, <2>1
    <2>4. QED
      BY <1>1, <1>2, <1>3, <1>4, <2>2, <2>3
  <1>6. c \in Nat \ {0}
    BY <1>3, <1>4, <1>5
  <1>7. ASSUME c = a PROVE stepCount(span, c) <= MaxTimestamps
    <2>1. a >= Hour
      BY <1>3, <1>4, <1>7
    <2>2. (m + 1) * a = m * a + a /\ m * a \in Int
      BY <1>1, <1>2
    <2>3. span < (m + 1) * c
      BY <1>1, <1>2, <1>7, <2>1, <2>2
    <2>4. span \div c < m + 1
      BY <1>1, <1>6, <2>3, DivBelow
    <2>5. span \div c \in Int
      BY <1>1, <1>6, DivMod
    <2>6. stepCount(span, c) \in Nat /\ stepCount(span, c) <= (span \div c) + 2
      BY <1>1, <1>6, CountsSteps
    <2>7. QED
      BY <1>1, <2>4, <2>5, <2>6
  <1>8. ASSUME c # a PROVE stepCount(span, c) <= MaxTimestamps
    <2>1. m * (a + 1) = m * a + m /\ m * a \in Int
      BY <1>1, <1>2
    <2>2. span < m * (a + 1)
      BY <1>1, <1>2, <2>1
    <2>3. m * (a + 1) <= m * c
      BY <1>1, <1>2, <1>4, <1>8
    <2>4. span < m * c
      BY <1>1, <1>2, <1>4, <2>1, <2>2, <2>3
    <2>5. span \div c < m
      BY <1>1, <1>6, <2>4, DivBelow
    <2>6. span \div c \in Int
      BY <1>1, <1>6, DivMod
    <2>7. stepCount(span, c) \in Nat /\ stepCount(span, c) <= (span \div c) + 2
      BY <1>1, <1>6, CountsSteps
    <2>8. QED
      BY <1>1, <2>5, <2>6, <2>7
  <1>9. QED
    BY <1>5, <1>7, <1>8 DEF c

\* The step expandRangeTime chooses is positive, does not wrap and fits.
LEMMA ChosenStep ==
    ASSUME TypeOK, ExpandStep
    PROVE  /\ step' \in 1..MaxDuration
           /\ stepCount(Sub(end, start), step') <= MaxTimestamps
           /\ coarsened' \in BOOLEAN
  <1> DEFINE res == IF hours > MaxResolutionHours THEN MaxResolutionHours ELSE hours
             span == Sub(end, start)
             fine == Wrap(res * Hour)
  <1>1. /\ start \in Int /\ end \in Int /\ hours \in Int /\ hours > 0 /\ end > start
        /\ step' = IF stepCount(span, fine) > MaxTimestamps THEN Coarser(span) ELSE fine
    BY DEF ExpandStep, TypeOK
  <1>2. coarsened' \in BOOLEAN
    BY DEF ExpandStep
  <1>3. res \in Nat /\ res <= MaxResolutionHours /\ res > 0
    BY <1>1, TimeAssumption
  <1> HIDE DEF res
  <1>4. fine \in Nat /\ fine <= MaxDuration /\ fine >= Hour /\ fine \in Nat \ {0}
    BY <1>3, HoursFit, Constants
  <1>5. span \in 1..MaxDuration /\ span \in Nat
    BY <1>1, Spans, Constants
  <1> HIDE DEF span, fine
  <1>6. stepCount(span, fine) > MaxTimestamps => span >= Hour
    <2>1. span < 1 * fine => span \div fine < 1
      BY <1>4, <1>5, DivBelow
    <2>2. /\ stepCount(span, fine) \in Nat
          /\ stepCount(span, fine) <= (span \div fine) + 2
      BY <1>4, <1>5, CountsSteps
    <2>3. span \div fine \in Int
      BY <1>4, <1>5, DivMod
    <2>4. QED
      BY <1>4, <1>5, <2>1, <2>2, <2>3, Constants
  <1>7. CASE stepCount(span, fine) > MaxTimestamps
    BY <1>1, <1>5, <1>6, <1>7, <1>2, CoarserFits DEF span
  <1>8. CASE ~(stepCount(span, fine) > MaxTimestamps)
    <2>1. stepCount(span, fine) \in Nat
      BY <1>4, <1>5, CountsSteps
    <2>2. step' = fine
      BY <1>1, <1>8
    <2>3. MaxTimestamps \in Nat /\ MaxDuration \in Nat
      BY Constants
    <2>4. stepCount(span, fine) <= MaxTimestamps
      BY <1>8, <2>1, <2>3
    <2>5. fine \in 1..MaxDuration
      BY <1>4, <2>3
    <2>6. QED
      BY <1>2, <2>2, <2>4, <2>5 DEF span
  <1>9. QED
    BY <1>7, <1>8

-----------------------------------------------------------------------------
(* Types. *)

\* Every way a parameter can be given: form, bounds, step and answer are typed.
LEMMA ReadyTypes ==
    ASSUME TypeOK, NEW f \in Forms, NEW s \in Int, NEW e \in Int, NEW h \in Int,
           NEW ok, NEW target \in {"expand", "step"}, NEW stp \in Durations,
           Given(f, s, e, h), Ready(ok, target, stp)
    PROVE  TypeOK'
  <1>1. 0 \in Durations
    BY Constants DEF Durations
  <1>2. QED
    BY <1>1 DEF TypeOK, Given, Ready, Durations

LEMMA ShortcutTypes ==
    ASSUME NEW sc \in Shortcuts, NEW now \in Starts
    PROVE  /\ TimeShortcut(sc, now) \in Int
           /\ RangeEntry(sc) => /\ RangeShortcut(sc, now)[1] \in Int
                                /\ RangeShortcut(sc, now)[2] \in Int
  <1>1. now \in Int /\ Midnight(now) \in Int
    BY InputAssumption, Constants, DivMod DEF Midnight
  <1>2. \A h \in Int : Wrap(h * Hour) \in Int
    BY Wraps, Constants DEF Durations
  <1>3. \A x \in Int : FormatTimeDataToRFC3339(x) \in Int
    BY Constants, DivMod DEF FormatTimeDataToRFC3339
  <1>4. sc.hours # Nil => sc.hours \in Int
    BY InputAssumption
  <1>5. sc.value # Nil => sc.value \in Int
    BY InputAssumption
  <1>6. TimeShortcut(sc, now) \in Int
    BY <1>1, <1>2, <1>3, <1>4, <1>5 DEF TimeShortcut
  <1>7. RangeEntry(sc) => /\ RangeShortcut(sc, now)[1] \in Int
                          /\ RangeShortcut(sc, now)[2] \in Int
    BY <1>1, <1>2, <1>3, <1>4 DEF RangeEntry, RangeShortcut
  <1>8. QED
    BY <1>6, <1>7

LEMMA Pairs ==
    ASSUME NEW x \in Int, NEW y \in Int
    PROVE  <<x, y>> \in Seq(Int)
  OBVIOUS

LEMMA TypeInit == Init => TypeOK
  <1> SUFFICES ASSUME Init PROVE TypeOK
    OBVIOUS
  <1>1. pc \in {"idle", "expand", "step", "walk", "done", "refused", "fallback"}
    BY DEF Init
  <1>2. form \in Forms /\ coarsened \in BOOLEAN
    BY DEF Init, Forms
  <1>3. start \in Int /\ end \in Int /\ hours \in Int /\ t \in Int
    BY DEF Init
  <1>4. step \in -MaxDuration - 1 .. MaxDuration
    BY Constants DEF Init
  <1>5. out \in Seq(Int)
    BY DEF Init
  <1>6. QED
    BY <1>1, <1>2, <1>3, <1>4, <1>5 DEF TypeOK

LEMMA ParseTypes == TypeOK /\ (ParseTime \/ Structured) => TypeOK'
  <1> SUFFICES ASSUME TypeOK, ParseTime \/ Structured PROVE TypeOK'
    OBVIOUS
  <1> USE InputAssumption
  <1>1. /\ 0 \in Durations /\ 0 \in Int
        /\ \A h \in Int : Wrap(h * Hour) \in Durations
    BY Wraps, Constants DEF Durations
  <1>2. ASSUME NEW s \in Starts, ParseSingle(s) PROVE TypeOK'
    BY <1>2 DEF ParseSingle, TypeOK, Forms
  <1>3. ASSUME NEW s \in Starts, NEW n \in 1..MaxTimestamps + 1, ParseTimeList(s, n)
        PROVE  TypeOK'
    <2>1. n \in Nat /\ s \in Int
      BY Constants
    <2>2. [i \in 1..n |-> s] \in Seq(Int)
      BY <2>1
    <2>3. QED
      BY <1>3, <2>2 DEF ParseTimeList, TypeOK, Forms
  <1>4. ASSUME NEW now \in Starts, NEW sc \in Shortcuts, ParseShortcut(sc, now) PROVE TypeOK'
    <2>1. CASE ~sc.lower
      BY <1>4, <2>1 DEF ParseShortcut, TypeOK, Forms
    <2>2. CASE sc.lower /\ ShortcutIsRange(sc)
      BY <1>4, <2>2, ShortcutTypes DEF ParseShortcut, ShortcutIsRange, TypeOK, Forms
    <2>3. CASE sc.lower /\ ~ShortcutIsRange(sc)
      <3>1. out' = <<TimeShortcut(sc, now)>>
        BY <1>4, <2>3 DEF ParseShortcut
      <3>2. out' \in Seq(Int)
        BY <3>1, ShortcutTypes
      <3>3. QED
        BY <1>4, <2>3, <3>2 DEF ParseShortcut, TypeOK, Forms
    <2>4. QED
      BY <2>1, <2>2, <2>3
  <1>5. ASSUME NEW s \in Starts, NEW e \in Ends, ParseComma(s, e) \/ ParseSlash(s, e)
        PROVE  TypeOK'
    BY <1>1, <1>5, ReadyTypes DEF ParseComma, ParseSlash, Forms
  <1>6. ASSUME NEW s \in Starts, NEW e \in Ends, NEW h \in Numbers,
              ParseCommaStep(s, e, h) \/ ParseSlashStep(s, e, h)
        PROVE  TypeOK'
    BY <1>1, <1>6, ReadyTypes DEF ParseCommaStep, ParseSlashStep, Forms
  <1>7. ASSUME NEW s \in Starts, NEW e \in Ends, NEW n \in IsoSteps, ParseSlashIso(s, e, n)
        PROVE  TypeOK'
    <2>1. n.D * Day + n.H * Hour + n.S * Second \in Int
      BY Constants
    <2>2. isoTotal(n) \in Durations
      BY <2>1, Wraps DEF isoTotal
    <2>3. QED
      BY <1>1, <1>7, <2>2, ReadyTypes DEF ParseSlashIso, Forms
  <1>8. ASSUME NEW s \in Starts, NEW e \in Ends, NEW r \in Numbers,
              UnmarshalRange(s, e, r) \/ ManualRange(s, e, r)
        PROVE  TypeOK'
    BY <1>1, <1>8, ReadyTypes DEF UnmarshalRange, ManualRange, Forms
  <1>9. QED
    BY <1>2, <1>3, <1>4, <1>5, <1>6, <1>7, <1>8 DEF ParseTime, Structured

LEMMA TypeStep == TypeOK /\ [Next]_vars => TypeOK'
  <1> SUFFICES ASSUME TypeOK, [Next]_vars PROVE TypeOK'
    OBVIOUS
  <1>1. CASE ParseTime \/ Structured
    BY <1>1, ParseTypes
  <1>2. CASE ExpandBoundaries
    BY <1>2 DEF ExpandBoundaries, TypeOK
  <1>3. CASE ExpandStep
    BY <1>3, ChosenStep, Constants DEF ExpandStep, TypeOK
  <1>4. CASE StepRefused
    <2>1. out' = <<start, end>> \/ out' = out
      BY <1>4 DEF StepRefused
    <2>2. start \in Int /\ end \in Int /\ out \in Seq(Int)
      BY DEF TypeOK
    <2>3. <<start, end>> \in Seq(Int)
      BY <2>2, Pairs
    <2>4. out' \in Seq(Int)
      BY <2>1, <2>2, <2>3
    <2>5. QED
      BY <1>4, <2>4 DEF StepRefused, TypeOK
  <1>5. CASE StepSized
    BY <1>5 DEF StepSized, TypeOK
  <1>6. CASE Walk
    <2>1. step \in Int
      BY Constants DEF TypeOK
    <2>2. QED
      BY <1>6, <2>1 DEF Walk, TypeOK
  <1>7. CASE WalkDone
    BY <1>7 DEF WalkDone, TypeOK
  <1>8. CASE Answer
    <2>1. pc' \in {"idle", "expand", "step", "walk", "done", "refused", "fallback"}
      BY <1>8 DEF Answer
    <2>2. form' \in Forms /\ coarsened' \in BOOLEAN
      BY <1>8 DEF Answer, Forms
    <2>3. start' \in Int /\ end' \in Int /\ hours' \in Int /\ t' \in Int
      BY <1>8 DEF Answer
    <2>4. step' \in -MaxDuration - 1 .. MaxDuration
      BY <1>8, Constants DEF Answer
    <2>5. out' \in Seq(Int)
      BY <1>8 DEF Answer
    <2>6. QED
      BY <2>1, <2>2, <2>3, <2>4, <2>5 DEF TypeOK
  <1>9. CASE UNCHANGED vars
    BY <1>9 DEF vars, TypeOK
  <1>10. QED
    BY <1>1, <1>2, <1>3, <1>4, <1>5, <1>6, <1>7, <1>8, <1>9 DEF Next

\* TypeOK: the pc is known, a duration is in its range, the list holds timestamps.
THEOREM TimeTypes == Spec => []TypeOK
  BY TypeInit, TypeStep, PTL DEF Spec

-----------------------------------------------------------------------------
(* The walk of stepTimestamps. *)

\* The i-th timestamp is at most the end: as many entries as whole steps, and one.
LEMMA WalkedSteps ==
    ASSUME NEW span \in Nat, NEW stp \in Nat \ {0}, NEW k \in Nat,
           (k - 1) * stp <= span
    PROVE  /\ k <= (span \div stp) + 1
           /\ k <= stepCount(span, stp)
           /\ span % stp # 0 => k + 1 <= stepCount(span, stp)
           /\ span % stp = 0 /\ k * stp > span => (k - 1) * stp = span
  <1> DEFINE d == span \div stp
  <1>1. d \in Int /\ span = stp * d + (span % stp) /\ span % stp \in 0..(stp - 1)
    BY DivMod
  <1>2. k - 1 <= d
    BY DivAtLeast
  <1>3. /\ stepCount(span, stp) \in Nat /\ stepCount(span, stp) >= d + 1
        /\ span % stp # 0 => stepCount(span, stp) = d + 2
    BY CountsSteps
  <1> HIDE DEF d
  <1>4. ASSUME span % stp = 0, k * stp > span PROVE (k - 1) * stp = span
    <2>1. span = d * stp
      BY <1>1, <1>4
    <2>2. k <= d => k * stp <= d * stp
      BY <1>1
    <2>3. d * stp \in Int /\ k * stp \in Int
      BY <1>1
    <2>4. k - 1 = d
      BY <1>1, <1>2, <1>4, <2>1, <2>2, <2>3
    <2>5. QED
      BY <2>1, <2>4
  <1>5. QED
    BY <1>1, <1>2, <1>3, <1>4 DEF d

\* A parameter that goes to stepTimestamps from the parser has a form of its own.
LEMMA ReadyWalk ==
    ASSUME WalkInv, NEW f, NEW s, NEW e, NEW h, NEW ok \in BOOLEAN,
           NEW at \in {"expand", "step"}, NEW stp,
           Given(f, s, e, h), Ready(ok, at, stp),
           at = "step" => f \in ParsedSteps /\ (ok => e > s)
    PROVE  WalkInv'
  BY DEF WalkInv, Given, Ready, ParsedSteps

LEMMA ParseWalk == TypeOK /\ WalkInv /\ (ParseTime \/ Structured) => WalkInv'
  <1> SUFFICES ASSUME TypeOK, WalkInv, ParseTime \/ Structured PROVE WalkInv'
    OBVIOUS
  <1>0. MaxTimestamps \in Nat /\ MaxTimestamps > 3
    BY Constants
  <1>1. ASSUME NEW s \in Starts, ParseSingle(s) PROVE WalkInv'
    <2>1. Len(<<s>>) = 1
      OBVIOUS
    <2>2. QED
      BY <1>0, <1>1, <2>1 DEF ParseSingle, WalkInv
  <1>2. ASSUME NEW s \in Starts, NEW n \in 1..MaxTimestamps + 1, ParseTimeList(s, n)
        PROVE  WalkInv'
    <2>1. n \in Nat /\ Len([i \in 1..n |-> s]) = n
      BY <1>0
    <2>2. CASE n > MaxTimestamps
      BY <1>2, <2>2 DEF ParseTimeList, WalkInv
    <2>3. CASE ~(n > MaxTimestamps)
      BY <1>0, <1>2, <2>1, <2>3 DEF ParseTimeList, WalkInv
    <2>4. QED
      BY <2>2, <2>3
  <1>3. ASSUME NEW now \in Starts, NEW sc \in Shortcuts, ParseShortcut(sc, now)
        PROVE  WalkInv'
    <2>1. CASE ~sc.lower
      BY <1>3, <2>1 DEF ParseShortcut, WalkInv
    <2>2. CASE sc.lower /\ ShortcutIsRange(sc)
      BY <1>3, <2>2 DEF ParseShortcut, WalkInv
    <2>3. CASE sc.lower /\ ~ShortcutIsRange(sc)
      <3>1. out' = <<TimeShortcut(sc, now)>> /\ pc' = "done"
        BY <1>3, <2>3 DEF ParseShortcut
      <3>2. Len(out') = 1
        BY <3>1
      <3>3. QED
        BY <1>0, <3>1, <3>2 DEF WalkInv
    <2>4. QED
      BY <2>1, <2>2, <2>3
  <1>4. ASSUME NEW s \in Starts, NEW e \in Ends, ParseComma(s, e) \/ ParseSlash(s, e)
        PROVE  WalkInv'
    <2>1. ASSUME ParseComma(s, e) PROVE WalkInv'
      BY <2>1, ReadyWalk DEF ParseComma
    <2>2. ASSUME ParseSlash(s, e) PROVE WalkInv'
      <3>1. (e > s) \in BOOLEAN
        BY InputAssumption
      <3>2. QED
        BY <2>2, <3>1, ReadyWalk DEF ParseSlash
    <2>3. QED
      BY <1>4, <2>1, <2>2
  <1>5. ASSUME NEW s \in Starts, NEW e \in Ends, NEW h \in Numbers,
              ParseCommaStep(s, e, h) \/ ParseSlashStep(s, e, h)
        PROVE  WalkInv'
    BY <1>5, ReadyWalk DEF ParseCommaStep, ParseSlashStep, ParsedSteps
  <1>6. ASSUME NEW s \in Starts, NEW e \in Ends, NEW n \in IsoSteps, ParseSlashIso(s, e, n)
        PROVE  WalkInv'
    BY <1>6, ReadyWalk DEF ParseSlashIso, ParsedSteps
  <1>7. ASSUME NEW s \in Starts, NEW e \in Ends, NEW r \in Numbers,
              UnmarshalRange(s, e, r) \/ ManualRange(s, e, r)
        PROVE  WalkInv'
    <2>1. decodes(s, e, r) \in BOOLEAN
      BY DEF decodes
    <2>2. QED
      BY <1>7, <2>1, ReadyWalk DEF UnmarshalRange, ManualRange
  <1>8. QED
    BY <1>1, <1>2, <1>3, <1>4, <1>5, <1>6, <1>7 DEF ParseTime, Structured

\* One more entry, one more step.
LEMMA WalkStep == TypeOK /\ WalkInv /\ Walk => WalkInv'
  <1> SUFFICES ASSUME TypeOK, WalkInv, Walk PROVE WalkInv'
    OBVIOUS
  <1> DEFINE k == Len(out)
  <1>1. /\ pc = "walk" /\ pc' = "walk" /\ t <= end
        /\ out' = Append(out, t) /\ t' = t + step
        /\ start' = start /\ end' = end /\ step' = step /\ form' = form
    BY DEF Walk
  <1>2. /\ end > start /\ Fits /\ t = start + k * step
        /\ \A i \in 1..k : out[i] = start + (i - 1) * step
    BY <1>1 DEF WalkInv
  <1>3. /\ start \in Int /\ end \in Int /\ step \in Int /\ t \in Int
        /\ out \in Seq(Int) /\ k \in Nat
    BY Constants DEF TypeOK
  <1>4. /\ Len(out') = k + 1
        /\ \A i \in 1..k : out'[i] = out[i]
        /\ out'[k + 1] = t
    BY <1>1, <1>3
  <1> HIDE DEF k
  <1>5. t' = start + (k + 1) * step /\ t' <= end + step
    BY <1>1, <1>2, <1>3
  <1>6. \A i \in 1..(k + 1) : out'[i] = start + (i - 1) * step
    <2>1. TAKE i \in 1..(k + 1)
    <2>2. CASE i \in 1..k
      BY <1>2, <1>4, <2>2
    <2>3. CASE i = k + 1
      BY <1>2, <1>3, <1>4, <2>3
    <2>4. QED
      BY <1>3, <2>2, <2>3
  <1>7. Fits'
    BY <1>1, <1>2 DEF Fits
  <1>8. QED
    BY <1>1, <1>2, <1>4, <1>5, <1>6, <1>7 DEF WalkInv

\* The end is appended only where the walk has not hit it, and then it was counted.
LEMMA WalkEnds == TypeOK /\ WalkInv /\ WalkDone => WalkInv'
  <1> SUFFICES ASSUME TypeOK, WalkInv, WalkDone PROVE WalkInv'
    OBVIOUS
  <1> DEFINE k == Len(out)
             span == end - start
  <1>1. /\ pc = "walk" /\ pc' = "done" /\ t > end
        /\ out' = IF out = <<>> \/ Last(out) # end THEN Append(out, end) ELSE out
        /\ start' = start /\ end' = end
    BY DEF WalkDone
  <1>2. /\ end > start /\ Fits /\ t = start + k * step /\ t <= end + step
        /\ \A i \in 1..k : out[i] = start + (i - 1) * step
    BY <1>1 DEF WalkInv
  <1>3. /\ start \in Int /\ end \in Int /\ step \in Int /\ t \in Int
        /\ out \in Seq(Int) /\ k \in Nat
    BY Constants DEF TypeOK
  <1>4. step \in Nat \ {0} /\ span \in Nat
    BY <1>2, <1>3 DEF Fits
  <1>5. (k - 1) * step <= span /\ k * step > span
    <2>1. (k - 1) * step = k * step - step /\ k * step \in Int
      BY <1>3
    <2>2. QED
      BY <1>1, <1>2, <1>3, <2>1
  <1>6. /\ k <= stepCount(span, step)
        /\ span % step # 0 => k + 1 <= stepCount(span, step)
        /\ span % step = 0 => (k - 1) * step = span
        /\ stepCount(span, step) \in Nat
    <2> HIDE DEF k, span
    <2>1. QED
      BY <1>3, <1>4, <1>5, WalkedSteps, CountsSteps
  <1>7. span % step = 0 => out # <<>> /\ Last(out) = end
    <2> SUFFICES ASSUME span % step = 0 PROVE out # <<>> /\ Last(out) = end
      OBVIOUS
    <2>1. k # 0
      BY <1>4, <1>5
    <2>2. out[k] = start + (k - 1) * step
      BY <1>2, <1>3, <2>1
    <2>3. out[k] = end
      BY <1>3, <1>6, <2>2
    <2>4. QED
      BY <2>1, <2>3 DEF Last
  <1>8. ASSUME SpanFits PROVE Len(out') <= MaxTimestamps
    <2>1. stepCount(span, step) <= MaxTimestamps
      BY <1>2, <1>3, <1>8, Spans DEF SpanFits, Fits
    <2>2. Len(out') = k \/ Len(out') = k + 1
      BY <1>1, <1>3
    <2>3. span % step = 0 => Len(out') = k
      BY <1>1, <1>7
    <2> HIDE DEF k, span
    <2>4. QED
      BY <1>3, <1>6, <2>1, <2>2, <2>3, Constants
  <1>9. SpanFits' => SpanFits
    BY <1>1 DEF SpanFits
  <1>10. QED
    BY <1>1, <1>8, <1>9 DEF WalkInv

LEMMA WalkInvStep == TypeOK /\ WalkInv /\ [Next]_vars => WalkInv'
  <1> SUFFICES ASSUME TypeOK, WalkInv, [Next]_vars PROVE WalkInv'
    OBVIOUS
  <1>1. CASE ParseTime \/ Structured
    BY <1>1, ParseWalk
  <1>2. CASE ExpandBoundaries
    <2>1. pc' = "done" /\ (out' = <<start>> \/ out' = <<start, end>>)
      BY <1>2 DEF ExpandBoundaries
    <2>2. Len(out') \in 1..2
      <3>1. out' = <<start>> => Len(out') = 1
        OBVIOUS
      <3>2. out' = <<start, end>> => Len(out') = 2
        OBVIOUS
      <3>3. QED
        BY <2>1, <3>1, <3>2
    <2>3. \A n \in 1..2 : n <= MaxTimestamps
      BY Constants
    <2>4. Len(out') <= MaxTimestamps
      BY <2>2, <2>3
    <2>5. QED
      BY <2>1, <2>4 DEF WalkInv
  <1>3. CASE ExpandStep
    <2>1. /\ pc = "expand" /\ pc' = "step" /\ end > start
          /\ start' = start /\ end' = end /\ out' = out
      BY <1>3 DEF ExpandStep
    <2>2. step' > 0
      BY <1>3, ChosenStep, Constants
    <2>3. Fits'
      BY <1>3, <2>1, <2>2, ChosenStep DEF Fits
    <2>4. QED
      BY <2>1, <2>3 DEF WalkInv
  <1>4. CASE StepRefused
    BY <1>4 DEF StepRefused, WalkInv
  <1>5. CASE StepSized
    <2>1. /\ pc = "step" /\ pc' = "walk" /\ Fits /\ t' = start /\ out' = <<>>
          /\ start' = start /\ end' = end /\ step' = step
      BY <1>5 DEF StepSized
    <2>2. Fits' /\ step > 0
      BY <2>1 DEF Fits
    <2>3. start \in Int /\ end \in Int /\ step \in Int /\ end > start
      BY <2>1, Constants DEF TypeOK, WalkInv
    <2>4. Len(out') = 0 /\ t' = start + 0 * step /\ t' <= end + step
      BY <2>1, <2>2, <2>3
    <2>5. QED
      BY <2>1, <2>2, <2>3, <2>4 DEF WalkInv
  <1>6. CASE Walk
    BY <1>6, WalkStep
  <1>7. CASE WalkDone
    BY <1>7, WalkEnds
  <1>8. CASE Answer
    BY <1>8 DEF Answer, WalkInv
  <1>9. CASE UNCHANGED vars
    BY <1>9 DEF vars, WalkInv, Fits, SpanFits
  <1>10. QED
    BY <1>1, <1>2, <1>3, <1>4, <1>5, <1>6, <1>7, <1>8, <1>9 DEF Next

LEMMA WalkInvariant == Spec => [](TypeOK /\ WalkInv)
  <1>1. Init => TypeOK /\ WalkInv
    BY TypeInit DEF Init, WalkInv
  <1>2. TypeOK /\ WalkInv /\ [Next]_vars => (TypeOK /\ WalkInv)'
    BY TypeStep, WalkInvStep
  <1>3. QED
    BY <1>1, <1>2, PTL DEF Spec

\* CappedExpansion: a list never outgrows MaxTimestamps, at no point of the walk, and
\* the fallback of expandRangeTime is never taken.
THEOREM ExpansionsAreCapped == Spec => []CappedExpansion
  <1>1. TypeOK /\ WalkInv => CappedExpansion
    <2> SUFFICES ASSUME TypeOK, WalkInv, SpanFits PROVE Len(out) <= MaxTimestamps
      BY DEF CappedExpansion, WalkInv
    <2>1. CASE pc \in {"idle", "expand", "step", "refused"}
      <3>1. Len(out) = 0
        BY <2>1 DEF WalkInv
      <3>2. QED
        BY <3>1, Constants
    <2>2. CASE pc = "done"
      BY <2>2 DEF WalkInv
    <2>3. CASE pc = "walk"
      <3> DEFINE k == Len(out)
                 span == end - start
      <3>1. /\ end > start /\ Fits /\ t = start + k * step /\ t <= end + step
        BY <2>3 DEF WalkInv
      <3>2. /\ start \in Int /\ end \in Int /\ step \in Int /\ k \in Nat
        BY Constants DEF TypeOK
      <3>3. step \in Nat \ {0} /\ span \in Nat
        BY <3>1, <3>2 DEF Fits
      <3>4. (k - 1) * step <= span
        <4>1. (k - 1) * step = k * step - step /\ k * step \in Int
          BY <3>2
        <4>2. QED
          BY <3>1, <3>2, <4>1
      <3>5. stepCount(span, step) <= MaxTimestamps
        BY <3>1, <3>2, Spans DEF SpanFits, Fits
      <3> HIDE DEF k, span
      <3>6. k <= stepCount(span, step) /\ stepCount(span, step) \in Nat
        BY <3>2, <3>3, <3>4, WalkedSteps, CountsSteps
      <3>7. QED
        BY <3>2, <3>5, <3>6, Constants DEF k
    <2>4. QED
      BY <2>1, <2>2, <2>3 DEF TypeOK, WalkInv
  <1>2. QED
    BY <1>1, WalkInvariant, PTL

-----------------------------------------------------------------------------
(* Shortcuts. *)

\* Whole days and whole hours survive the trip through RFC3339, which drops what
\* is less than a second.
LEMMA WholeSeconds ==
    ASSUME NEW k \in Int
    PROVE  FormatTimeDataToRFC3339(k * Hour) = k * Hour
  <1> DEFINE e == Hour \div Second
  <1>1. Second \in Nat \ {0} /\ Hour \in Nat /\ Hour % Second = 0
    BY Constants, TimeAssumption
  <1>2. e \in Int /\ Hour = Second * e
    BY <1>1, DivMod
  <1> HIDE DEF e
  <1>3. k * Hour = (k * e) * Second /\ k * e \in Int
    BY <1>1, <1>2
  <1>4. ((k * e) * Second) % Second = 0
    BY <1>1, <1>3, ModMultiple
  <1>5. (k * Hour) % Second = 0 /\ k * Hour \in Int
    BY <1>1, <1>3, <1>4
  <1> QED
    BY <1>5 DEF FormatTimeDataToRFC3339

LEMMA Midnights ==
    ASSUME NEW now \in Int, NEW h \in Nat, h <= MaxResolutionHours
    PROVE  LET m == Midnight(now) IN
           /\ m \in Int /\ m % Day = 0
           /\ FormatTimeDataToRFC3339(m) = m
           /\ FormatTimeDataToRFC3339(m + Wrap(h * Hour)) = m + h * Hour
  <1> DEFINE m == Midnight(now)
             d == now \div Day
             n == Day \div Hour
  <1>1. /\ Day \in Nat \ {0} /\ Hour \in Nat \ {0} /\ Day % Hour = 0
        /\ Wrap(h * Hour) = h * Hour /\ h * Hour \in Nat
    BY Constants, TimeAssumption, HoursFit
  <1>2. d \in Int /\ m = d * Day
    BY <1>1, DivMod DEF Midnight
  <1>3. n \in Int /\ Day = Hour * n
    BY <1>1, DivMod
  <1> HIDE DEF d, n, m
  <1>4. m \in Int /\ m % Day = 0
    BY <1>1, <1>2, ModMultiple
  <1>5. d * n \in Int /\ m = (d * n) * Hour
    BY <1>1, <1>2, <1>3
  <1>6. d * n + h \in Int /\ m + h * Hour = (d * n + h) * Hour
    BY <1>1, <1>5
  <1>7. FormatTimeDataToRFC3339(m) = m
    BY <1>5, WholeSeconds
  <1>8. FormatTimeDataToRFC3339(m + h * Hour) = m + h * Hour
    BY <1>6, WholeSeconds
  <1>9. QED
    BY <1>1, <1>4, <1>7, <1>8 DEF m

\* Where no shortcut was named there is nothing to show.
LEMMA NoShortcut == asked' = Nil => ShortcutInv'
  BY DEF ShortcutInv, RangeAsked, OffsetAsked

\* The lookup: range shortcuts first, the others as a single timestamp.
LEMMA LookupShortcut ==
    ASSUME NEW now \in Starts, NEW sc \in Shortcuts, ParseShortcut(sc, now)
    PROVE  ShortcutInv'
  <1>1. asked' = sc /\ sc # Nil /\ sc.lower \in BOOLEAN /\ now \in Int
    BY InputAssumption DEF ParseShortcut
  <1>2. CASE ~sc.lower
    <2>1. pc' = "refused"
      BY <1>2 DEF ParseShortcut
    <2>2. QED
      BY <1>1, <1>2, <2>1 DEF ShortcutInv, RangeAsked, OffsetAsked
  <1>3. CASE sc.lower /\ ShortcutIsRange(sc)
    <2>1. /\ sc.type = "range_offset" /\ pc' = "expand" /\ form' = "shortcut"
          /\ hours' = 1
          /\ start' = RangeShortcut(sc, now)[1] /\ end' = RangeShortcut(sc, now)[2]
      BY <1>3 DEF ParseShortcut, ShortcutIsRange, RangeEntry
    <2>2. ASSUME RangeAsked' PROVE start' % Day = 0 /\ end' = start' + sc.hours * Hour
      <3>1. sc.hours \in Nat /\ sc.hours <= MaxResolutionHours
        BY <1>1, <2>2, Constants DEF RangeAsked
      <3>2. QED
        BY <1>1, <2>1, <3>1, Midnights DEF RangeShortcut
    <2>3. ~OffsetAsked'
      BY <1>1, <2>1 DEF OffsetAsked
    <2>4. QED
      BY <1>1, <1>3, <2>1, <2>2, <2>3 DEF ShortcutInv
  <1>4. CASE sc.lower /\ ~ShortcutIsRange(sc)
    <2>1. pc' = "done" /\ out' = <<TimeShortcut(sc, now)>>
      BY <1>4 DEF ParseShortcut
    <2>2. ~RangeAsked'
      <3> SUFFICES ASSUME RangeAsked' PROVE FALSE
        OBVIOUS
      <3>1. sc.type = "range_offset" /\ sc.hours \in 1..MaxResolutionHours
        BY <1>1 DEF RangeAsked
      <3>2. sc.hours \in Int /\ sc.hours > 0
        BY <3>1, Constants
      <3>3. sc.hours # Nil
        BY <3>2, InputAssumption
      <3>4. QED
        BY <1>4, <3>1, <3>2, <3>3 DEF ShortcutIsRange, RangeEntry
    <2>3. ASSUME OffsetAsked'
          PROVE  Len(out') = 1 /\ (out'[1] - sc.hours * Hour) % Day = 0
      <3>1. /\ sc.type = "offset" /\ sc.hours \in Nat
            /\ sc.hours <= MaxResolutionHours
        BY <1>1, <2>3, Constants DEF OffsetAsked
      <3>2. sc.hours # Nil
        BY <3>1, InputAssumption
      <3>3. TimeShortcut(sc, now)
              = FormatTimeDataToRFC3339(Midnight(now) + Wrap(sc.hours * Hour))
        BY <3>1, <3>2 DEF TimeShortcut
      <3>4. /\ Midnight(now) \in Int /\ Midnight(now) % Day = 0
            /\ TimeShortcut(sc, now) = Midnight(now) + sc.hours * Hour
        BY <1>1, <3>1, <3>3, Midnights
      <3>5. sc.hours * Hour \in Int
        BY <3>1, Constants
      <3>6. TimeShortcut(sc, now) - sc.hours * Hour = Midnight(now)
        BY <3>4, <3>5
      <3>7. Len(out') = 1 /\ out'[1] = TimeShortcut(sc, now)
        BY <2>1
      <3>8. QED
        BY <3>4, <3>6, <3>7
    <2>4. QED
      BY <1>1, <1>4, <2>1, <2>2, <2>3 DEF ShortcutInv
  <1>5. QED
    BY <1>1, <1>2, <1>3, <1>4

LEMMA ParseShortcuts == ShortcutInv /\ (ParseTime \/ Structured) => ShortcutInv'
  <1> SUFFICES ASSUME ShortcutInv, ParseTime \/ Structured PROVE ShortcutInv'
    OBVIOUS
  <1>1. asked = Nil
    BY DEF ShortcutInv, ParseTime, Structured
  <1>2. asked' = asked
          \/ \E now \in Starts, sc \in Shortcuts : ParseShortcut(sc, now)
    BY DEF ParseTime, Structured, ParseSingle, ParseTimeList, ParseComma, ParseSlash,
           ParseCommaStep, ParseSlashStep, ParseSlashIso, UnmarshalRange, ManualRange,
           Ready
  <1>3. QED
    BY <1>1, <1>2, NoShortcut, LookupShortcut

\* The walk over a range shortcut begins at its midnight and ends at its last hour.
LEMMA WalkedShortcut == TypeOK /\ WalkInv /\ ShortcutInv /\ WalkDone => ShortcutInv'
  <1> SUFFICES ASSUME TypeOK, WalkInv, ShortcutInv, WalkDone PROVE ShortcutInv'
    OBVIOUS
  <1>1. /\ pc = "walk" /\ pc' = "done" /\ t > end /\ asked' = asked
        /\ out' = IF out = <<>> \/ Last(out) # end THEN Append(out, end) ELSE out
        /\ start' = start /\ end' = end
    BY DEF WalkDone
  <1>2. /\ end > start /\ t = start + Len(out) * step
        /\ \A i \in 1..Len(out) : out[i] = start + (i - 1) * step
    BY <1>1 DEF WalkInv
  <1>3. /\ start \in Int /\ end \in Int /\ step \in Int /\ t \in Int
        /\ out \in Seq(Int) /\ Len(out) \in Nat
    BY Constants DEF TypeOK
  <1>4. Len(out) # 0
    <2> SUFFICES ASSUME Len(out) = 0 PROVE FALSE
      OBVIOUS
    <2>1. t = start + 0 * step
      BY <1>2
    <2>2. t = start
      BY <1>3, <2>1
    <2>3. QED
      BY <1>1, <1>2, <1>3, <2>2
  <1>5. out # <<>> /\ Head(out) = start
    <2>1. out[1] = start + (1 - 1) * step
      BY <1>2, <1>3, <1>4
    <2>2. out[1] = start
      BY <1>3, <2>1
    <2>3. QED
      BY <1>3, <1>4, <2>2
  <1>6. Head(out') = start /\ Last(out') = end
    <2>1. CASE Last(out) # end
      <3>1. out' = Append(out, end)
        BY <1>1, <2>1
      <3>2. Len(out') = Len(out) + 1 /\ out'[Len(out) + 1] = end /\ out'[1] = out[1]
        BY <1>3, <1>4, <3>1
      <3>3. Head(out') = out'[1] /\ Head(out) = out[1]
        BY <1>3, <1>4, <3>1
      <3>4. QED
        BY <1>5, <3>2, <3>3 DEF Last
    <2>2. CASE Last(out) = end
      BY <1>1, <1>5, <2>2
    <2>3. QED
      BY <2>1, <2>2
  <1>7. QED
    BY <1>1, <1>6 DEF ShortcutInv, RangeAsked, OffsetAsked

\* A range of at least one hour is never taken for one that needs no steps.
LEMMA SteppedShortcut == TypeOK /\ ShortcutInv /\ ExpandBoundaries => ShortcutInv'
  <1> SUFFICES ASSUME TypeOK, ShortcutInv, ExpandBoundaries PROVE ShortcutInv'
    OBVIOUS
  <1>1. /\ end <= start \/ hours <= 0
        /\ pc = "expand" /\ pc' = "done" /\ asked' = asked
    BY DEF ExpandBoundaries
  <1>2. ~RangeAsked
    <2> SUFFICES ASSUME RangeAsked PROVE FALSE
      OBVIOUS
    <2>1. end = start + asked.hours * Hour /\ hours = 1
      BY <1>1 DEF ShortcutInv
    <2>2. asked.hours \in Nat /\ asked.hours <= MaxResolutionHours /\ asked.hours > 0
      BY Constants DEF RangeAsked
    <2>3. asked.hours * Hour \in Nat /\ asked.hours * Hour >= Hour /\ Hour > 0
      BY <2>2, HoursFit, Constants
    <2>4. QED
      BY <1>1, <2>1, <2>3, Constants DEF TypeOK
  <1>3. QED
    BY <1>1, <1>2 DEF ShortcutInv, RangeAsked, OffsetAsked

LEMMA ShortcutStep == TypeOK /\ WalkInv /\ ShortcutInv /\ [Next]_vars => ShortcutInv'
  <1> SUFFICES ASSUME TypeOK, WalkInv, ShortcutInv, [Next]_vars PROVE ShortcutInv'
    OBVIOUS
  <1>1. CASE ParseTime \/ Structured
    BY <1>1, ParseShortcuts
  <1>2. CASE ExpandBoundaries
    BY <1>2, SteppedShortcut
  <1>3. CASE ExpandStep
    BY <1>3 DEF ExpandStep, ShortcutInv, RangeAsked, OffsetAsked
  <1>4. CASE StepRefused
    <2>1. /\ form \in ParsedSteps /\ pc = "step" /\ asked' = asked
      BY <1>4 DEF StepRefused, WalkInv
    <2>2. asked = Nil
      BY <2>1 DEF ShortcutInv, ParsedSteps
    <2>3. QED
      BY <2>1, <2>2, NoShortcut
  <1>5. CASE StepSized
    BY <1>5 DEF StepSized, ShortcutInv, RangeAsked, OffsetAsked
  <1>6. CASE Walk
    BY <1>6 DEF Walk, ShortcutInv, RangeAsked, OffsetAsked
  <1>7. CASE WalkDone
    BY <1>7, WalkedShortcut
  <1>8. CASE Answer
    BY <1>8, NoShortcut DEF Answer
  <1>9. CASE UNCHANGED vars
    BY <1>9 DEF vars, ShortcutInv, RangeAsked, OffsetAsked
  <1>10. QED
    BY <1>1, <1>2, <1>3, <1>4, <1>5, <1>6, <1>7, <1>8, <1>9 DEF Next

-----------------------------------------------------------------------------
(* Hours. *)

LEMMA AllowedHours ==
    ASSUME NEW h \in 1..MaxResolutionHours
    PROVE  /\ h \in Nat \ {0} /\ h > 0 /\ h <= MaxResolutionHours
           /\ h * Hour \in Nat \ {0} /\ Wrap(h * Hour) = h * Hour
  <1>1. h \in Nat /\ h > 0 /\ h <= MaxResolutionHours
    BY Constants
  <1>2. h * Hour \in Nat /\ h * Hour >= Hour /\ Wrap(h * Hour) = h * Hour
    BY <1>1, HoursFit
  <1>3. h * Hour \in Nat \ {0}
    BY <1>2, Constants
  <1>4. QED
    BY <1>1, <1>2, <1>3

LEMMA AskedHours ==
    ASSUME HoursAsked
    PROVE  /\ hours \in Nat \ {0} /\ hours > 0 /\ hours <= MaxResolutionHours
           /\ hours * Hour \in Nat \ {0} /\ Wrap(hours * Hour) = hours * Hour
  <1>1. hours \in 1..MaxResolutionHours
    BY DEF HoursAsked
  <1>2. QED
    BY <1>1, AllowedHours

LEMMA AskedHoursNext ==
    ASSUME HoursAsked'
    PROVE  /\ hours' \in Nat \ {0} /\ hours' > 0 /\ hours' <= MaxResolutionHours
           /\ hours' * Hour \in Nat \ {0} /\ Wrap(hours' * Hour) = hours' * Hour
  <1>1. hours' \in 1..MaxResolutionHours
    BY DEF HoursAsked
  <1>2. QED
    BY <1>1, AllowedHours

\* What the parser accepts: no step without hours, and a resolution that fits.
LEMMA ParseGrid == GridInv /\ (ParseTime \/ Structured) => GridInv'
  <1> SUFFICES ASSUME GridInv, ParseTime \/ Structured PROVE GridInv'
    OBVIOUS
  <1>1. ASSUME NEW s \in Starts, ParseSingle(s) PROVE GridInv'
    BY <1>1 DEF ParseSingle, GridInv, HoursAsked
  <1>2. ASSUME NEW s \in Starts, NEW n \in 1..MaxTimestamps + 1, ParseTimeList(s, n)
        PROVE  GridInv'
    BY <1>2 DEF ParseTimeList, GridInv, HoursAsked
  <1>3. ASSUME NEW now \in Starts, NEW sc \in Shortcuts, ParseShortcut(sc, now)
        PROVE  GridInv'
    BY <1>3 DEF ParseShortcut, GridInv, HoursAsked
  <1>4. ASSUME NEW s \in Starts, NEW e \in Ends, ParseComma(s, e) \/ ParseSlash(s, e)
        PROVE  GridInv'
    <2>1. /\ form' \in {"comma", "slash"} /\ hours' = 0
          /\ pc' \in {"expand", "refused"}
      BY <1>4 DEF ParseComma, ParseSlash, Given, Ready
    <2>2. QED
      BY <2>1 DEF GridInv
  <1>5. ASSUME NEW s \in Starts, NEW e \in Ends, NEW h \in Numbers,
              ParseCommaStep(s, e, h) \/ ParseSlashStep(s, e, h)
        PROVE  GridInv'
    <2>1. /\ hours' = h /\ pc' \in {"step", "refused"}
          /\ pc' = "step" => step' = Wrap(h * Hour)
      BY <1>5 DEF ParseCommaStep, ParseSlashStep, Given, Ready
    <2>2. HoursAsked' => Wrap(h * Hour) = hours' * Hour
      BY <2>1, AskedHoursNext
    <2>3. QED
      BY <2>1, <2>2 DEF GridInv
  <1>6. ASSUME NEW s \in Starts, NEW e \in Ends, NEW n \in IsoSteps, ParseSlashIso(s, e, n)
        PROVE  GridInv'
    <2>1. form' = "iso" /\ pc' \in {"step", "refused"}
      BY <1>6 DEF ParseSlashIso, Given, Ready
    <2>2. QED
      BY <2>1 DEF GridInv, HoursAsked
  <1>7. ASSUME NEW s \in Starts, NEW e \in Ends, NEW r \in Numbers, UnmarshalRange(s, e, r)
        PROVE  GridInv'
    <2>1. /\ form' = "json" /\ start' = s /\ end' = e /\ hours' = r
          /\ pc' \in {"expand", "refused"} /\ (pc' = "expand" => decodes(s, e, r))
      BY <1>7 DEF UnmarshalRange, Given, Ready
    <2>2. ASSUME pc' = "expand", HoursAsked'
          PROVE  stepCount(Sub(end', start'), hours' * Hour) <= MaxTimestamps
      <3>1. r > 0 /\ e > s
        BY <2>1, <2>2, AskedHoursNext DEF HoursAsked
      <3>2. stepCount(Sub(e, s), Wrap(r * Hour)) <= MaxTimestamps
        BY <2>1, <2>2, <3>1 DEF decodes
      <3>3. Wrap(r * Hour) = r * Hour
        BY <2>1, <2>2, AskedHoursNext
      <3>4. QED
        BY <2>1, <3>2, <3>3
    <2>3. QED
      BY <2>1, <2>2 DEF GridInv
  <1>8. ASSUME NEW s \in Starts, NEW e \in Ends, NEW r \in Numbers, ManualRange(s, e, r)
        PROVE  GridInv'
    <2>1. form' = "manual" /\ pc' = "expand"
      BY <1>8 DEF ManualRange, Given, Ready
    <2>2. QED
      BY <2>1 DEF GridInv, HoursAsked
  <1>9. QED
    BY <1>1, <1>2, <1>3, <1>4, <1>5, <1>6, <1>7, <1>8 DEF ParseTime, Structured

\* expandRangeTime keeps the hours it was given, unless it says otherwise.
LEMMA ExpandGrid == TypeOK /\ GridInv /\ ExpandStep => GridInv'
  <1> SUFFICES ASSUME TypeOK, GridInv, ExpandStep PROVE GridInv'
    OBVIOUS
  <1> DEFINE res == IF hours > MaxResolutionHours THEN MaxResolutionHours ELSE hours
             fine == Wrap(res * Hour)
  <1>1. /\ pc = "expand" /\ pc' = "step"
        /\ form' = form /\ hours' = hours /\ start' = start /\ end' = end
        /\ end > start /\ hours > 0
        /\ coarsened' = (stepCount(Sub(end, start), fine) > MaxTimestamps)
        /\ step' = IF stepCount(Sub(end, start), fine) > MaxTimestamps
                   THEN Coarser(Sub(end, start)) ELSE fine
    BY DEF ExpandStep
  <1>2. ASSUME HoursAsked' PROVE step' = hours' * Hour
    <2>1. /\ hours \in Nat \ {0} /\ hours <= MaxResolutionHours
          /\ hours * Hour \in Nat \ {0} /\ Wrap(hours * Hour) = hours * Hour
      BY <1>1, <1>2, AskedHoursNext
    <2>2. fine = hours * Hour
      BY <2>1, Constants
    <2>3. form \in {"json", "shortcut"}
      BY <1>1, <1>2, <2>1 DEF GridInv, HoursAsked
    <2>4. CASE form = "json"
      <3>1. HoursAsked
        BY <1>1, <1>2, <2>4 DEF HoursAsked
      <3>2. stepCount(Sub(end, start), fine) <= MaxTimestamps
        BY <1>1, <2>2, <2>4, <3>1 DEF GridInv
      <3>3. Sub(end, start) \in Nat
        BY <1>1, Spans, Constants DEF TypeOK
      <3> HIDE DEF fine
      <3>4. stepCount(Sub(end, start), fine) \in Nat
        BY <2>1, <2>2, <3>3, CountsSteps
      <3>5. ~(stepCount(Sub(end, start), fine) > MaxTimestamps)
        BY <3>2, <3>4, Constants
      <3>6. QED
        BY <1>1, <2>2, <3>5
    <2>5. CASE form = "shortcut"
      <3>1. ~coarsened'
        BY <1>1, <1>2, <2>5 DEF HoursAsked
      <3>2. QED
        BY <1>1, <2>2, <3>1
    <2>6. QED
      BY <2>3, <2>4, <2>5
  <1>3. QED
    BY <1>1, <1>2 DEF GridInv

\* The walk of a whole number of hours, with its end, is the grid.
LEMMA WalkedGrid == TypeOK /\ WalkInv /\ GridInv /\ WalkDone => GridInv'
  <1> SUFFICES ASSUME TypeOK, WalkInv, GridInv, WalkDone PROVE GridInv'
    OBVIOUS
  <1> DEFINE k == Len(out)
             span == end - start
             n == span \div step
  <1>1. /\ pc = "walk" /\ pc' = "done" /\ t > end
        /\ out' = IF out = <<>> \/ Last(out) # end THEN Append(out, end) ELSE out
        /\ form' = form /\ hours' = hours /\ start' = start /\ end' = end
        /\ coarsened' = coarsened
    BY DEF WalkDone
  <1> SUFFICES ASSUME HoursAsked PROVE out' = Grid(hours)'
    BY <1>1 DEF GridInv, HoursAsked
  <1>2. /\ end > start /\ Fits /\ t = start + k * step /\ t <= end + step
        /\ \A i \in 1..k : out[i] = start + (i - 1) * step
    BY <1>1 DEF WalkInv
  <1>3. step = hours * Hour /\ step \in Nat \ {0}
    BY <1>1, AskedHours DEF GridInv
  <1>4. /\ start \in Int /\ end \in Int /\ t \in Int
        /\ out \in Seq(Int) /\ k \in Nat /\ span \in Nat
    BY <1>2 DEF TypeOK
  <1>5. (k - 1) * step <= span /\ k * step > span
    <2>1. step \in Nat
      BY <1>3
    <2>2. (k - 1) * step = k * step - step /\ k * step \in Int
      BY <1>4, <2>1
    <2>3. QED
      BY <1>1, <1>2, <1>4, <2>1, <2>2
  <1>6. n \in Int /\ k = n + 1 /\ n * step + (span % step) = span /\ span % step \in Int
    <2>0. span \in Int /\ step \in Nat \ {0} /\ k \in Int /\ k - 1 \in Int
      BY <1>3, <1>4
    <2> HIDE DEF span, k
    <2>1. n \in Int /\ span = step * n + (span % step) /\ span % step \in Int
      BY <2>0, DivMod
    <2>2. k - 1 <= n
      BY <2>0, <1>5, DivAtLeast
    <2>3. n < k
      BY <2>0, <1>5, DivBelow
    <2> HIDE DEF n
    <2>4. QED
      BY <1>3, <1>4, <2>1, <2>2, <2>3
  <1> HIDE DEF n
  <1>7. k \in 1..k /\ out[k] = start + n * step /\ out # <<>> /\ Last(out) = out[k]
    <2>1. k > 0
      <3>1. n >= 0
        BY <1>3, <1>4, DivAtLeast DEF n
      <3>2. QED
        BY <1>6, <3>1
    <2>2. QED
      BY <1>2, <1>4, <1>6, <2>1 DEF Last
  <1>8. Last(out) = end <=> span % step = 0
    <2>1. n * step \in Int
      BY <1>3, <1>6
    <2>2. QED
      BY <1>4, <1>6, <1>7, <2>1
  <1>9. out = [i \in 1..(n + 1) |-> start + (i - 1) * step]
    <2>1. out \in [1..k -> Int]
      BY <1>4
    <2> HIDE DEF k
    <2>2. out = [i \in 1..k |-> out[i]]
      BY <2>1
    <2>3. QED
      BY <1>2, <1>6, <2>2
  <1>10. Grid(hours)' = IF span % step = 0 THEN out ELSE Append(out, end)
    <2>1. Grid(hours)' = Grid(hours)
      BY <1>1 DEF Grid
    <2>2. QED
      BY <1>3, <1>9, <2>1 DEF Grid, n
  <1>11. QED
    BY <1>1, <1>7, <1>8, <1>10

LEMMA GridStep == TypeOK /\ WalkInv /\ GridInv /\ [Next]_vars => GridInv'
  <1> SUFFICES ASSUME TypeOK, WalkInv, GridInv, [Next]_vars PROVE GridInv'
    OBVIOUS
  <1>1. CASE ParseTime \/ Structured
    BY <1>1, ParseGrid
  <1>2. CASE ExpandBoundaries
    <2>1. /\ pc' = "done" /\ hours' = hours /\ start' = start /\ end' = end
          /\ end <= start \/ hours <= 0
      BY <1>2 DEF ExpandBoundaries
    <2>2. ~HoursAsked'
      BY <2>1, AskedHoursNext DEF HoursAsked, TypeOK
    <2>3. QED
      BY <2>1, <2>2 DEF GridInv
  <1>3. CASE ExpandStep
    BY <1>3, ExpandGrid
  <1>4. CASE StepRefused
    <2>1. pc' = "refused"
      BY <1>4 DEF StepRefused, WalkInv
    <2>2. QED
      BY <2>1 DEF GridInv
  <1>5. CASE StepSized
    BY <1>5 DEF StepSized, GridInv, HoursAsked
  <1>6. CASE Walk
    BY <1>6 DEF Walk, GridInv, HoursAsked
  <1>7. CASE WalkDone
    BY <1>7, WalkedGrid
  <1>8. CASE Answer
    BY <1>8 DEF Answer, GridInv
  <1>9. CASE UNCHANGED vars
    BY <1>9 DEF vars, GridInv, HoursAsked, Grid
  <1>10. QED
    BY <1>1, <1>2, <1>3, <1>4, <1>5, <1>6, <1>7, <1>8, <1>9 DEF Next

LEMMA TimeInvariant == Spec => [](TypeOK /\ TimeInv)
  <1>1. Init => TypeOK /\ WalkInv /\ ShortcutInv /\ GridInv
    BY TypeInit DEF Init, WalkInv, ShortcutInv, GridInv, RangeAsked, OffsetAsked
  <1>2. TypeOK /\ WalkInv /\ ShortcutInv /\ GridInv /\ [Next]_vars
          => (TypeOK /\ WalkInv /\ ShortcutInv /\ GridInv)'
    BY TypeStep, WalkInvStep, ShortcutStep, GridStep
  <1>3. QED
    BY <1>1, <1>2, PTL DEF Spec, TimeInv

\* ShortcutsResolve: a shortcut in lower case is never refused; a range shortcut is
\* the hours from a midnight, an offset that many hours from one.
THEOREM ShortcutsAreResolved == Spec => []ShortcutsResolve
  <1>1. TypeOK /\ TimeInv => ShortcutsResolve
    <2> SUFFICES ASSUME TypeOK, TimeInv, asked # Nil, pc \in {"done", "refused"}
                 PROVE  ShortcutsResolve
      BY DEF ShortcutsResolve
    <2>1. pc = "refused" <=> ~asked.lower
      BY DEF TimeInv, ShortcutInv
    <2>2. ASSUME pc = "done", asked.type = "range_offset",
                 asked.hours \in 1..MaxResolutionHours
          PROVE  Head(out) % Day = 0 /\ Last(out) = Head(out) + asked.hours * Hour
      BY <2>1, <2>2 DEF TimeInv, ShortcutInv, RangeAsked
    <2>3. ASSUME pc = "done", asked.type = "offset",
                 asked.hours \in 0..MaxResolutionHours
          PROVE  Len(out) = 1 /\ (out[1] - asked.hours * Hour) % Day = 0
      BY <2>3 DEF TimeInv, ShortcutInv, OffsetAsked
    <2>4. QED
      BY <2>1, <2>2, <2>3 DEF ShortcutsResolve
  <1>2. QED
    BY <1>1, TimeInvariant, PTL

\* HoursMeanGrid: a resolution in hours, in the comma form, the slash form, a JSON
\* object or an hourly shortcut, expands to exactly its grid.
THEOREM HoursAreTheGrid == Spec => []HoursMeanGrid
  <1>1. TypeOK /\ TimeInv => HoursMeanGrid
    <2> SUFFICES ASSUME TypeOK, TimeInv, pc = "done",
                        form \in {"comma", "slash", "json", "shortcut"}, hours > 0,
                        end > start, hours <= MaxResolutionHours,
                        form = "shortcut" => ~coarsened
                 PROVE  out = Grid(hours)
      BY DEF HoursMeanGrid
    <2>1. hours \in 1..MaxResolutionHours
      BY Constants DEF TypeOK
    <2>2. QED
      BY <2>1 DEF TimeInv, GridInv, HoursAsked
  <1>2. QED
    BY <1>1, TimeInvariant, PTL
=============================================================================
