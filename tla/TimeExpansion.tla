--------------------------- MODULE TimeExpansion ---------------------------
(***************************************************************************)
(* A time parameter, from its wire form (comma or slash range, list,       *)
(* shortcut, JSON object, or a TimeRange built by hand) to the list of     *)
(* timestamps: the checks at parse time, the 64-bit time.Duration          *)
(* arithmetic of the step and the span, the walk of stepTimestamps and the *)
(* defensive coarsening of ExpandTimes.                                    *)
(*                                                                         *)
(* One tick stands for a nanosecond.  Durations lie in -MaxDuration-1 ..   *)
(* MaxDuration and wrap; time.Time does not: a span of two timestamps may  *)
(* exceed MaxDuration (292 years of the 9999 that RFC3339 can write).      *)
(***************************************************************************)
EXTENDS Integers, SequencesExt

CONSTANTS
    MaxTimestamps,
    MaxResolutionHours,
    Hour, Second,        \* time.Hour and time.Second
    Day,                 \* 24 hours
    MaxDuration,         \* the largest time.Duration
    Starts, Ends,        \* the timestamps a caller may write
    Numbers,             \* the integers a caller or the config.toml may write
    IsoSteps,            \* ISO-8601 durations: records [D, H, S] of naturals
    Shortcuts,           \* the config.toml: [type, hours, value, lower], where lower
                         \* tells a name that is written in lower case
    Nil                  \* no hours, no value, or one that does not parse

\* The relations between the real constants that the code leans on: an hour has
\* more ticks than a list may have entries, the cap on the resolution keeps it
\* from overflowing, and whole lists fit in the range of a duration.
ASSUME TimeAssumption ==
    /\ MaxTimestamps \in Nat /\ MaxTimestamps > 3
    /\ MaxResolutionHours \in Nat \ {0}
    /\ Hour \in Nat /\ Second \in Nat \ {0} /\ Day \in Nat \ {0} /\ MaxDuration \in Nat
    /\ Hour > MaxTimestamps
    /\ MaxResolutionHours * Hour <= MaxDuration
    /\ MaxDuration \div Hour > MaxTimestamps
    /\ Hour % Second = 0 /\ Day % Hour = 0

ASSUME InputAssumption ==
    /\ Starts \subseteq Int /\ Ends \subseteq Int /\ Numbers \subseteq Int
    /\ \A n \in IsoSteps : n.D \in Nat /\ n.H \in Nat /\ n.S \in Nat
    /\ \A sc \in Shortcuts : /\ sc.hours \in Int \cup {Nil} /\ sc.value \in Int \cup {Nil}
                             /\ sc.lower \in BOOLEAN
    /\ Nil \notin Int \cup Shortcuts

VARIABLES
    pc,
    form,       \* how the parameter was given
    start, end,
    hours,      \* the resolution or step in hours; 0 when there is none
    step,       \* the time.Duration handed to stepTimestamps
    t, out,     \* the loop of stepTimestamps
    coarsened,  \* history: ExpandTimes replaced the step
    asked       \* history: the shortcut that was named

vars == <<pc, form, start, end, hours, step, t, out, coarsened, asked>>

Forms == {"none", "single", "list", "comma", "slash", "iso", "json", "shortcut",
          "manual"}

\* stepTimestamps is called by the parser for these, by ExpandTimes otherwise.
ParsedSteps == {"comma", "slash", "iso"}

\* int64 multiplication and addition.
Wrap(x) ==
    ((x + MaxDuration + 1) % (2 * (MaxDuration + 1))) - (MaxDuration + 1)

\* time.Time.Sub saturates.
Sub(a, b) ==
    IF a - b > MaxDuration THEN MaxDuration
    ELSE IF a - b < -MaxDuration - 1 THEN -MaxDuration - 1 ELSE a - b

\* Mutant: the end boundary is not counted.
stepCountShort(span, stp) == (span \div stp) + 1

stepCount(span, stp) ==
    (span \div stp) + 1 + (IF span % stp # 0 THEN 1 ELSE 0)

FormatTimeDataToRFC3339(x) == x - (x % Second)

TypeOK ==
    /\ pc \in {"idle", "expand", "step", "walk", "done", "refused",
               "fallback"}
    /\ form \in Forms
    /\ start \in Int /\ end \in Int /\ hours \in Int /\ t \in Int
    /\ step \in -MaxDuration - 1 .. MaxDuration
    /\ out \in Seq(Int)
    /\ coarsened \in BOOLEAN

Init ==
    /\ pc = "idle" /\ form = "none"
    /\ start = 0 /\ end = 0 /\ hours = 0 /\ step = 0
    /\ t = 0 /\ out = <<>>
    /\ coarsened = FALSE /\ asked = Nil

-----------------------------------------------------------------------------
(* Parsing. *)

Given(f, s, e, h) ==
    /\ pc = "idle"
    /\ form' = f
    /\ start' = s /\ end' = e /\ hours' = h

Ready(ok, at, stp) ==
    /\ pc' = IF ok THEN at ELSE "refused"
    /\ step' = IF ok THEN stp ELSE 0
    /\ UNCHANGED <<t, out, coarsened, asked>>

\* parseSingleTime on a timestamp.
ParseSingle(s) ==
    /\ pc = "idle"
    /\ form' = "single"
    /\ out' = <<s>>
    /\ pc' = "done"
    /\ UNCHANGED <<start, end, hours, step, t, coarsened, asked>>

\* parseTimeList, and a list in a JSON object: the entries as they are.
ParseTimeList(s, n) ==
    /\ pc = "idle"
    /\ form' = "list"
    /\ IF n > MaxTimestamps THEN pc' = "refused" /\ UNCHANGED out
       ELSE pc' = "done" /\ out' = [i \in 1..n |-> s]
    /\ UNCHANGED <<start, end, hours, step, t, coarsened, asked>>

\* "start,end": the order of the two is not checked.
ParseComma(s, e) == Given("comma", s, e, 0) /\ Ready(TRUE, "expand", 0)

\* "start,end,hours".
ParseCommaStep(s, e, h) ==
    /\ Given("comma", s, e, h)
    /\ Ready(h > 0 /\ h <= MaxResolutionHours /\ e > s, "step", Wrap(h * Hour))

\* "start/end".
ParseSlash(s, e) == Given("slash", s, e, 0) /\ Ready(e > s, "expand", 0)

\* "start/end/hours": parseStepDuration does not cap the hours.
ParseSlashStep(s, e, h) ==
    /\ Given("slash", s, e, h)
    /\ Ready(e > s /\ h > 0, "step", Wrap(h * Hour))

\* parseISO8601Duration: the designators are added up modulo 2^64.
isoTotal(n) == Wrap(n.D * Day + n.H * Hour + n.S * Second)

ParseSlashIso(s, e, n) ==
    /\ Given("iso", s, e, 0)
    /\ Ready(e > s /\ isoTotal(n) > 0, "step", isoTotal(n))

\* decodeTimePayload on a RangeTime; a negative resolution passes.
decodes(s, e, r) ==
    /\ r <= MaxResolutionHours
    /\ r > 0 /\ e > s => stepCount(Sub(e, s), Wrap(r * Hour)) <= MaxTimestamps

UnmarshalRange(s, e, r) ==
    Given("json", s, e, r) /\ Ready(decodes(s, e, r), "expand", 0)

Midnight(now) == now - (now % Day)

\* BuildRangeTimeShortcuts: hourly from midnight; hours that are not positive are
\* skipped.
RangeEntry(sc) == sc.type = "range_offset" /\ sc.hours # Nil /\ sc.hours > 0
RangeShortcut(sc, now) ==
    LET s == FormatTimeDataToRFC3339(Midnight(now))
    IN  <<s, FormatTimeDataToRFC3339(s + Wrap(sc.hours * Hour))>>

\* BuildTimeShortcuts has an entry for every type, a range_offset too; what it
\* cannot read is now.
TimeShortcut(sc, now) == FormatTimeDataToRFC3339(
    CASE sc.type = "offset" /\ sc.hours # Nil -> Midnight(now) + Wrap(sc.hours * Hour)
      [] sc.type = "fixed" /\ sc.value # Nil -> sc.value
      [] OTHER -> now)

\* Mutant: the single shortcuts are looked up first.
ShortcutIsRangeLast(sc) == FALSE

\* ParseTime looks the range shortcuts up first.
ShortcutIsRange(sc) == RangeEntry(sc)

\* The input is lower-cased; the names of the maps are as they were configured.
ParseShortcut(sc, now) ==
    /\ pc = "idle"
    /\ asked' = sc
    /\ UNCHANGED <<step, t, coarsened>>
    /\ \/ /\ ~sc.lower
          /\ pc' = "refused"
          /\ UNCHANGED <<form, start, end, hours, out>>
       \/ /\ sc.lower /\ ShortcutIsRange(sc)
          /\ form' = "shortcut"
          /\ start' = RangeShortcut(sc, now)[1] /\ end' = RangeShortcut(sc, now)[2]
          /\ hours' = 1
          /\ pc' = "expand"
          /\ UNCHANGED out
       \/ /\ sc.lower /\ ~ShortcutIsRange(sc)
          /\ form' = "single"
          /\ out' = <<TimeShortcut(sc, now)>>
          /\ pc' = "done"
          /\ UNCHANGED <<start, end, hours>>

\* ExpandTimes on a TimeRange that was never parsed.
ManualRange(s, e, r) == Given("manual", s, e, r) /\ Ready(TRUE, "expand", 0)

-----------------------------------------------------------------------------
(* ExpandTimes. *)

\* The smallest whole-hour step that fits.
Coarser(span) ==
    (((span \div (MaxTimestamps - 2)) + Hour - 1) \div Hour) * Hour

\* expandRangeTime on a range that needs no steps.
ExpandBoundaries ==
    /\ pc = "expand"
    /\ end <= start \/ hours <= 0
    /\ out' = IF end <= start THEN <<start>> ELSE <<start, end>>
    /\ pc' = "done"
    /\ UNCHANGED <<form, start, end, hours, step, t, coarsened, asked>>

\* expandRangeTime chooses the step: the hours clamped, and coarser if need be.
ExpandStep ==
    LET res  == IF hours > MaxResolutionHours THEN MaxResolutionHours ELSE hours
        span == Sub(end, start)
        fine == Wrap(res * Hour)
    IN
    /\ pc = "expand"
    /\ end > start /\ hours > 0
    /\ coarsened' = (stepCount(span, fine) > MaxTimestamps)
    /\ step' = IF stepCount(span, fine) > MaxTimestamps THEN Coarser(span) ELSE fine
    /\ pc' = "step"
    /\ UNCHANGED <<form, start, end, hours, t, out, asked>>

-----------------------------------------------------------------------------
(* stepTimestamps. *)

Fits == step > 0 /\ stepCount(Sub(end, start), step) <= MaxTimestamps

\* An error goes to the caller of ParseTime; expandRangeTime falls back.
StepRefused ==
    /\ pc = "step"
    /\ ~Fits
    /\ IF form \in ParsedSteps THEN pc' = "refused" /\ UNCHANGED out
       ELSE pc' = "fallback" /\ out' = <<start, end>>
    /\ UNCHANGED <<form, start, end, hours, step, t, coarsened, asked>>

StepSized ==
    /\ pc = "step"
    /\ Fits
    /\ t' = start
    /\ out' = <<>>
    /\ pc' = "walk"
    /\ UNCHANGED <<form, start, end, hours, step, coarsened, asked>>

Walk ==
    /\ pc = "walk"
    /\ t <= end
    /\ out' = Append(out, t)
    /\ t' = t + step
    /\ UNCHANGED <<pc, form, start, end, hours, step, coarsened, asked>>

\* Mutant: the end is appended whether the walk has hit it or not.
WalkDoneTwice ==
    /\ pc = "walk"
    /\ t > end
    /\ out' = Append(out, end)
    /\ pc' = "done"
    /\ UNCHANGED <<form, start, end, hours, step, t, coarsened, asked>>

WalkDone ==
    /\ pc = "walk"
    /\ t > end
    /\ out' = IF out = <<>> \/ Last(out) # end THEN Append(out, end) ELSE out
    /\ pc' = "done"
    /\ UNCHANGED <<form, start, end, hours, step, t, coarsened, asked>>

\* The caller takes the list or the error.
Answer ==
    /\ pc \in {"done", "refused", "fallback"}
    /\ pc' = "idle" /\ form' = "none"
    /\ start' = 0 /\ end' = 0 /\ hours' = 0 /\ step' = 0
    /\ t' = 0 /\ out' = <<>>
    /\ coarsened' = FALSE /\ asked' = Nil

ParseTime ==
    /\ pc = "idle"
    /\ \/ \E s \in Starts : ParseSingle(s)
       \/ \E s \in Starts, n \in 1..MaxTimestamps + 1 : ParseTimeList(s, n)
       \/ \E now \in Starts, sc \in Shortcuts : ParseShortcut(sc, now)
       \/ \E s \in Starts, e \in Ends :
            \/ ParseComma(s, e)
            \/ ParseSlash(s, e)
            \/ \E h \in Numbers : ParseCommaStep(s, e, h) \/ ParseSlashStep(s, e, h)
            \/ \E n \in IsoSteps : ParseSlashIso(s, e, n)

Structured ==
    /\ pc = "idle"
    /\ \E s \in Starts, e \in Ends, r \in Numbers :
         UnmarshalRange(s, e, r) \/ ManualRange(s, e, r)

Next ==
    \/ ParseTime
    \/ Structured
    \/ ExpandBoundaries \/ ExpandStep
    \/ StepRefused \/ StepSized \/ Walk \/ WalkDone
    \/ Answer

Spec == Init /\ [][Next]_vars

-----------------------------------------------------------------------------
\* The span of the range is a time.Duration (at most 292 years).
SpanFits == end - start <= MaxDuration

\* However the parameter was given, the list never outgrows the cap, at no point
\* of the walk, as long as the span is a duration; and for every span the coarser
\* step of expandRangeTime fits, so that its fallback is unreachable, as the comment
\* there says.
CappedExpansion ==
    /\ SpanFits => Len(out) <= MaxTimestamps
    /\ pc # "fallback"

\* "MaxTimestamps caps how many timestamps a single time parameter may expand
\* to": for every span.  The code sizes the expansion with the saturating
\* time.Time.Sub, and walks the whole span.
CappedForEverySpan == Len(out) <= MaxTimestamps

\* What a range at h hours stands for: every h-th hour from the start, and the end.
Grid(h) ==
    LET span   == end - start
        hourly == [i \in 1..(span \div (h * Hour)) + 1 |-> start + (i - 1) * (h * Hour)]
    IN  IF span % (h * Hour) = 0 THEN hourly ELSE Append(hourly, end)

\* The comma form, the slash form and the JSON object agree: an accepted
\* resolution of h hours expands to exactly the h-hourly grid, ascending, without
\* a duplicate, the end included, and is not made coarser behind the caller's back
\* ("so ExpandTimes never has to refuse anything").  So does a range shortcut, hourly while that
\* fits: 3day is 73 points.
HoursMeanGrid ==
    pc = "done" /\ form \in {"comma", "slash", "json", "shortcut"} /\ hours > 0
      /\ end > start /\ hours <= MaxResolutionHours /\ (form = "shortcut" => ~coarsened)
        => out = Grid(hours)

\* A shortcut with a name in lower case is found in every spelling and never
\* refused.  A range_offset with hours to it is the range from midnight, never the
\* single "now" that BuildTimeShortcuts registers under the same name; an offset is
\* that many hours from some midnight.
ShortcutsResolve ==
    asked # Nil /\ pc \in {"done", "refused"} =>
        /\ pc = "refused" <=> ~asked.lower
        /\ pc = "done" /\ asked.type = "range_offset" /\ asked.hours \in 1..MaxResolutionHours =>
             /\ Head(out) % Day = 0
             /\ Last(out) = Head(out) + asked.hours * Hour
        /\ pc = "done" /\ asked.type = "offset" /\ asked.hours \in 0..MaxResolutionHours =>
             Len(out) = 1 /\ (out[1] - asked.hours * Hour) % Day = 0
=============================================================================
