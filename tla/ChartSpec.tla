----------------------------- MODULE ChartSpec -----------------------------
(***************************************************************************)
(* A chart Spec from its parts to what all three encoders share: built by  *)
(* hand or from reading rows, Validate, then Resolved panel by panel       *)
(* (slots, units and marks, threshold bands, the y domain) and the shared  *)
(* time axis or the windrose.  A resolved spec is itself a Spec and may be *)
(* resolved again.  Titles, label texts, sizes and the colour mode are     *)
(* left out; of a name it matters only whether there is one.               *)
(***************************************************************************)
EXTENDS ChartParameters, WindRose, ChartMarks

CONSTANTS
    maxSeries,
    SeriesChoices,  \* series a caller may plot
    PanelChoices,   \* axis pins, Y.Zero, ShowThresholds and bands of a panel
    RoseChoices,    \* windrose options
    XPins,          \* <<X.Min, X.Max>>
    Samples,        \* reading rows, and the parameters to plot of them
    Now,            \* when a chart without samples is resolved
    MaxPanels

\* What a caller may write down.
OrNil(S) == S \cup {Nil}
Readings == OrNil(-Reach..Reach)
Values == Readings \cup {NotFinite}
Points == [t : Nat, v : Values, lo : Values, hi : Values, dir : OrNil(Int) \cup {NotFinite}]
SeriesType == [named : BOOLEAN, param : Texts, unit : Texts, slot : Int, mark : Texts,
               points : Seq(Points)]
BandType == [from : OrNil(Int), to : OrNil(Int), status : Texts, labelled : BOOLEAN]

ASSUME ChartAssumption ==
    /\ maxSeries \in Nat \ {0}
    /\ MaxPanels \in Nat
    /\ SeriesChoices \subseteq SeriesType
    /\ PanelChoices \subseteq [min : Readings, max : Readings, zero : BOOLEAN, show : BOOLEAN,
                               bands : Seq(BandType)]
    /\ RoseChoices \subseteq [sectors : Int, bands : Seq(Int), calmBelow : Int]
    /\ XPins \subseteq OrNil(Nat) \X OrNil(Nat)
    /\ Now \subseteq Nat

ASSUME SampleAssumption ==
    \A sample \in Samples :
        /\ sample.params \in Seq(Texts)
        /\ DOMAIN sample.rows = 1..Len(sample.rows) /\ Len(sample.rows) \in Nat
        /\ \A i \in DOMAIN sample.rows :
             /\ sample.rows[i].t \in Nat
             /\ \A n \in DOMAIN sample.rows[i].values : sample.rows[i].values[n] \in Values

VARIABLES
    pc,
    kind,
    panels,     \* Spec.Panels as given
    opts,       \* Spec.Windrose
    xpins,      \* Spec.X.Min and Max
    slot,       \* the last palette slot Resolved has dealt
    out,        \* the panels resolved so far
    x,          \* the resolved time axis
    rose,       \* the resolved windrose
    rows,       \* history: the samples the spec was built from
    prior       \* history: what each earlier Resolved of this spec gave

given == <<kind, panels, opts, xpins, rows, prior>>
vars == <<pc, given, slot, out, x, rose>>

NoAxis == [t0 |-> 0, t1 |-> 0, ticks |-> <<>>]
NoRose == NoOptions
NoRows == [rows |-> <<>>, params |-> <<>>]
Statuses == {"good", "warning", "serious", "critical", "none"}

\* The series of all panels, by panel and place.
Places(ps) == UNION {{i} \X DOMAIN ps[i].series : i \in DOMAIN ps}
Total == Cardinality(Places(panels))

Init ==
    /\ pc = "edit"
    /\ kind \in {"timeseries", "meteogram", "windrose"}
    /\ panels = <<>>
    /\ opts \in IF kind = "windrose" THEN RoseChoices ELSE {NoOptions}
    /\ xpins \in IF kind = "windrose" THEN {<<Nil, Nil>>} ELSE XPins
    /\ slot = 0 /\ out = <<>> /\ x = NoAxis /\ rose = NoRose
    /\ rows = NoRows /\ prior = <<>>

-----------------------------------------------------------------------------
(* The caller. *)

Panel(series, c) == [series |-> series, min |-> c.min, max |-> c.max, zero |-> c.zero,
                     show |-> c.show, bands |-> c.bands]
BarePanel == [min |-> Nil, max |-> Nil, zero |-> FALSE, show |-> FALSE, bands |-> <<>>]

\* A spec is built by hand, or from samples, before it is first resolved.
ByHand == pc = "edit" /\ prior = <<>> /\ rows = NoRows

AddPanel(c) ==
    /\ ByHand
    /\ Len(panels) < MaxPanels
    /\ panels' = Append(panels, Panel(<<>>, c))
    /\ UNCHANGED <<pc, kind, opts, xpins, slot, out, x, rose, rows, prior>>

\* One series too many is enough to see it refused.
AddSeries(s) ==
    /\ ByHand
    /\ panels # <<>>
    /\ Total <= maxSeries
    /\ panels' = [panels EXCEPT ![Len(panels)].series = Append(@, s)]
    /\ UNCHANGED <<pc, kind, opts, xpins, slot, out, x, rose, rows, prior>>

\* The name is the parameter's label or, without one, the parameter itself.
SeriesOf(param, points) ==
    [named |-> param # "", param |-> param, unit |-> "", slot |-> 0, mark |-> "", points |-> points]

\* Mutant: the rows are taken as they arrive.
SortedAsGiven(rs) == rs

\* sort.SliceStable by time: a row's rank is the number of rows before it.
Earlier(rs, i, k) == rs[i].t < rs[k].t \/ (rs[i].t = rs[k].t /\ i < k)
Rank(rs, k) == Cardinality({i \in DOMAIN rs : Earlier(rs, i, k)}) + 1

Sorted(rs) == [n \in DOMAIN rs |-> rs[CHOOSE k \in DOMAIN rs : Rank(rs, k) = n]]

\* A row that lacks the parameter leaves a nil.
ValueOf(row, param) == IF param \in DOMAIN row.values THEN row.values[param] ELSE Nil

PointOf(row, param, dirParam) ==
    [t |-> row.t, v |-> ValueOf(row, param), lo |-> Nil, hi |-> Nil,
     dir |-> ValueOf(row, dirParam)]

\* The parameters of a rose: speed first, then the direction.
RoseParams(params) ==
    << IF Len(params) > 0 THEN params[1] ELSE "wind_speed",
       IF Len(params) > 1 THEN params[2] ELSE "wind_direction" >>

PlainSeries(rs, params, n) ==
    SeriesOf(params[n], [i \in DOMAIN rs |-> PointOf(rs[i], params[n], "")])

SamplePanels(rs, params) ==
    LET rp == RoseParams(params) IN
    CASE kind = "windrose" ->
           << Panel(<<SeriesOf(rp[1], [i \in DOMAIN rs |-> PointOf(rs[i], rp[1], rp[2])])>>,
                    BarePanel) >>
      [] kind = "meteogram" ->
           [n \in DOMAIN params |-> Panel(<<PlainSeries(rs, params, n)>>, BarePanel)]
      [] kind = "timeseries" ->
           << Panel([n \in DOMAIN params |-> PlainSeries(rs, params, n)], BarePanel) >>

FromSamples(sample) ==
    /\ ByHand /\ panels = <<>>
    /\ panels' = SamplePanels(Sorted(sample.rows), sample.params)
    /\ opts' = NoOptions
    /\ xpins' = <<Nil, Nil>>
    /\ rows' = sample
    /\ UNCHANGED <<pc, kind, slot, out, x, rose, prior>>

-----------------------------------------------------------------------------
(* Validate. *)

\* The zero time is no time.
validatePoints(s) ==
    /\ \A j \in DOMAIN s.points : s.points[j].t # 0
    /\ \A j \in 2..Len(s.points) : s.points[j - 1].t <= s.points[j].t
    /\ \A j \in DOMAIN s.points :
         NotFinite \notin {s.points[j].v, s.points[j].lo, s.points[j].hi, s.points[j].dir}
    /\ s.mark = "band" =>
         \A j \in DOMAIN s.points :
            Nil \notin {s.points[j].lo, s.points[j].hi} => s.points[j].lo <= s.points[j].hi

validatePanel(p) ==
    /\ p.series # <<>>
    /\ \A j \in DOMAIN p.series :
         /\ p.series[j].named
         /\ p.series[j].slot \in 0..maxSeries
         /\ p.series[j].mark \in {"", "line", "step", "band", "bar"}
         /\ EffectiveUnit(p.series[j]) = EffectiveUnit(p.series[1])
         /\ validatePoints(p.series[j])
    /\ \A i \in DOMAIN p.bands : p.bands[i].labelled /\ p.bands[i].status \in Statuses

Valid ==
    /\ panels # <<>>
    /\ kind # "meteogram" => Len(panels) = 1
    /\ \A i \in DOMAIN panels : validatePanel(panels[i])
    /\ Total <= maxSeries
    /\ kind = "windrose" =>
         Len(panels[1].series) = 1 /\ ValidRose(opts, panels[1].series[1].points)

Validate ==
    /\ pc = "edit"
    /\ pc' = IF Valid THEN "resolve" ELSE "refused"
    /\ UNCHANGED <<given, slot, out, x, rose>>

-----------------------------------------------------------------------------
(* Resolved, one panel. *)

\* The y domain is the data's unless the caller pins an end of it.
resolveY(p) ==
    LET zero == p.zero \/ \E j \in DOMAIN p.series : Parameter(p.series[j].param).zero
        ext  == seriesExtent(p.series)
        nice == niceDomain(IF ext = {} THEN 0 ELSE Min(ext),
                           IF ext = {} THEN Unit ELSE Max(ext), zero)
        lo   == IF p.min # Nil THEN p.min ELSE nice.lo
        top  == IF p.max # Nil THEN p.max ELSE nice.hi
        hi   == IF top <= lo THEN lo + Unit ELSE top
        step == IF p.min = Nil /\ p.max = Nil THEN nice.step ELSE niceStep(hi - lo)
    IN  [min |-> lo, max |-> hi, zero |-> zero, ticks |-> numericTicks(lo, hi, step)]

resolveBands(p) ==
    IF p.show /\ p.bands = <<>> THEN BandsFor(p.series[1].param) ELSE p.bands

\* The unpinned series of one panel up to and including the j-th.
Dealt(p, j) == Cardinality({k \in 1..j : p.series[k].slot = 0})

\* Mutant: every panel starts again with the first slot.
slotOfRestarted(p, j) == IF p.series[j].slot # 0 THEN p.series[j].slot ELSE Dealt(p, j)

slotOf(p, j) == IF p.series[j].slot # 0 THEN p.series[j].slot ELSE slot + Dealt(p, j)

\* A series' slot stands for its colour, a band's status for its own.
Resolved(p) ==
    LET y == resolveY(p) IN
    [min |-> y.min, max |-> y.max, zero |-> y.zero, ticks |-> y.ticks,
     show |-> p.show, bands |-> resolveBands(p),
     series |-> [j \in DOMAIN p.series |->
                   [p.series[j] EXCEPT !.slot = slotOf(p, j),
                                       !.unit = EffectiveUnit(p.series[j]),
                                       !.mark = EffectiveMark(p.series[j])]]]

ResolvePanel ==
    LET p == panels[Len(out) + 1] IN
    /\ pc = "resolve"
    /\ Len(out) < Len(panels)
    /\ out' = Append(out, Resolved(p))
    /\ slot' = slot + Dealt(p, Len(p.series))
    /\ UNCHANGED <<pc, given, x, rose>>

-----------------------------------------------------------------------------
(* Resolved, the whole. *)

\* The ends of the axis travel as Unix milliseconds; the ticks are those of the ends
\* as they are.
resolveX(now) ==
    LET times == timeExtent(panels)
        t0 == IF xpins[1] # Nil THEN InMillis(xpins[1]) ELSE IF times = {} THEN now ELSE Min(times)
        t1 == IF xpins[2] # Nil THEN InMillis(xpins[2])
              ELSE IF times = {} THEN now + 60 * Minute ELSE Max(times)
        end == IF t1 > t0 THEN t1 ELSE t0 + 60 * Minute
    IN  [t0 |-> InMillis(t0), t1 |-> InMillis(end), ticks |-> timeTicks(t0, end)]

\* The clock is read only where there is no sample.
ResolveX ==
    /\ pc = "resolve" /\ kind # "windrose"
    /\ Len(out) = Len(panels)
    /\ pc' = "done"
    /\ \E now \in IF timeExtent(panels) = {} THEN Now ELSE {0} : x' = resolveX(now)
    /\ UNCHANGED <<given, slot, out, rose>>

ResolveRose ==
    /\ pc = "resolve" /\ kind = "windrose"
    /\ Len(out) = Len(panels)
    /\ pc' = "done"
    /\ rose' = resolveRose(opts, panels[1].series[1].points)
    /\ UNCHANGED <<given, slot, out, x>>

\* The resolved spec, say from its JSON, is rendered in turn, and once more.
Again ==
    /\ pc = "done" /\ Len(prior) < 2
    /\ prior' = Append(prior, [panels |-> out, x |-> x, rose |-> rose])
    /\ panels' = [i \in DOMAIN out |-> Panel(out[i].series, out[i])]
    /\ xpins' = IF kind = "windrose" THEN xpins ELSE <<x.t0, x.t1>>
    /\ opts' = [n \in DOMAIN opts |-> rose[n]]
    /\ pc' = "edit"
    /\ slot' = 0 /\ out' = <<>> /\ x' = NoAxis /\ rose' = NoRose
    /\ UNCHANGED <<kind, rows>>

Next ==
    \/ \E c \in PanelChoices : AddPanel(c)
    \/ \E s \in SeriesChoices : AddSeries(s)
    \/ \E sample \in Samples : FromSamples(sample)
    \/ Validate \/ ResolvePanel \/ ResolveX \/ ResolveRose \/ Again

Spec == Init /\ [][Next]_vars

-----------------------------------------------------------------------------
PanelType == [series : Seq(SeriesType), min : OrNil(Int), max : OrNil(Int),
              zero : BOOLEAN, show : BOOLEAN, bands : Seq(BandType)]
ResolvedType == [series : Seq(SeriesType), min : Int, max : Int, zero : BOOLEAN,
                 ticks : Seq(Int), show : BOOLEAN, bands : Seq(BandType)]

TypeOK ==
    /\ pc \in {"edit", "resolve", "done", "refused"}
    /\ kind \in {"timeseries", "meteogram", "windrose"}
    /\ panels \in Seq(PanelType)
    /\ opts \in [sectors : Int, bands : Seq(Int), calmBelow : Int]
    /\ xpins \in OrNil(Nat) \X OrNil(Nat)
    /\ slot \in Nat
    /\ out \in Seq(ResolvedType)
    /\ Len(out) <= Len(panels)

SeriesAt == {ij \in (1..MaxPanels) \X (1..maxSeries) :
                ij[1] \in DOMAIN out /\ ij[2] \in DOMAIN out[ij[1]].series}
Pinned(ij) == panels[ij[1]].series[ij[2]].slot # 0
WholeTimes == /\ timeExtent(panels) # {}
              /\ \A t \in timeExtent(panels) : InMillis(t) = t
FreeAxis(i) == panels[i].min = Nil /\ panels[i].max = Nil

\* resolveY: an axis that the caller leaves alone holds every value of its panel,
\* band bounds included, and zero where it is wanted; a flat or an empty series
\* still has a height.  The ticks start at its bottom and end exactly at its top, in
\* no more than the targetTicks + 2 that numericTicks makes room for, although the
\* step is chosen before the domain is widened to whole steps.  The ticks of the time
\* axis lie on it; an axis of a minute or more has one, and there are few enough to
\* read unless the axis is longer than targetTicks of the longest step.
AxisFitsData ==
    /\ \A i \in DOMAIN out :
         /\ out[i].min < out[i].max
         /\ Len(out[i].ticks) \in 2..targetTicks + 2
         /\ out[i].ticks[1] = out[i].min
         /\ FreeAxis(i) =>
              /\ \A v \in seriesExtent(panels[i].series) : out[i].min <= v /\ v <= out[i].max
              /\ out[i].zero => out[i].min <= 0 /\ 0 <= out[i].max
              /\ Last(out[i].ticks) = out[i].max
    /\ pc = "done" /\ kind # "windrose" =>
         /\ x.t1 - x.t0 >= timeTickSteps[1] => x.ticks # <<>>
         /\ Len(x.ticks) <= IF (x.t1 - x.t0) \div Last(timeTickSteps) <= targetTicks
                              THEN targetTicks + 1 ELSE maxTicks
         /\ \A n \in DOMAIN x.ticks : x.t0 <= x.ticks[n] /\ x.ticks[n] <= x.t1

\* Resolved: series that are left to the palette never share a colour, whichever
\* panels they are in, and a resolved spec can be resolved again, whenever that is,
\* with the colours, marks, bands, domains and bins of the first picture.  The time
\* axis is the same too where the samples lie on whole milliseconds; where they do not
\* its ticks may change, and where it fell within a millisecond it becomes an hour long.
\* The ticks of a y axis are laid anew, as for one that the caller pinned.  After that
\* nothing changes any more.  The exception is a rose that was left the default number
\* of sectors: 16 is no divisor of 360, so validateWindroseSpec refuses it where it is
\* spelled out.
ResolvedIsStable ==
    /\ \A a, b \in SeriesAt :
         a # b /\ ~Pinned(a) /\ ~Pinned(b) =>
            out[a[1]].series[a[2]].slot # out[b[1]].series[b[2]].slot
    /\ prior # <<>> =>
        LET was == Last(prior) IN
        /\ pc = "refused" => kind = "windrose" /\ opts.sectors = defaultSectors
        /\ pc = "done" =>
             /\ rose = was.rose
             /\ \A i \in DOMAIN out :
                  [n \in {"min", "max", "zero", "series", "show", "bands"} |-> out[i][n]]
                    = [n \in {"min", "max", "zero", "series", "show", "bands"} |->
                           was.panels[i][n]]
             /\ x.t0 = was.x.t0
             /\ was.x.t0 < was.x.t1 => x.t1 = was.x.t1
             /\ WholeTimes => x = was.x
             /\ Len(prior) = 2 => x = was.x /\ out = was.panels

\* Where the stroke of a line goes: between two readings that follow each other,
\* for a step over the corner between them.
Strokes(pts, step) ==
    UNION {LET corner == <<pts[j + 1].t, pts[j].v>> IN
           IF step THEN {<<At(pts, j), corner>>, <<corner, At(pts, j + 1)>>}
                   ELSE {<<At(pts, j), At(pts, j + 1)>>}
           : j \in {k \in 1..Len(pts) - 1 : {k, k + 1} \subseteq Reported(pts)}}

\* runs, lineMark and barMark: a line joins neighbouring readings and no others ("a
\* missing reading is never bridged with a line and never drawn as a zero"), a reading
\* between two gaps is a dot, and every dot is a reading.  Every reading has its bar,
\* all of a series' bars stand on one base, on a free axis they stay inside the plot,
\* and where an accumulation's panel has nothing below zero they start at zero.
MarksShowReadings ==
    \A ij \in SeriesAt :
        LET p == out[ij[1]]
            s == p.series[ij[2]]
            drawn == Drawn(s, p.min)
            Ops(op) == {d \in drawn : d.op = op}
            readings == {At(s.points, j) : j \in Reported(s.points)}
            bases == {d.points[1][2] : d \in Ops("bar")}
        IN
        /\ s.mark # "bar" =>
             /\ Strokes(s.points, s.mark = "step") =
                  UNION {{<<d.points[m], d.points[m + 1]>> : m \in 1..Len(d.points) - 1}
                         : d \in Ops("path")}
             /\ UNION {Range(d.points) : d \in Ops("dot")} \subseteq readings
             /\ \A r \in readings : \E d \in Ops("dot") \cup Ops("path") : r \in Range(d.points)
        /\ s.mark = "bar" =>
             /\ Cardinality(bases) <= 1
             /\ \A r \in readings :
                  \/ \E d \in Ops("bar") : d.points[2] = r
                  \/ r[2] = IF \E q \in readings : q[2] <= 0 THEN 0 ELSE p.min
             /\ \A d \in Ops("bar") : d.points[2] \in readings /\ d.points[1][1] = d.points[2][1]
             /\ FreeAxis(ij[1]) /\ p.zero => \A b \in bases : p.min <= b /\ b <= p.max
             /\ FreeAxis(ij[1]) /\ p.zero /\ p.min >= 0 => bases \subseteq {0}

\* BandsFor and Classify read the same breaks in two ways: on the axis that is drawn,
\* a value lies in a stripe of its own status, and in no other, unless it has the best
\* status or none.  On the break itself two stripes meet.
BandsMatchStatus ==
    \A i \in DOMAIN out :
        panels[i].show /\ panels[i].bands = <<>> =>
            LET name    == panels[i].series[1].param
                breaks  == Parameter(name).breaks
                edges   == {breaks[k].at : k \in DOMAIN breaks}
                stripes == panelBackground(out[i].bands, out[i].min, out[i].max)
                Probe   == {out[i].min, out[i].max} \cup seriesExtent(panels[i].series)
                           \cup UNION {{e - 1, e + 1} : e \in edges}
                Plain   == {"none"} \cup {breaks[k].status : k \in DOMAIN breaks \cap {1}}
            IN  \A v \in (Probe \ edges) \cap out[i].min..out[i].max :
                    {r.status : r \in {q \in stripes : q.from <= v /\ v <= q.to}}
                      = {Classify(name, v)} \ Plain

\* A bearing within half a sector of the sector's own, on the circle.
Faces(dir, sec, sectors) == (2 * sectors * dir - 720 * sec + 360) % (720 * sectors) < 720

\* resolveRose: every complete reading is counted once, as calm or in the class of its
\* speed and the sector whose bearing is nearest; the outermost ring covers the fullest
\* sector in at most targetTicks rings; the wedges of a sector stack without a gap or an
\* overlap, slowest inside, and are as long as the outermost ring is wide at most,
\* measured from the calm disc they start on.
RoseCountsEveryReading ==
    pc = "done" /\ kind = "windrose" =>
        LET pts   == panels[1].series[1].points
            read  == {k \in DOMAIN pts : pts[k].dir # Nil /\ pts[k].v # Nil}
            wind  == {k \in read : pts[k].v >= rose.calmBelow}
            InBin(k, bin) ==
                /\ Faces(pts[k].dir, bin.sector, rose.sectors)
                /\ bin.band > 0 => pts[k].v >= rose.bands[bin.band]
                /\ bin.band < Len(rose.bands) => pts[k].v < rose.bands[bin.band + 1]
            ws == Wedges(rose)
        IN
        /\ rose.total = Cardinality(read)
        /\ rose.total = rose.calm + Cardinality(wind)
        /\ \A k \in wind : Cardinality({n \in DOMAIN rose.bins : InBin(k, rose.bins[n])}) = 1
        /\ \A n \in DOMAIN rose.bins :
             rose.bins[n].count = Cardinality({k \in wind : InBin(k, rose.bins[n])})
        /\ Len(rose.rings) \in 1..targetTicks
        /\ \A n \in DOMAIN ws :
             /\ (ws[n].r1 - rose.calm) * 100 * Unit <= Last(rose.rings) * rose.total
             /\ ws[n].r0 = rose.calm \/ \E m \in 1..n - 1 :
                  /\ ws[m].bin.sector = ws[n].bin.sector
                  /\ ws[m].bin.band < ws[n].bin.band
                  /\ ws[m].r1 = ws[n].r0

\* FromSamples: rows in any order chart, as long as they are dated and finite and their
\* parameters have names, share a unit where they share a panel and fit the palette, and
\* no others do; each series has one point per row, in the order of the times and, at one
\* time, of the rows; what a row lacks is a gap.
SamplesChart ==
    rows # NoRows /\ prior = <<>> =>
        LET ps == IF kind = "windrose" THEN <<RoseParams(rows.params)[1]>> ELSE rows.params
            all == FlattenSeq([i \in DOMAIN panels |-> panels[i].series])
            plotted == Range(ps) \cup
                       (IF kind = "windrose" THEN {RoseParams(rows.params)[2]} ELSE {})
        IN
        /\ Len(all) = Len(ps)
        /\ \A n \in DOMAIN ps :
             LET pts == all[n].points IN
             /\ Len(pts) = Len(rows.rows)
             /\ \A t \in {rows.rows[i].t : i \in DOMAIN rows.rows} :
                  LET of == SelectSeq(rows.rows, LAMBDA r : r.t = t)
                      got == SelectSeq(pts, LAMBDA pt : pt.t = t)
                  IN  /\ Len(got) = Len(of)
                      /\ \A m \in DOMAIN of : got[m].v =
                            IF ps[n] \in DOMAIN of[m].values THEN of[m].values[ps[n]] ELSE Nil
        /\ pc # "edit" => ((pc = "refused") <=>
             \/ ps = <<>> \/ Len(ps) > maxSeries \/ "" \in Range(ps)
             \/ \E i \in DOMAIN rows.rows :
                  LET row == rows.rows[i] IN
                  row.t = 0 \/ \E n \in plotted \cap DOMAIN row.values : row.values[n] = NotFinite
             \/ kind = "timeseries" /\ Cardinality({Parameter(ps[n]).unit : n \in DOMAIN ps}) > 1
             \/ kind = "windrose" /\ \A k \in DOMAIN all[1].points : ~Complete(all[1].points[k]))
=============================================================================
