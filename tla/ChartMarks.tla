----------------------------- MODULE ChartMarks -----------------------------
(***************************************************************************)
(* What a series puts on its panel.  A point of the picture is given in    *)
(* data space, <<time, value>>: the scales that take it to the canvas are  *)
(* linear.  Widths, radii and labels are left out.                         *)
(***************************************************************************)
EXTENDS ChartScale

\* Mutant: a missing reading is skipped.
runsBridged(pts) ==
    LET all == SelectSeq([j \in DOMAIN pts |-> j], LAMBDA j : pts[j].v # Nil)
    IN  IF all = <<>> THEN <<>> ELSE <<all>>

\* The loop of runs: the stretch that is open, and the closed ones.
runs(pts) ==
    LET Sample(acc, j) ==
            IF pts[j].v # Nil THEN [acc EXCEPT !.cur = Append(@, j)]
            ELSE IF acc.cur = <<>> THEN acc
            ELSE [closed |-> Append(acc.closed, acc.cur), cur |-> <<>>]
        last == FoldLeft(Sample, [closed |-> <<>>, cur |-> <<>>],
                         [j \in DOMAIN pts |-> j])
    IN  IF last.cur = <<>> THEN last.closed ELSE Append(last.closed, last.cur)

At(pts, j) == <<pts[j].t, pts[j].v>>

\* One path per run; a step holds the last value up to the next time.
lineMark(pts, step) ==
    LET Vertices(run, m) == IF step /\ m > 1
            THEN << <<pts[run[m]].t, pts[run[m - 1]].v>>, At(pts, run[m]) >>
            ELSE << At(pts, run[m]) >>
        Path(run) == FlattenSeq([m \in DOMAIN run |-> Vertices(run, m)])
        rs == runs(pts)
    IN  {[op |-> IF Len(Path(rs[n])) = 1 THEN "dot" ELSE "path", points |-> Path(rs[n])]
            : n \in DOMAIN rs}

\* The wash joins every sample that has both bounds.
bandMark(pts) ==
    LET both  == SelectSeq(pts, LAMBDA pt : Nil \notin {pt.lo, pt.hi})
        upper == [j \in DOMAIN both |-> <<both[j].t, both[j].hi>>]
        lower == [j \in DOMAIN both |-> <<both[j].t, both[j].lo>>]
    IN  lineMark(pts, FALSE) \cup
        (IF Len(both) < 2 THEN {} ELSE {[op |-> "wash", points |-> upper \o Reverse(lower)]})

Reported(pts) == {j \in DOMAIN pts : pts[j].v # Nil}

\* A bar of no height is not drawn.
barMark(pts, axisMin) ==
    LET base == IF \A j \in Reported(pts) : pts[j].v > 0 THEN axisMin ELSE 0
    IN  {[op |-> "bar", points |-> << <<pts[j].t, base>>, At(pts, j) >>]
            : j \in {k \in Reported(pts) : pts[k].v # base}}

\* The dot on the last reading.
endMarker(pts) ==
    IF Reported(pts) = {} THEN {}
    ELSE {[op |-> "dot", points |-> <<At(pts, Max(Reported(pts)))>>]}

Drawn(s, axisMin) ==
    CASE s.mark = "band" -> bandMark(s.points)
      [] s.mark = "bar"  -> barMark(s.points, axisMin)
      [] OTHER -> lineMark(s.points, s.mark = "step") \cup endMarker(s.points)
=============================================================================
