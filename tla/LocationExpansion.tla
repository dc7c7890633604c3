------------------------- MODULE LocationExpansion -------------------------
(***************************************************************************)
(* Locations that expand to many points: the caps at parse time and the    *)
(* loops of ExpandLocations and the bbox grid, which stop, coarsen or halve *)
(* until the list fits.  A location comes from a parser or is built by     *)
(* hand, past every check.                                                 *)
(*                                                                         *)
(* The edges of a rectangle and the spans of a polygon are floats, in       *)
(* grains of 1/Grains degree: its loops add, divide and compare in          *)
(* float64, and away from zero a step may be lost in the rounding.  A bbox  *)
(* and a radius are counted in exact units, 1/Degree degree and half        *)
(* kilometres: how their products round changes no result below.  What is   *)
(* kept of a list of points is its length; of a rectangle's grid also the   *)
(* coordinates.  Whether a grid point lies inside a polygon is geometry and *)
(* left open.                                                               *)
(***************************************************************************)
EXTENDS Floats, Sequences, FiniteSets

CONSTANTS
    MaxRadiusKm, MaxExpandedRadiusPoints, radiusRingStepKm,
    MaxPolylinePoints, MaxPolygonVertices,
    MaxPointsPerDegree, MaxBboxGridPoints,
    maxGridPoints,
    MaxLat, MaxLon,      \* the globe: 90 and 180 degrees, in grains
    Grains,              \* the float 1
    Tolerance,           \* 10^9: the tolerance of a walk is step / Tolerance
    Degree,              \* units of a bbox per degree
    MaxPasses,           \* the bound of the polygon passes
    MaxDivisor,          \* what the halvings may divide a density by
    NaN, Inf,            \* the area of a polygon may be neither a number nor finite
    Radii, SegmentCounts, Spans, Densities, VertexCounts, InsideCounts,
    LatAxes, LonAxes,    \* the coordinates of two corners, in either order
    Outlines             \* what is kept of a polygon's rings

MaxOf(a, b) == IF a > b THEN a ELSE b
MinOf(a, b) == IF a < b THEN a ELSE b
CeilDiv(a, b) == (a + b - 1) \div b

ASSUME CapAssumption ==
    /\ MaxRadiusKm \in Nat \ {0}
    /\ MaxExpandedRadiusPoints \in Nat
    /\ radiusRingStepKm = 3     \* "ring k has 3 + k points"
    \* "at MaxRadiusKm the closed form yields 6,834 points", below the ceiling
    /\ LET rings == MaxRadiusKm \div radiusRingStepKm + 1
       IN  3 * rings * (rings + 1) <= 2 * MaxExpandedRadiusPoints
    /\ MaxPolylinePoints \in Nat \ {0}
    /\ MaxPolygonVertices \in Nat
    /\ MaxPointsPerDegree \in Nat
    /\ MaxBboxGridPoints \in Nat \ {0}
    /\ maxGridPoints \in Nat /\ maxGridPoints >= 4
    /\ MaxPasses \in Nat \ {0}

ASSUME UnitAssumption ==
    /\ Degree \in Nat \ {0}
    /\ Grains \in Nat \ {0} /\ Grains % 4 = 0   \* the steps 1, 0.5 and 0.25 are whole
    /\ Tolerance \in Nat \ {0}
    /\ MaxLat \in Nat /\ MaxLon \in Nat

ASSUME InputAssumption ==
    /\ Radii \subseteq Int /\ Spans \subseteq Int /\ Densities \subseteq Int
    /\ SegmentCounts \subseteq Nat
    /\ VertexCounts \subseteq Nat /\ InsideCounts \subseteq Nat
    /\ LatAxes \cup LonAxes \subseteq Int \X Int
    /\ \A a \in LatAxes \cup LonAxes : IsFloat(a[1]) /\ IsFloat(a[2])
    /\ Outlines \subseteq [lat : Nat, lon : Nat, spacing : Nat \cup {NaN, Inf}]
    /\ NaN \notin Nat /\ Inf \notin Nat

\* 2100 halvings take any float64 density to zero: every dimension is then 1.
ASSUME HalvingAssumption ==
    /\ MaxDivisor \in Nat \ {0}
    /\ \A span \in Spans, d \in Densities :
         2 * span * MinOf(d, MaxPointsPerDegree) < Degree * MaxDivisor

VARIABLES
    pc,
    kind,
    trusted,    \* the location passed a parser or decodeLocationPayload
    payload,    \* its payload
    points,     \* points so far
    counter,    \* the loop variable: km, step, pass or divisor
    grid,       \* the axis, the loop variable and the values of a rectangle's grid
    peak        \* history: the most points ever held for this location

expansionVars == <<pc, kind, trusted, payload, points, counter, grid, peak>>

Kinds == {"none", "radius", "polyline", "points", "rectangle", "bbox", "polygon",
          "overflow", "notfinite"}

\* The type of a payload that was parsed is what its validation leaves.
ExpansionTypeOK ==
    /\ pc \in {"idle", "parse", "expand", "widen", "loop", "walk", "snap", "done",
              "refused", "panicked"}
    /\ kind \in Kinds
    /\ trusted \in BOOLEAN
    /\ points \in Nat /\ counter \in Nat /\ peak \in Nat
    /\ points <= peak
    /\ trusted /\ pc \in {"expand", "widen", "loop", "done"} =>
         /\ kind = "radius" => payload \in 1..2 * MaxRadiusKm
         /\ kind = "bbox" => payload.density \in 0..MaxPointsPerDegree /\ payload.lat > 0
         /\ kind = "polygon" => /\ payload.vertices <= MaxPolygonVertices
                               /\ payload.spacing \in Nat

NoGrid == [axis |-> 0, v |-> 0, epsilon |-> 0, lats |-> <<>>, vals |-> <<>>]

ExpansionInit ==
    /\ pc = "idle" /\ kind = "none" /\ trusted = FALSE
    /\ payload = <<>> /\ points = 0 /\ counter = 0 /\ grid = NoGrid /\ peak = 0

Given(k, t, a, at) ==
    /\ pc = "idle"
    /\ kind' = k /\ trusted' = t /\ payload' = a
    /\ pc' = at
    /\ UNCHANGED <<points, counter, grid, peak>>

Hold(m) == points' = m /\ peak' = MaxOf(peak, m)

Become(m, at) ==
    /\ Hold(m)
    /\ pc' = at
    /\ UNCHANGED <<kind, trusted, payload>>

-----------------------------------------------------------------------------
(* Radius. *)

validateRadius(r) == r > 0 /\ r <= 2 * MaxRadiusKm

ParseRadius(r) ==
    Given("radius", TRUE, r, IF validateRadius(r) THEN "expand" ELSE "refused")

ManualRadius(r) == Given("radius", FALSE, r, "expand")

\* Mutant: the radius is not clamped.
maxKmUnclamped == payload \div 2

maxKm == MinOf(payload, 2 * MaxRadiusKm) \div 2

\* The pre-allocated capacity.
capacity ==
    LET rings == maxKm \div radiusRingStepKm + 1 IN (3 * rings * (rings + 1)) \div 2

\* Below one ring step only the centre.
ExpandRadius ==
    /\ pc = "expand" /\ kind = "radius"
    /\ IF payload < 2 * radiusRingStepKm THEN Become(1, "done") ELSE Become(0, "loop")
    /\ counter' = 0
    /\ UNCHANGED grid

\* Mutant: the last ring is left out.
MoreRingsShort == counter < maxKm /\ points < MaxExpandedRadiusPoints

MoreRings == counter <= maxKm /\ points < MaxExpandedRadiusPoints

Ring ==
    /\ pc = "loop" /\ kind = "radius"
    /\ MoreRings
    /\ Become(points + 3 + counter, "loop")
    /\ counter' = counter + radiusRingStepKm
    /\ UNCHANGED grid

RingsDone ==
    /\ pc = "loop" /\ kind = "radius"
    /\ ~MoreRings
    /\ Become(points, "done")
    /\ UNCHANGED <<counter, grid>>

-----------------------------------------------------------------------------
(* Polyline: parseCoordinates, one '|' segment at a time. *)

StartPolyline == Given("polyline", TRUE, <<>>, "parse")

AfterSegment(total) == IF total > MaxPolylinePoints THEN "refused" ELSE "parse"

\* "lat,lon".
PointSegment ==
    /\ pc = "parse"
    /\ Become(points + 1, AfterSegment(points + 1))
    /\ UNCHANGED <<counter, grid>>

\* "lat,lon,lat,lon,count" generates count points, both ends included.
GeneratedSegment(count) ==
    /\ pc = "parse"
    /\ IF count < 2 \/ count > MaxPolylinePoints THEN Become(points, "refused")
       ELSE Become(points + count, AfterSegment(points + count))
    /\ UNCHANGED <<counter, grid>>

LastSegment ==
    /\ pc = "parse" /\ points > 0
    /\ Become(points, "done")
    /\ UNCHANGED <<counter, grid>>

\* The points of a point_list or polyline payload: a JSON payload is decoded before
\* validatePoints counts them, a hand-built one is handed on as it is.
GivenPoints(m, t) ==
    /\ pc = "idle"
    /\ kind' = "points" /\ trusted' = t
    /\ Hold(m)
    /\ pc' = IF t /\ m > MaxPolylinePoints THEN "refused" ELSE "done"
    /\ UNCHANGED <<payload, counter, grid>>

-----------------------------------------------------------------------------
(* Rectangle. *)

Lower(axis) == MinOf(axis[1], axis[2])
Upper(axis) == MaxOf(axis[1], axis[2])

\* The two coordinates on an axis, the lower one first, and their span.
Ordered(axis) == <<Lower(axis), Upper(axis), Fl(Upper(axis) - Lower(axis), 1)>>

Abs(x) == IF x < 0 THEN -x ELSE x

\* validateLatLon.
OnGlobe(axis, limit) == \A d \in {1, 2} : Abs(axis[d]) <= limit

\* The corners may be given in any order.
GivenRectangle(lat, lon, t) ==
    Given("rectangle", t, <<Ordered(lat), Ordered(lon)>>,
          IF t => OnGlobe(lat, MaxLat) /\ OnGlobe(lon, MaxLon)
          THEN "expand" ELSE "refused")

\* By the smaller dimension: 1, 0.5, 0.25 or 0.1 degrees.
chooseGridStep(d) ==
    CASE d >= Grains -> Grains
      [] d < Grains /\ d >= Grains \div 2 -> Grains \div 2
      [] d < Grains \div 2 /\ d >= Grains \div 4 -> Grains \div 4
      [] OTHER -> Fl(Grains, 10)

\* math.Ceil(span / step): the quotient is rounded before its ceiling is taken.
CeilQuotient(span, step) == CeilDiv(Fl(span * Grains, step), Grains)

gridPointCount(latSpan, lonSpan, step) ==
    (CeilQuotient(latSpan, step) + 1) * (CeilQuotient(lonSpan, step) + 1)

\* How close to the upper edge is on it.
epsilon(step) == Fl(step, Tolerance)

ExpandRectangle ==
    /\ pc = "expand" /\ kind = "rectangle"
    /\ LET lat == payload[1][3]  lon == payload[2][3] IN
       IF lat = 0 /\ lon = 0 THEN Become(1, "done") /\ counter' = 0
       ELSE Become(0, "loop") /\ counter' = chooseGridStep(MinOf(lat, lon))
    /\ UNCHANGED grid

Estimate == gridPointCount(payload[1][3], payload[2][3], counter)

\* Mutant: the coarser step is lost.
DoubleStepLost ==
    /\ pc = "loop" /\ kind = "rectangle"
    /\ Estimate > maxGridPoints
    /\ UNCHANGED <<counter, grid>>
    /\ Become(0, "loop")

\* Silent coarsening.
DoubleStep ==
    /\ pc = "loop" /\ kind = "rectangle"
    /\ Estimate > maxGridPoints
    /\ counter' = 2 * counter
    /\ Become(0, "loop")
    /\ UNCHANGED grid

\* generateGrid walks along the latitudes, then along the longitudes.
WalkAlong(d, lats) ==
    grid' = [axis |-> d, v |-> payload[d][1], epsilon |-> epsilon(counter),
             lats |-> lats, vals |-> <<>>]

generateGrid ==
    /\ pc = "loop" /\ kind = "rectangle"
    /\ Estimate <= maxGridPoints
    /\ Become(0, "walk")
    /\ WalkAlong(1, <<>>)
    /\ UNCHANGED counter

upper == payload[grid.axis][2]

\* "Bounded by maxGridPoints+2 iterations": a step may be lost in the rounding.
MoreSteps ==
    /\ grid.v <= Fl(upper + grid.epsilon, 1)
    /\ Len(grid.vals) <= maxGridPoints + 1

\* What overshoots by no more than the tolerance is clamped, and the last.
Step ==
    /\ pc = "walk"
    /\ MoreSteps
    /\ grid' = [grid EXCEPT !.vals = Append(@, MinOf(grid.v, upper)),
                            !.v = Fl(@ + counter, 1)]
    /\ Become(0, IF grid.v >= upper THEN "snap" ELSE "walk")
    /\ UNCHANGED counter

StepsDone ==
    /\ pc = "walk"
    /\ ~MoreSteps
    /\ Become(0, "snap")
    /\ UNCHANGED <<counter, grid>>

\* Mutant: no boundary snap.
snappedValuesNoSnap == grid.vals

\* The last value is snapped to the upper edge, which is appended if it is not there.
snappedValues ==
    LET n == Len(grid.vals) IN
    IF n = 0 THEN <<upper>>
    ELSE IF Fl(Abs(grid.vals[n] - upper), 1) > grid.epsilon
    THEN Append(grid.vals, upper)
    ELSE [grid.vals EXCEPT ![n] = upper]

SnapLats ==
    /\ pc = "snap" /\ grid.axis = 1
    /\ WalkAlong(2, snappedValues)
    /\ Become(0, "walk")
    /\ UNCHANGED counter

SnapLons ==
    /\ pc = "snap" /\ grid.axis = 2
    /\ grid' = [grid EXCEPT !.vals = snappedValues]
    /\ Become(Len(grid.lats) * Len(snappedValues), "done")
    /\ UNCHANGED counter

-----------------------------------------------------------------------------
(* Bbox. *)

\* math.Round(a / b), for b > 0.
RoundDiv(a, b) == (2 * a + b) \div (2 * b)

\* bboxGridDimsFloat for a density of ppd / divisor.
GridDim(span, ppd, divisor) ==
    MaxOf(RoundDiv(span * ppd, Degree * divisor) + 1, 1)

GridSize(b, divisor) ==
    GridDim(b.lat, MinOf(b.density, MaxPointsPerDegree), divisor)
      * GridDim(b.lon, MinOf(b.density, MaxPointsPerDegree), divisor)

\* BboxGridDims with the default limit, for ExpandBboxToGridChecked.
CheckedFits(b) ==
    /\ b.density > 0 /\ b.density <= MaxPointsPerDegree
    /\ b.lat >= 0 /\ b.lon >= 0
    /\ GridSize(b, 1) <= MaxBboxGridPoints

\* ParseLocation leaves the density to the caller; validateBbox bounds it.
GivenBbox(lat, lon, d, t) ==
    Given("bbox", t, [lat |-> lat, lon |-> lon, density |-> d],
          IF t => lat > 0 /\ lon > 0 /\ d \in 0..MaxPointsPerDegree
          THEN "expand" ELSE "refused")

\* ExpandBboxToGrid.
ExpandBbox ==
    /\ pc = "expand" /\ kind = "bbox"
    /\ Become(0, "loop")
    /\ counter' = 1
    /\ UNCHANGED grid

MoreHalvings == counter < MaxDivisor /\ GridSize(payload, counter) > MaxBboxGridPoints

Halve ==
    /\ pc = "loop" /\ kind = "bbox"
    /\ MoreHalvings
    /\ counter' = 2 * counter
    /\ Become(0, "loop")
    /\ UNCHANGED grid

fillBboxGrid ==
    /\ pc = "loop" /\ kind = "bbox"
    /\ ~MoreHalvings
    /\ Become(IF GridSize(payload, counter) > MaxBboxGridPoints THEN 0
              ELSE GridSize(payload, counter), "done")
    /\ UNCHANGED <<counter, grid>>

\* Finite edges a span apart that is not, and a density that does not make it count as
\* one row: the halvings end at density 0, Inf * 0 is not a number, and neither are
\* the rows.  To int they convert as the platform has it: make panics or there are none.
GivenOverflow == Given("overflow", FALSE, <<>>, "expand")

ExpandOverflow ==
    /\ pc = "expand" /\ kind = "overflow"
    /\ Become(0, "done") \/ Become(0, "panicked")
    /\ UNCHANGED <<counter, grid>>

-----------------------------------------------------------------------------
(* Polygon. *)

\* The spacing at which the area holds about maxGridPoints points is given.
\* Vertices on the globe have a finite area.
GivenPolygon(vertices, outline, t) ==
    Given("polygon", t,
          [vertices |-> vertices, lat |-> outline.lat, lon |-> outline.lon,
           spacing |-> outline.spacing],
          IF t => /\ vertices <= MaxPolygonVertices /\ outline.spacing \in Nat
                  /\ outline.lat <= 2 * MaxLat /\ outline.lon <= 2 * MaxLon
          THEN "expand" ELSE "refused")

stride(total) == CeilDiv(total, maxGridPoints)

\* thinVertices keeps every stride-th vertex, and at most maxGridPoints.
thinVertices(total) == MinOf(CeilDiv(total, stride(total)), maxGridPoints)

\* All vertices are the same point.
IsOnePoint == payload.lat = 0 /\ payload.lon = 0

minPolygonGridStep == Fl(Grains, 10)
maxPolygonCandidates == 64 * maxGridPoints
polygonEdgeBudget == maxPolygonCandidates * 1000

maxCandidates(vertices) ==
    MinOf(maxPolygonCandidates,
          MaxOf(maxGridPoints, polygonEdgeBudget \div MaxOf(vertices, 1)))

ExpandPolygon ==
    /\ pc = "expand" /\ kind = "polygon"
    /\ \/ payload.vertices = 0 /\ Become(0, "done")
       \/ payload.vertices > 0 /\ IsOnePoint /\ Become(1, "done")
       \/ payload.vertices > 0 /\ ~IsOnePoint /\ Become(0, "widen")
    /\ counter' = IF payload.spacing \in Nat
                  THEN MaxOf(payload.spacing, minPolygonGridStep) ELSE 0
    /\ UNCHANGED grid

\* polygonGridStep: the candidates over the bounding box, at most so many for the
\* vertices.  A step that is not a number has always too many, an infinite one has one.
TooFine ==
    \/ payload.spacing = NaN
    \/ /\ payload.spacing \in Nat
       /\ gridPointCount(payload.lat, payload.lon, counter)
            > maxCandidates(payload.vertices)

WidenStep ==
    /\ pc = "widen" /\ kind = "polygon"
    /\ TooFine
    /\ Become(0, "widen")
    /\ counter' = IF payload.spacing = NaN THEN counter ELSE Fl(5 * counter, 4)
    /\ UNCHANGED grid

\* The step has been found; from here the passes are counted.
StepFits ==
    /\ pc = "widen" /\ kind = "polygon"
    /\ ~TooFine
    /\ Become(0, "loop")
    /\ counter' = 0
    /\ UNCHANGED grid

\* One sampling pass.  The list is reused; when it is too long the step widens.
SamplePass(inside) ==
    /\ pc = "loop" /\ kind = "polygon"
    /\ counter < MaxPasses /\ payload.spacing \in Nat
    /\ inside > maxGridPoints
    /\ Become(inside, "loop")
    /\ counter' = counter + 1
    /\ UNCHANGED grid

SampleFits(inside) ==
    /\ pc = "loop" /\ kind = "polygon"
    /\ counter < MaxPasses /\ payload.spacing \in Nat
    /\ inside \in 1..maxGridPoints
    /\ Become(inside, "done")
    /\ UNCHANGED <<counter, grid>>

\* Nothing inside, or never few enough.
SampleVertices ==
    /\ pc = "loop" /\ kind = "polygon"
    /\ Become(thinVertices(payload.vertices), "done")
    /\ UNCHANGED <<counter, grid>>

-----------------------------------------------------------------------------
(* A coordinate, or the span of a rectangle or a polygon, that is not finite: only a *)
(* location built by hand.  The radius is then not a number; an infinite one is      *)
(* clamped.                                                                          *)

GivenNotFinite(k) == Given("notfinite", FALSE, k, "expand")

ExpandNotFinite ==
    /\ pc = "expand" /\ kind = "notfinite"
    /\ Become(IF payload \in {"radius", "rectangle"} THEN 1 ELSE 0, "done")
    /\ UNCHANGED <<counter, grid>>

-----------------------------------------------------------------------------
Answer ==
    /\ pc \in {"done", "refused", "panicked"}
    /\ pc' = "idle" /\ kind' = "none" /\ trusted' = FALSE
    /\ payload' = <<>> /\ points' = 0 /\ counter' = 0 /\ grid' = NoGrid /\ peak' = 0

NewLocation ==
    /\ pc = "idle"
    /\ \/ \E r \in Radii : ParseRadius(r) \/ ManualRadius(r)
       \/ StartPolyline
       \/ \E m \in SegmentCounts, t \in BOOLEAN : GivenPoints(m, t)
       \/ \E lat \in LatAxes, lon \in LonAxes, t \in BOOLEAN : GivenRectangle(lat, lon, t)
       \/ \E lat, lon \in Spans, d \in Densities, t \in BOOLEAN :
            GivenBbox(lat, lon, d, t)
       \/ GivenOverflow
       \/ \E v \in VertexCounts, o \in Outlines, t \in BOOLEAN : GivenPolygon(v, o, t)
       \/ \E k \in {"radius", "rectangle", "bbox", "polygon"} : GivenNotFinite(k)

Expansion ==
    \/ ExpandRadius \/ Ring \/ RingsDone
    \/ ExpandRectangle \/ DoubleStep \/ generateGrid
    \/ Step \/ StepsDone \/ SnapLats \/ SnapLons
    \/ ExpandBbox \/ Halve \/ fillBboxGrid \/ ExpandOverflow
    \/ ExpandPolygon \/ WidenStep \/ StepFits \/ SampleVertices \/ ExpandNotFinite
    \/ \E inside \in InsideCounts : SamplePass(inside) \/ SampleFits(inside)

ExpansionNext ==
    \/ NewLocation
    \/ PointSegment \/ LastSegment
    \/ \E count \in SegmentCounts : GeneratedSegment(count)
    \/ Expansion
    \/ Answer

ExpansionSpec == ExpansionInit /\ [][ExpansionNext]_expansionVars

\* The expansion is a straight piece of sequential code.
FairExpansionSpec == ExpansionSpec /\ WF_expansionVars(Expansion)

-----------------------------------------------------------------------------
(* The inductive invariant: what every kind of location keeps on its way. *)

PhaseInv ==
    /\ pc = "idle" <=> kind = "none"
    /\ pc = "idle" => peak = 0
    /\ pc = "parse" => kind = "polyline"
    /\ pc \in {"walk", "snap"} => kind = "rectangle"

\* k rings are laid out, and no more than the radius asks for.
RingInv(k) == counter = 3 * k /\ 2 * points = 3 * k * (k + 1) /\ counter <= maxKm + 3

RadiusInv ==
    /\ payload \in Int
    /\ pc = "loop" => payload >= 2 * radiusRingStepKm /\ \E k \in 0..counter : RingInv(k)
    /\ pc = "done" => \/ payload < 2 * radiusRingStepKm /\ points = 1
                      \/ /\ payload >= 2 * radiusRingStepKm
                         /\ counter > maxKm /\ \E k \in 0..counter : RingInv(k)

PolylineInv ==
    /\ pc \in {"parse", "done"} => points <= MaxPolylinePoints
    /\ pc = "done" => points > 0
    /\ pc \in {"expand", "loop"} => FALSE
    /\ peak <= 2 * MaxPolylinePoints

PointsInv ==
    /\ pc \in {"done", "refused"}
    /\ pc = "done" => points <= MaxPolylinePoints \/ ~trusted

\* The walk along an axis appends at most maxGridPoints + 2 values, and the edge.
AxisLimit == maxGridPoints + 3

RectangleInv ==
    /\ payload \in (Int \X Int \X Int) \X (Int \X Int \X Int)
    /\ pc \in {"walk", "snap"} =>
         /\ grid \in [axis : {1, 2}, v : Int, epsilon : Int, lats : Seq(Int), vals : Seq(Int)]
         /\ Len(grid.vals) <= maxGridPoints + 2
         /\ grid.axis = 2 => Len(grid.lats) \in 1..AxisLimit
    /\ pc = "done" => points \in 1..AxisLimit * AxisLimit

BboxInv ==
    /\ payload \in [lat : Spans, lon : Spans, density : Densities]
    /\ pc \in {"loop", "done"} => counter > 0 /\ (CheckedFits(payload) => counter = 1)
    /\ pc = "done" => /\ points = GridSize(payload, counter)
                      /\ points \in 1..MaxBboxGridPoints

PolygonInv ==
    /\ payload \in [vertices : Nat, lat : Nat, lon : Nat, spacing : Nat \cup {NaN, Inf}]
    /\ pc \in {"widen", "loop"} => payload.vertices > 0
    /\ pc = "done" => points <= maxGridPoints /\ (payload.vertices > 0 => points > 0)

ExpansionInv ==
    /\ ExpansionTypeOK /\ PhaseInv
    /\ kind = "radius" => RadiusInv
    /\ kind = "polyline" => PolylineInv
    /\ kind = "points" => PointsInv
    /\ kind = "rectangle" => RectangleInv
    /\ kind = "bbox" => BboxInv
    /\ kind = "polygon" => PolygonInv
    /\ kind = "overflow" => ~trusted /\ (pc = "done" => points = 0)
    /\ kind = "notfinite" => (pc = "done" => points <= 1)
    /\ pc = "panicked" => kind = "overflow"

-----------------------------------------------------------------------------
Cap(k) ==
    CASE k = "radius" -> MaxExpandedRadiusPoints
      [] k \in {"polyline", "points"} -> MaxPolylinePoints
      [] k = "rectangle" -> AxisLimit * AxisLimit
      [] k = "polygon" -> maxGridPoints
      [] k = "bbox" -> MaxBboxGridPoints
      [] k \in {"overflow", "notfinite"} -> 1

\* However absurd the location, parsed or built by hand, it never expands to more
\* than its cap; only a hand-built list of points has none.  The cap of a rectangle is
\* (maxGridPoints+3)^2: where the steps of a hand-built one are lost in the rounding,
\* the walk along each axis stops at the bound of its loop.  No radius, polyline, rectangle,
\* bbox or polygon expands to nothing, unless it has no vertices or is not finite, and
\* only a hand-built bbox whose span overflows can panic.  While a polyline is read,
\* however many segments are chained and also when it is refused in the end, no more
\* than twice the cap is held ("bounds the peak allocation at 2*MaxPolylinePoints").
ExpansionWithinCap ==
    /\ pc = "done" => points <= Cap(kind) \/ (kind = "points" /\ ~trusted)
    /\ pc = "done" /\ kind \in {"radius", "polyline", "rectangle", "bbox"} => points > 0
    /\ pc = "done" /\ kind = "polygon" /\ payload.vertices > 0 => points > 0
    /\ pc = "panicked" => kind = "overflow" /\ ~trusted
    /\ kind = "polyline" => peak <= 2 * MaxPolylinePoints

\* The circle is never cut short: MaxExpandedRadiusPoints is out of reach at
\* MaxRadiusKm, so every ring up to the radius is there, and the pre-allocated
\* capacity is exactly what the rings need.
CircleIsComplete ==
    pc = "done" /\ kind = "radius" /\ payload >= 2 * radiusRingStepKm =>
        counter > maxKm /\ points = capacity

\* The checked expansion and the deprecated one agree: a grid the first accepts is the
\* one the second produces, at full density.
CheckedGridIsProduced ==
    pc = "done" /\ kind = "bbox" /\ CheckedFits(payload) =>
        counter = 1 /\ points = GridSize(payload, 1)

\* The estimate that decides on the coarsening of a parsed rectangle is never less than
\* what the grid has, and along an axis at most one more: the rounded quotient may
\* count a step that the walk's tolerance takes back.  The grid ends on the upper edges
\* and starts on the lower ones, unless a span is within the tolerance; no gap is wider
\* than the step, and none so narrow that a corner is there twice (BUG-003).  The same
\* for the two expansions of a bbox.
GridMatchesEstimate ==
    /\ pc = "done" /\ kind = "rectangle" /\ trusted /\ counter # 0 =>
        /\ points <= Estimate /\ Estimate <= maxGridPoints
        /\ \A d \in {1, 2} :
             LET vals == <<grid.lats, grid.vals>>[d]  eps == grid.epsilon
                 estimated == CeilQuotient(payload[d][3], counter) + 1
             IN
             /\ Len(vals) \in {estimated - 1, estimated}
             /\ vals[Len(vals)] = payload[d][2]
             /\ vals[1] = payload[d][1] \/ payload[d][2] - payload[d][1] <= eps
             /\ \A j \in 1..Len(vals) - 1 :
                  vals[j + 1] - vals[j] \in eps + 1..counter + eps
    /\ CheckedGridIsProduced

\* A polygon with vertices so far apart that the terms of its area overflow with both
\* signs: the step is not a number, and widening it does not help.
NoArea == kind = "polygon" /\ payload.spacing = NaN

\* Halving, doubling and widening come to an end, except where there is no area.
ExpansionEnds == [](pc = "expand" /\ ~NoArea => <>(pc \in {"done", "panicked"}))
=============================================================================
