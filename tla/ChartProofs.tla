---------------------------- MODULE ChartProofs ----------------------------
(***************************************************************************)
(* Proofs about ChartSpec: resolved axes hold their data, the stripes      *)
(* behind the marks show the status of the values, and what is resolved    *)
(* once is resolved for good.  ShapeInv relates every resolved panel to    *)
(* the given one and carries the first two; SlotInv (the slots dealt are   *)
(* those of the series left to the palette, one each) and PriorInv (the    *)
(* spec that is given again is settled and valid) carry the third.         *)
(***************************************************************************)
EXTENDS ChartSpec, FiniteSetTheorems, TLAPS

(* The inductive invariant. *)

\* The values of a panel are within Reach, and so are its pins, unless both come from
\* an axis that was resolved before.
Wide == 5 * (Reach + Unit)
Within(v) == v \in Readings
PinsOf(p) ==
    \/ Within(p.min) /\ Within(p.max)
    \/ p.min \in -Wide..Wide /\ p.max \in -Wide..Wide /\ p.min < p.max
PinsInv == \A i \in DOMAIN panels : PinsOf(panels[i])

\* Where the pc is, what has been found valid and what has been resolved.
PhaseInv ==
    /\ pc \in {"resolve", "done"} => Valid
    /\ pc \in {"edit", "refused"} => out = <<>> /\ slot = 0
    /\ pc = "done" => Len(out) = Len(panels)

\* The slots dealt so far belong to the series left to the palette.
Free(i, j) == panels[i].series[j].slot = 0
DealtTo == {ij \in Places(panels) : ij[1] <= Len(out) /\ Free(ij[1], ij[2])}

SlotInv ==
    /\ slot = Cardinality(DealtTo)
    /\ \A a \in DealtTo : out[a[1]].series[a[2]].slot \in 1..slot
    /\ \A a, b \in DealtTo :
         a # b => out[a[1]].series[a[2]].slot # out[b[1]].series[b[2]].slot

\* Panel.resolveY, resolveBands and the painted series: q is what p resolves to, but
\* for the slots that p leaves to the palette.
ResolvedFrom(q, p) ==
    /\ [min |-> q.min, max |-> q.max, zero |-> q.zero, ticks |-> q.ticks] = resolveY(p)
    /\ q.show = p.show /\ q.bands = resolveBands(p)
    /\ DOMAIN q.series = DOMAIN p.series
    /\ \A j \in DOMAIN p.series :
         /\ q.series[j] = [p.series[j] EXCEPT !.slot = q.series[j].slot,
                                              !.unit = EffectiveUnit(p.series[j]),
                                              !.mark = EffectiveMark(p.series[j])]
         /\ p.series[j].slot # 0 => q.series[j].slot = p.series[j].slot

OutInv ==
    \A i \in DOMAIN out :
        /\ ResolvedFrom(out[i], panels[i])
        /\ out[i].min \in -Wide..Wide /\ out[i].max \in -Wide..Wide
        /\ out[i].min < out[i].max

\* The end of an axis from t0 on.
EndFrom(t0, t1) == IF t1 > t0 THEN t1 ELSE t0 + 60 * Minute

\* The exact ends of an axis, of which it keeps the milliseconds and the ticks.
EndsOf(axis, t0, t1) ==
    /\ t0 < t1
    /\ axis = [t0 |-> InMillis(t0), t1 |-> InMillis(t1), ticks |-> timeTicks(t0, t1)]
    /\ xpins[1] # Nil => t0 = InMillis(xpins[1])
    /\ xpins[2] # Nil => t1 = EndFrom(t0, InMillis(xpins[2]))
    /\ WholeTimes => InMillis(t0) = t0 /\ InMillis(t1) = t1

\* The time axis and the rose of a chart that is done.
AxisInv ==
    pc = "done" /\ kind # "windrose" => \E t0, t1 \in Nat : EndsOf(x, t0, t1)

RoseInv ==
    /\ pc = "done" /\ kind = "windrose" =>
         x = NoAxis /\ rose = resolveRose(opts, panels[1].series[1].points)
    /\ pc = "done" /\ kind # "windrose" => rose = NoRose
    /\ pc # "done" => x = NoAxis /\ rose = NoRose
    /\ kind # "windrose" => opts = NoOptions

ShapeInv == TypeOK /\ PinsInv /\ PhaseInv /\ OutInv /\ AxisInv /\ RoseInv

\* A panel that resolves to itself.
Settled(p) ==
    /\ p.min \in Int /\ p.max \in Int /\ p.min < p.max
    /\ \A j \in DOMAIN p.series :
         /\ p.series[j].slot \in 1..maxSeries
         /\ EffectiveUnit(p.series[j]) = p.series[j].unit
         /\ EffectiveMark(p.series[j]) = p.series[j].mark
         /\ Parameter(p.series[j].param).zero => p.zero
    /\ resolveBands(p) = p.bands

\* The options of a rose, and the ends of an axis, that need no default any more.
SettledOptions ==
    /\ opts.sectors # 0 /\ opts.bands # <<>> /\ opts.calmBelow # 0
    /\ Last(prior).rose = Rose(opts.sectors, opts.bands, opts.calmBelow,
                               panels[1].series[1].points)

Twice == Len(prior) = 2

SettledAxis ==
    /\ xpins[1] \in Nat /\ xpins[2] \in Nat /\ xpins[1] <= xpins[2]
    /\ InMillis(xpins[1]) = xpins[1] /\ InMillis(xpins[2]) = xpins[2]
    /\ Last(prior).x.t0 = xpins[1] /\ Last(prior).x.t1 = xpins[2]
    /\ WholeTimes \/ Twice =>
         /\ xpins[1] < xpins[2]
         /\ Last(prior).x = [t0 |-> xpins[1], t1 |-> xpins[2],
                             ticks |-> timeTicks(xpins[1], xpins[2])]

DefaultRose == kind = "windrose" /\ opts.sectors = defaultSectors

\* The ticks of a panel that both ends are pinned of.
TicksOf(p) == numericTicks(p.min, p.max, niceStep(p.max - p.min))

\* What the panels q, resolved, give as panels p.
GivenAgain(q, p) ==
    /\ q \in Seq(ResolvedType) /\ DOMAIN q = DOMAIN p
    /\ \A i \in DOMAIN p : p[i] = Panel(q[i].series, q[i]) /\ Settled(p[i])
    /\ Twice => \A i \in DOMAIN p : q[i].ticks = TicksOf(p[i])

\* What the second and the third Resolved of a spec start from.
PriorInv ==
    /\ \/ prior = <<>>
       \/ \E a : prior = <<a>>
       \/ \E a, b : prior = <<a, b>>
    /\ prior # <<>> =>
        /\ GivenAgain(Last(prior).panels, panels)
        /\ kind = "windrose" => SettledOptions /\ Last(prior).x = NoAxis
        /\ kind # "windrose" => SettledAxis /\ Last(prior).rose = NoRose
        /\ pc = "edit" => Valid \/ DefaultRose
        /\ pc = "refused" => DefaultRose

Inv == ShapeInv /\ SlotInv /\ PriorInv

-----------------------------------------------------------------------------
(* The least and the greatest element. *)

\* A set of finite subsets has one that includes no other.
LEMMA MinimalSubset ==
    ASSUME NEW S, IsFiniteSet(S), NEW C, \A T \in C : T \subseteq S, C # {}
    PROVE  \E T \in C : \A U \in C : U \subseteq T => U = T
  <1> DEFINE R == StrictSubsetOrdering(S)
  <1>1. IsWellFoundedOn(R, FiniteSubsetsOf(S))
    BY FS_StrictSubsetOrderingWellFounded
  <1>2. C \subseteq FiniteSubsetsOf(S)
    BY FS_FiniteSubsetsOfFinite
  <1> HIDE DEF R
  <1>3. PICK T \in C : \A U \in C : <<U, T>> \notin R
    BY <1>1, <1>2, WFMin
  <1>4. ASSUME NEW U \in C, U \subseteq T, U # T
        PROVE  FALSE
    <2>1. <<U, T>> \in R
      BY <1>4 DEF R, StrictSubsetOrdering
    <2>2. QED
      BY <1>3, <2>1
  <1>5. QED
    BY <1>4

\* The element with the fewest elements above it has none above it.
LEMMA MaxIs ==
    ASSUME NEW S \in SUBSET Int, IsFiniteSet(S), S # {}
    PROVE  Max(S) \in S /\ \A y \in S : y <= Max(S)
  <1> DEFINE Above(v) == {y \in S : y > v}
             C == {Above(v) : v \in S}
  <1>1. C # {} /\ \A T \in C : T \subseteq S
    OBVIOUS
  <1> HIDE DEF C
  <1>2. PICK T \in C : \A U \in C : U \subseteq T => U = T
    BY <1>1, MinimalSubset
  <1> USE DEF C
  <1>3. PICK v \in S : T = Above(v)
    BY <1>2
  <1>4. ASSUME NEW w \in S, w > v
        PROVE  FALSE
    <2>1. ~(w > w) /\ \A y \in S : y > w => y > v
      BY <1>4
    <2>2. Above(w) \subseteq Above(v) /\ w \in Above(v) /\ w \notin Above(w)
      BY <1>4, <2>1, Zenon
    <2>3. Above(w) \in C
      OBVIOUS
    <2>4. QED
      BY <1>2, <1>3, <2>2, <2>3
  <1>5. \A y \in S : v >= y
    BY <1>4
  <1>6. QED
    BY <1>5 DEF Max

LEMMA MinIs ==
    ASSUME NEW S \in SUBSET Int, IsFiniteSet(S), S # {}
    PROVE  Min(S) \in S /\ \A y \in S : Min(S) <= y
  <1> DEFINE Below(v) == {y \in S : y < v}
             C == {Below(v) : v \in S}
  <1>1. C # {} /\ \A T \in C : T \subseteq S
    OBVIOUS
  <1> HIDE DEF C
  <1>2. PICK T \in C : \A U \in C : U \subseteq T => U = T
    BY <1>1, MinimalSubset
  <1> USE DEF C
  <1>3. PICK v \in S : T = Below(v)
    BY <1>2
  <1>4. ASSUME NEW w \in S, w < v
        PROVE  FALSE
    <2>1. ~(w < w) /\ \A y \in S : y < w => y < v
      BY <1>4
    <2>2. Below(w) \subseteq Below(v) /\ w \in Below(v) /\ w \notin Below(w)
      BY <1>4, <2>1, Zenon
    <2>3. Below(w) \in C
      OBVIOUS
    <2>4. QED
      BY <1>2, <1>3, <2>2, <2>3
  <1>5. \A y \in S : v <= y
    BY <1>4
  <1>6. QED
    BY <1>5 DEF Min

-----------------------------------------------------------------------------
(* Division. *)

LEMMA DivMod ==
    ASSUME NEW a \in Int, NEW b \in Nat \ {0}
    PROVE  /\ a \div b \in Int /\ a % b \in 0..(b - 1)
           /\ a = (a \div b) * b + (a % b)
           /\ (a \div b) * b \in Int
           /\ (a \div b) * b <= a /\ a < (a \div b) * b + b
  OBVIOUS

LEMMA Scaled ==
    ASSUME NEW j \in Int, NEW k \in Int, NEW b \in Nat \ {0}, j < k
    PROVE  j * b + b <= k * b
  OBVIOUS

\* A quotient is not above a bound whose successor times the divisor is out of reach.
LEMMA QuotientAtMost ==
    ASSUME NEW a \in Int, NEW b \in Nat \ {0}, NEW k \in Int, a < k * b + b
    PROVE  a \div b <= k
  <1> DEFINE d == a \div b
  <1>1. d \in Int /\ d * b <= a /\ d * b \in Int
    BY DivMod
  <1>2. k * b \in Int
    OBVIOUS
  <1>3. k < d => k * b + b <= d * b
    BY <1>1, Scaled
  <1> HIDE DEF d
  <1>4. d <= k
    BY <1>1, <1>2, <1>3
  <1>5. QED
    BY <1>4 DEF d

LEMMA QuotientAtLeast ==
    ASSUME NEW a \in Int, NEW b \in Nat \ {0}, NEW k \in Int, k * b <= a
    PROVE  k <= a \div b
  <1> DEFINE d == a \div b
  <1>1. d \in Int /\ a < d * b + b /\ d * b \in Int
    BY DivMod
  <1>2. k * b \in Int
    OBVIOUS
  <1>3. d < k => d * b + b <= k * b
    BY <1>1, Scaled
  <1> HIDE DEF d
  <1>4. k <= d
    BY <1>1, <1>2, <1>3
  <1>5. QED
    BY <1>4 DEF d

LEMMA FloorIs ==
    ASSUME NEW v \in Int, NEW s \in Nat \ {0}
    PROVE  /\ Floor(v, s) \in Int
           /\ Floor(v, s) <= v /\ v < Floor(v, s) + s
           /\ \E k \in Int : Floor(v, s) = k * s
  BY DivMod DEF Floor

LEMMA CeilIs ==
    ASSUME NEW v \in Int, NEW s \in Nat \ {0}
    PROVE  /\ Ceil(v, s) \in Int
           /\ v <= Ceil(v, s) /\ Ceil(v, s) < v + s
           /\ \E k \in Int : Ceil(v, s) = k * s
  <1> DEFINE d == (-v) \div s
  <1>1. /\ d \in Int /\ d * s \in Int
        /\ d * s <= -v /\ -v < d * s + s
    BY DivMod
  <1> HIDE DEF d
  <1>2. -(d * s) = (-d) * s /\ -d \in Int
    BY <1>1
  <1>3. Ceil(v, s) = -(d * s)
    BY <1>1 DEF Ceil, d
  <1>4. QED
    BY <1>1, <1>2, <1>3

-----------------------------------------------------------------------------
(* Round steps and domains. *)

\* The greatest distance of a value, or of the default domain, from zero.
Bound == Reach + Unit

LEMMA Constants ==
    /\ targetTicks \in Nat /\ 3 <= targetTicks /\ targetTicks + 2 <= maxTicks
    /\ maxTicks = 65
    /\ Unit \in Nat \ {0} /\ Reach \in Nat /\ Bound \in Nat \ {0}
    /\ Nil \notin Int
    /\ Unit <= Bound /\ Reach <= Bound
  BY ScaleAssumption DEF Bound, maxTicks

LEMMA NiceStepsAre ==
    /\ NiceSteps \subseteq Nat \ {0}
    /\ \A p \in Decades : p \in NiceSteps /\ 2 * p \in NiceSteps /\ 5 * p \in NiceSteps
    /\ \A s \in NiceSteps : \E p \in Decades : s = p \/ s = 2 * p \/ s = 5 * p
  <1>1. Decades \subseteq Nat \ {0}
    BY DecadeAssumption
  <1>2. \A p \in Decades : 1 * p = p /\ p \in Nat \ {0} /\ 2 * p \in Nat \ {0} /\ 5 * p \in Nat \ {0}
    BY <1>1
  <1>3. QED
    BY <1>2 DEF NiceSteps

\* There is a step for every span, it is no finer than targetTicks parts of it need,
\* and it is not longer than the span.
LEMMA NiceStepIs ==
    ASSUME NEW span \in Nat \ {0}, span <= 20 * Bound
    PROVE  /\ niceStep(span) \in Nat \ {0}
           /\ niceStep(span) * targetTicks \in Nat
           /\ span <= niceStep(span) * targetTicks
           /\ niceStep(span) <= span
  <1> DEFINE T == targetTicks
             Enough == {s \in NiceSteps : s * T >= span}
  <1>1. T \in Nat /\ 3 <= T
    BY Constants
  <1> HIDE DEF T
  <1>2. \A s \in NiceSteps : s \in Nat \ {0} /\ s * T \in Nat
    BY <1>1, NiceStepsAre
  <1>3. PICK p \in Decades : p >= 20 * Bound /\ p \in Nat \ {0} /\ p \in NiceSteps
    BY DecadeAssumption, NiceStepsAre DEF Bound
  <1>4. p \in Enough
    <2>1. p * T >= p
      BY <1>1, <1>3
    <2>2. QED
      BY <1>2, <1>3, <2>1, Constants
  <1>5. \E m \in Enough : \A r \in Enough : m <= r
    <2>0. \A s \in Enough : s \in Nat \ {0}
      BY <1>2
    <2> HIDE DEF Enough
    <2> DEFINE Low == {s \in Enough : s <= p}
    <2>1. Low \in SUBSET (1..p)
      BY <2>0, <1>3
    <2>2. IsFiniteSet(Low)
      <3> HIDE DEF Low
      <3>1. IsFiniteSet(1..p)
        BY <1>3, FS_Interval
      <3>2. QED
        BY <2>1, <3>1, FS_Subset
    <2>3. p \in Low /\ Low \in SUBSET Int
      BY <1>3, <1>4, <2>1
    <2> HIDE DEF Low
    <2>4. Min(Low) \in Low /\ \A r \in Low : Min(Low) <= r
      BY <2>2, <2>3, MinIs
    <2>5. Min(Low) \in Enough /\ Min(Low) <= p
      BY <2>4 DEF Low
    <2>6. \A r \in Enough : r \notin Low => r > p
      BY <2>0, <1>3 DEF Low
    <2>7. \A r \in Enough : Min(Low) <= r
      BY <2>0, <1>3, <2>4, <2>5, <2>6
    <2>8. QED
      BY <2>5, <2>7
  <1>6. PICK s \in Enough : s = niceStep(span) /\ \A r \in Enough : s <= r
    <2>1. PICK m \in NiceSteps : m * T >= span /\ \A r \in NiceSteps : r * T >= span => m <= r
      BY <1>5
    <2>2. niceStep(span) \in Enough /\ \A r \in Enough : niceStep(span) <= r
      BY <2>1 DEF niceStep, T
    <2>3. QED
      BY <2>2
  <1>7. s \in Nat \ {0} /\ s * T \in Nat /\ s * T >= span
    BY <1>2, <1>6
  <1>8. \A r \in NiceSteps : r < s => r * T < span
    BY <1>2, <1>6, <1>7
  <1>9. \A r \in Nat : 3 * r <= r * T
    BY <1>1
  <1>10. \A r \in NiceSteps : r < s => 3 * r < span
    <2>1. \A r \in NiceSteps : r \in Nat /\ r * T \in Nat /\ 3 * r <= r * T
      BY <1>2, <1>9
    <2>2. QED
      BY <1>8, <2>1
  <1>11. s <= span
    <2>1. PICK q \in Decades : s = q \/ s = 2 * q \/ s = 5 * q
      BY <1>6, NiceStepsAre
    <2>2. q \in Nat \ {0} /\ q \in NiceSteps /\ 2 * q \in NiceSteps
      BY DecadeAssumption, NiceStepsAre
    <2>3. CASE s = 5 * q
      BY <1>10, <2>2, <2>3
    <2>4. CASE s = 2 * q
      BY <1>10, <2>2, <2>4
    <2>5. CASE s = q
      <3>1. CASE q = 1
        BY <2>5, <3>1
      <3>2. CASE q # 1
        <4>1. PICK w \in Decades : q = 10 * w
          BY <3>2, DecadeAssumption
        <4>2. w \in Nat \ {0} /\ 5 * w \in NiceSteps
          BY DecadeAssumption, NiceStepsAre
        <4>3. QED
          BY <1>10, <2>5, <4>1, <4>2
      <3>3. QED
        BY <3>1, <3>2
    <2>6. QED
      BY <2>1, <2>3, <2>4, <2>5
  <1>12. QED
    BY <1>6, <1>7, <1>11 DEF T

\* The ticks of an axis that is some whole number of steps long, or is not.
LEMMA NumericTicksAre ==
    ASSUME NEW lo \in Int, NEW hi \in Int, NEW step \in Nat \ {0}, NEW k \in 1..maxTicks - 1,
           k * step <= hi - lo, hi - lo < k * step + step
    PROVE  LET ticks == numericTicks(lo, hi, step)
           IN  /\ ticks \in Seq(Int) /\ Len(ticks) = k + 1
               /\ ticks[1] = lo /\ Last(ticks) = lo + k * step
  <1>1. maxTicks = 65 /\ k \in Nat \ {0} /\ k + 1 <= maxTicks
    BY DEF maxTicks
  <1>2. hi - lo \in Int /\ k * step \in Int
    BY <1>1
  <1>3. (hi - lo) \div step = k
    <2>1. (hi - lo) \div step \in Int
      BY <1>2, DivMod
    <2>2. (hi - lo) \div step <= k
      BY <1>1, <1>2, QuotientAtMost
    <2>3. k <= (hi - lo) \div step
      BY <1>1, <1>2, QuotientAtLeast
    <2>4. QED
      BY <1>1, <2>1, <2>2, <2>3
  <1>4. MinOf((hi - lo) \div step + 1, maxTicks) = k + 1
    BY <1>1, <1>3 DEF MinOf
  <1>5. numericTicks(lo, hi, step) = [n \in 1..k + 1 |-> lo + (n - 1) * step]
    BY <1>4 DEF numericTicks
  <1> DEFINE ticks == [n \in 1..k + 1 |-> lo + (n - 1) * step]
  <1>6. ticks \in Seq(Int) /\ Len(ticks) = k + 1
    BY <1>1
  <1>7. ticks[1] = lo /\ ticks[k + 1] = lo + k * step
    BY <1>1
  <1> HIDE DEF ticks
  <1>8. Last(ticks) = ticks[k + 1]
    BY <1>6 DEF Last
  <1>9. QED
    BY <1>5, <1>6, <1>7, <1>8 DEF ticks

\* A domain that is widened to whole steps: few of them, although the step was chosen
\* for the narrower one.
LEMMA WholeSteps ==
    ASSUME NEW lo \in Int, NEW hi \in Int, lo < hi, hi - lo <= 2 * Bound,
           -(2 * Bound) <= lo, hi <= 2 * Bound
    PROVE  LET step == niceStep(hi - lo)
           IN  /\ step \in Nat \ {0}
               /\ Floor(lo, step) \in Int /\ Ceil(hi, step) \in Int
               /\ Floor(lo, step) <= lo /\ hi <= Ceil(hi, step)
               /\ -(4 * Bound) <= Floor(lo, step) /\ Ceil(hi, step) <= 4 * Bound
               /\ \E k \in 1..targetTicks + 1 : Ceil(hi, step) - Floor(lo, step) = k * step
  <1> DEFINE step == niceStep(hi - lo)
             T == targetTicks
             a == Floor(lo, step)
             b == Ceil(hi, step)
  <1>1. Bound \in Nat \ {0} /\ T \in Nat
    BY Constants
  <1>2. hi - lo \in Nat \ {0} /\ hi - lo <= 20 * Bound
    BY <1>1
  <1>3. step \in Nat \ {0} /\ step * T \in Nat /\ hi - lo <= step * T /\ step <= hi - lo
    BY <1>2, NiceStepIs
  <1> HIDE DEF step, T
  <1>4. PICK i \in Int : a = i * step
    BY <1>3, FloorIs
  <1>5. a \in Int /\ a <= lo /\ lo < a + step
    BY <1>3, FloorIs
  <1>6. PICK j \in Int : b = j * step
    BY <1>3, CeilIs
  <1>7. b \in Int /\ hi <= b /\ b < hi + step
    BY <1>3, CeilIs
  <1> HIDE DEF a, b
  <1>8. b - a = (j - i) * step /\ j - i \in Int
    BY <1>3, <1>4, <1>6
  <1>9. 0 < b - a
    BY <1>5, <1>7
  <1>10. b - a < (T + 2) * step
    <2>1. (T + 2) * step = step * T + 2 * step
      BY <1>1, <1>3
    <2>2. 2 * step = step + step
      BY <1>3
    <2>3. QED
      BY <1>1, <1>3, <1>5, <1>7, <2>1, <2>2
  <1>11. j - i \in 1..T + 1
    <2> DEFINE k == j - i
    <2>1. k \in Int
      BY <1>8
    <2> HIDE DEF k
    <2>2. \A n \in Int : k <= n => k * step <= n * step
      BY <1>3, <2>1
    <2>3. k * step \in Int /\ (T + 2) * step \in Int /\ 0 * step = 0
      BY <1>1, <1>3, <2>1
    <2>4. 0 < k * step /\ k * step < (T + 2) * step
      BY <1>8, <1>9, <1>10 DEF k
    <2>5. ~(k <= 0)
      BY <2>2, <2>3, <2>4
    <2>6. \A n \in Int : n <= k => n * step <= k * step
      BY <1>3, <2>1
    <2>7. ~(T + 2 <= k)
      BY <1>1, <2>3, <2>4, <2>6
    <2>8. k \in 1..T + 1
      BY <1>1, <2>1, <2>5, <2>7
    <2>9. QED
      BY <2>8 DEF k
  <1>12. -(4 * Bound) <= a /\ b <= 4 * Bound
    BY <1>1, <1>3, <1>5, <1>7
  <1>13. QED
    BY <1>3, <1>5, <1>7, <1>8, <1>11, <1>12 DEF a, b, step, T

LEMMA NiceDomainIs ==
    ASSUME NEW lo0 \in -Bound..Bound, NEW hi0 \in -Bound..Bound, lo0 <= hi0, NEW zero \in BOOLEAN
    PROVE  LET d == niceDomain(lo0, hi0, zero)
           IN  /\ d.lo \in Int /\ d.hi \in Int /\ d.step \in Nat \ {0}
               /\ d.lo <= lo0 /\ hi0 <= d.hi
               /\ zero => d.lo <= 0 /\ 0 <= d.hi
               /\ -(4 * Bound) <= d.lo /\ d.hi <= 4 * Bound
               /\ \E k \in 1..targetTicks + 1 : d.hi - d.lo = k * d.step
  <1> DEFINE lo1 == IF zero THEN MinOf(lo0, 0) ELSE lo0
             hi1 == IF zero THEN MaxOf(hi0, 0) ELSE hi0
             m == MaxOf(hi1, -hi1)
             pad == IF lo1 # hi1 THEN 0 ELSE MaxOf(m \div 10, Unit)
             lo == lo1 - pad
             hi == hi1 + pad
  <1>1. Bound \in Nat \ {0} /\ Unit \in Nat \ {0} /\ Unit <= Bound
    BY Constants
  <1>2. /\ lo1 \in Int /\ hi1 \in Int /\ lo1 <= hi1
        /\ -Bound <= lo1 /\ hi1 <= Bound
        /\ lo1 <= lo0 /\ hi0 <= hi1
        /\ zero => lo1 <= 0 /\ 0 <= hi1
    BY <1>1 DEF MinOf, MaxOf
  <1> HIDE DEF lo1, hi1
  <1>3. m \in Nat /\ m <= Bound
    BY <1>1, <1>2 DEF MaxOf
  <1> HIDE DEF m
  <1>4. m \div 10 \in Int /\ m \div 10 <= Bound
    BY <1>1, <1>3
  <1>5. pad \in Nat /\ pad <= Bound /\ (lo1 = hi1 => pad > 0) /\ (lo1 # hi1 => pad = 0)
    BY <1>1, <1>4 DEF MaxOf
  <1> HIDE DEF pad
  <1>6. /\ lo \in Int /\ hi \in Int /\ lo < hi /\ hi - lo <= 2 * Bound
        /\ -(2 * Bound) <= lo /\ hi <= 2 * Bound
        /\ lo <= lo1 /\ hi1 <= hi
    BY <1>1, <1>2, <1>5
  <1> DEFINE step == niceStep(hi - lo)
  <1>7. niceDomain(lo0, hi0, zero) = [lo |-> Floor(lo, step), hi |-> Ceil(hi, step), step |-> step]
    BY DEF niceDomain, lo1, hi1, pad, m
  <1> HIDE DEF lo, hi
  <1>8. /\ step \in Nat \ {0}
        /\ Floor(lo, step) \in Int /\ Ceil(hi, step) \in Int
        /\ Floor(lo, step) <= lo /\ hi <= Ceil(hi, step)
        /\ -(4 * Bound) <= Floor(lo, step) /\ Ceil(hi, step) <= 4 * Bound
        /\ \E k \in 1..targetTicks + 1 : Ceil(hi, step) - Floor(lo, step) = k * step
    BY <1>6, WholeSteps
  <1> HIDE DEF step
  <1> DEFINE d == niceDomain(lo0, hi0, zero)
  <1>9. d.lo = Floor(lo, step) /\ d.hi = Ceil(hi, step) /\ d.step = step
    BY <1>7
  <1> HIDE DEF d
  <1>10. d.lo <= lo0 /\ hi0 <= d.hi /\ (zero => d.lo <= 0 /\ 0 <= d.hi)
    BY <1>2, <1>6, <1>8, <1>9
  <1>11. QED
    BY <1>8, <1>9, <1>10 DEF d

-----------------------------------------------------------------------------
(* The y axis of a panel. *)

LEMMA ExtentIs ==
    ASSUME NEW series \in Seq(SeriesType)
    PROVE  /\ seriesExtent(series) \in SUBSET Int
           /\ \A v \in seriesExtent(series) : -Reach <= v /\ v <= Reach
           /\ IsFiniteSet(seriesExtent(series))
  <1> DEFINE ext == seriesExtent(series)
  <1>1. Reach \in Nat
    BY Constants
  <1>2. ASSUME NEW v \in ext
        PROVE  v \in -Reach..Reach
    <2>1. v # Nil /\ v # NotFinite
      BY DEF seriesExtent
    <2>2. PICK j \in DOMAIN series : \E k \in DOMAIN series[j].points :
              v \in {series[j].points[k].v, series[j].points[k].lo, series[j].points[k].hi}
      BY DEF seriesExtent
    <2>3. PICK k \in DOMAIN series[j].points :
              v \in {series[j].points[k].v, series[j].points[k].lo, series[j].points[k].hi}
      BY <2>2
    <2>4. series[j] \in SeriesType
      OBVIOUS
    <2>5. series[j].points \in Seq(Points)
      BY <2>4 DEF SeriesType
    <2>6. series[j].points[k] \in Points
      BY <2>5
    <2>7. v \in Values
      BY <2>3, <2>6 DEF Points
    <2>8. QED
      BY <2>1, <2>7 DEF Values, Readings, OrNil
  <1> HIDE DEF ext
  <1>3. ext \in SUBSET (-Reach..Reach)
    BY <1>2
  <1>4. IsFiniteSet(-Reach..Reach)
    BY <1>1, FS_Interval
  <1>5. IsFiniteSet(ext)
    BY <1>3, <1>4, FS_Subset
  <1>6. ext \in SUBSET Int /\ \A v \in ext : -Reach <= v /\ v <= Reach
    BY <1>1, <1>3
  <1>7. QED
    BY <1>5, <1>6 DEF ext

\* The domain that a panel's data ask for.
DataAxis(p, zero) ==
    LET ext == seriesExtent(p.series)
    IN  niceDomain(IF ext = {} THEN 0 ELSE Min(ext), IF ext = {} THEN Unit ELSE Max(ext), zero)

LEMMA DataAxisIs ==
    ASSUME NEW p, p.series \in Seq(SeriesType), NEW zero \in BOOLEAN
    PROVE  LET d == DataAxis(p, zero)
           IN  /\ d.lo \in Int /\ d.hi \in Int /\ d.step \in Nat \ {0}
               /\ \A v \in seriesExtent(p.series) : d.lo <= v /\ v <= d.hi
               /\ zero => d.lo <= 0 /\ 0 <= d.hi
               /\ -(4 * Bound) <= d.lo /\ d.hi <= 4 * Bound
               /\ \E k \in 1..targetTicks + 1 : d.hi - d.lo = k * d.step
  <1> DEFINE ext == seriesExtent(p.series)
             lo0 == IF ext = {} THEN 0 ELSE Min(ext)
             hi0 == IF ext = {} THEN Unit ELSE Max(ext)
  <1>1. Bound \in Nat \ {0} /\ Unit \in Nat /\ Unit <= Bound /\ Reach \in Nat /\ Reach <= Bound
    BY Constants
  <1>2. /\ ext \in SUBSET Int /\ IsFiniteSet(ext)
        /\ \A v \in ext : -Reach <= v /\ v <= Reach
    BY ExtentIs
  <1> HIDE DEF ext
  <1>3. ext # {} => /\ Min(ext) \in ext /\ \A v \in ext : Min(ext) <= v
                    /\ Max(ext) \in ext /\ \A v \in ext : v <= Max(ext)
    BY <1>2, MinIs, MaxIs
  <1>4. /\ lo0 \in -Bound..Bound /\ hi0 \in -Bound..Bound /\ lo0 <= hi0
        /\ \A v \in ext : lo0 <= v /\ v <= hi0
    <2>1. CASE ext = {}
      BY <1>1, <2>1
    <2>2. CASE ext # {}
      <3>1. lo0 = Min(ext) /\ hi0 = Max(ext)
        BY <2>2
      <3>2. lo0 \in ext /\ hi0 \in ext /\ \A v \in ext : lo0 <= v /\ v <= hi0
        BY <1>3, <2>2, <3>1
      <3> HIDE DEF lo0, hi0
      <3>3. lo0 <= hi0
        BY <3>2
      <3>4. /\ lo0 \in Int /\ -Reach <= lo0 /\ lo0 <= Reach
            /\ hi0 \in Int /\ -Reach <= hi0 /\ hi0 <= Reach
        BY <1>2, <3>2
      <3>5. QED
        BY <1>1, <3>2, <3>3, <3>4
    <2>3. QED
      BY <2>1, <2>2
  <1>5. DataAxis(p, zero) = niceDomain(lo0, hi0, zero)
    BY DEF DataAxis, ext
  <1> HIDE DEF lo0, hi0
  <1> DEFINE d == niceDomain(lo0, hi0, zero)
  <1>6. /\ d.lo \in Int /\ d.hi \in Int /\ d.step \in Nat \ {0}
        /\ d.lo <= lo0 /\ hi0 <= d.hi
        /\ zero => d.lo <= 0 /\ 0 <= d.hi
        /\ -(4 * Bound) <= d.lo /\ d.hi <= 4 * Bound
        /\ \E k \in 1..targetTicks + 1 : d.hi - d.lo = k * d.step
    BY <1>4, NiceDomainIs
  <1> HIDE DEF d
  <1>7. lo0 \in Int /\ hi0 \in Int
    BY <1>1, <1>4
  <1>8. \A v \in ext : d.lo <= v /\ v <= d.hi
    BY <1>2, <1>4, <1>6, <1>7
  <1>9. QED
    BY <1>5, <1>6, <1>8 DEF d, ext

\* A pinned axis has the step for its own length.
LEMMA PinnedTicks ==
    ASSUME NEW lo \in Int, NEW hi \in Int, lo < hi, hi - lo <= 20 * Bound
    PROVE  LET ticks == numericTicks(lo, hi, niceStep(hi - lo))
           IN  /\ ticks \in Seq(Int) /\ Len(ticks) \in 2..targetTicks + 1
               /\ ticks[1] = lo
  <1> DEFINE span == hi - lo
             step == niceStep(span)
             k == span \div step
             T == targetTicks
  <1>1. T \in Nat /\ T + 2 <= maxTicks /\ maxTicks = 65
    BY Constants
  <1>2. span \in Nat \ {0} /\ span = hi - lo /\ span <= 20 * Bound
    OBVIOUS
  <1> HIDE DEF span
  <1>3. step \in Nat \ {0} /\ span <= step * T /\ step <= span /\ step * T \in Nat
    BY <1>2, NiceStepIs
  <1> HIDE DEF step, T
  <1>4. k \in Int /\ k * step \in Int /\ k * step <= span /\ span < k * step + step
    <2>1. span \in Int /\ step \in Nat \ {0}
      BY <1>2, <1>3
    <2>2. QED
      BY <2>1, DivMod
  <1>5. 1 * step = step /\ T * step = step * T
    BY <1>1, <1>3
  <1>6. 1 <= k
    BY <1>2, <1>3, <1>5, QuotientAtLeast
  <1>7. k <= T
    <2>1. span < T * step + step
      BY <1>2, <1>3, <1>5
    <2>2. QED
      BY <1>1, <1>2, <1>3, <2>1, QuotientAtMost
  <1>8. k \in 1..maxTicks - 1
    BY <1>1, <1>4, <1>6, <1>7
  <1> HIDE DEF k
  <1> DEFINE ticks == numericTicks(lo, hi, step)
  <1>9. ticks \in Seq(Int) /\ Len(ticks) = k + 1 /\ ticks[1] = lo
    <2>1. hi - lo = span /\ step \in Nat \ {0}
      BY <1>2, <1>3
    <2>2. k * step <= hi - lo /\ hi - lo < k * step + step
      BY <1>4, <2>1
    <2>3. QED
      BY <1>8, <2>1, <2>2, NumericTicksAre
  <1> HIDE DEF ticks
  <1>10. Len(ticks) \in 2..T + 1
    BY <1>1, <1>4, <1>6, <1>7, <1>9
  <1>11. QED
    BY <1>9, <1>10 DEF ticks, step, span, T

WantsZero(p) == p.zero \/ \E j \in DOMAIN p.series : Parameter(p.series[j].param).zero

LEMMA ResolveYIs ==
    ASSUME NEW p, p.series \in Seq(SeriesType), PinsOf(p)
    PROVE  LET y == resolveY(p)
           IN  /\ y.min \in -Wide..Wide /\ y.max \in -Wide..Wide /\ y.min < y.max
               /\ y.zero \in BOOLEAN
               /\ y.ticks \in Seq(Int) /\ Len(y.ticks) \in 2..targetTicks + 2
               /\ y.ticks[1] = y.min
               /\ p.min = Nil /\ p.max = Nil =>
                    /\ \A v \in seriesExtent(p.series) : y.min <= v /\ v <= y.max
                    /\ y.zero => y.min <= 0 /\ 0 <= y.max
                    /\ Last(y.ticks) = y.max
  <1> DEFINE zero == WantsZero(p)
             d == DataAxis(p, zero)
             lo == IF p.min # Nil THEN p.min ELSE d.lo
             top == IF p.max # Nil THEN p.max ELSE d.hi
             hi == IF top <= lo THEN lo + Unit ELSE top
             free == p.min = Nil /\ p.max = Nil
             step == IF free THEN d.step ELSE niceStep(hi - lo)
             T == targetTicks
  <1>1. /\ Bound \in Nat \ {0} /\ Unit \in Nat \ {0} /\ Unit <= Bound /\ Reach \in Nat
        /\ Reach <= Bound /\ Nil \notin Int /\ Wide = 5 * Bound
        /\ T \in Nat /\ T + 2 <= maxTicks /\ maxTicks = 65
    BY Constants DEF Wide, Bound
  <1>2. zero \in BOOLEAN
    BY DEF WantsZero
  <1> HIDE DEF zero
  <1>3. /\ d.lo \in Int /\ d.hi \in Int /\ d.step \in Nat \ {0}
        /\ \A v \in seriesExtent(p.series) : d.lo <= v /\ v <= d.hi
        /\ zero => d.lo <= 0 /\ 0 <= d.hi
        /\ -(4 * Bound) <= d.lo /\ d.hi <= 4 * Bound
        /\ \E k \in 1..T + 1 : d.hi - d.lo = k * d.step
    BY <1>2, DataAxisIs
  <1>4. resolveY(p) = [min |-> lo, max |-> hi, zero |-> zero, ticks |-> numericTicks(lo, hi, step)]
    BY DEF resolveY, DataAxis, zero, WantsZero
  <1>5. PICK k \in 1..T + 1 : d.hi - d.lo = k * d.step
    BY <1>3
  <1> HIDE DEF d
  <1>6. k * d.step \in Int /\ k * d.step >= d.step
    BY <1>1, <1>3
  <1>7. d.lo < d.hi
    BY <1>3, <1>5, <1>6
  <1>8. lo \in -Wide..Wide /\ hi \in -Wide..Wide /\ lo < hi
    <2>1. CASE p.min \in -Wide..Wide /\ p.max \in -Wide..Wide /\ p.min < p.max
      <3>1. lo = p.min /\ top = p.max /\ hi = p.max
        BY <1>1, <2>1
      <3>2. QED
        BY <2>1, <3>1
    <2>2. CASE Within(p.min) /\ Within(p.max)
      <3>1. /\ p.min # Nil => p.min \in Int /\ -Reach <= p.min /\ p.min <= Reach
            /\ p.max # Nil => p.max \in Int /\ -Reach <= p.max /\ p.max <= Reach
        BY <1>1, <2>2 DEF Within, Readings, OrNil
      <3>2. lo \in Int /\ -(4 * Bound) <= lo /\ lo <= 4 * Bound
        BY <1>1, <1>3, <1>7, <3>1
      <3>3. top \in Int /\ -(4 * Bound) <= top /\ top <= 4 * Bound
        BY <1>1, <1>3, <1>7, <3>1
      <3> HIDE DEF lo, top
      <3>4. QED
        BY <1>1, <3>2, <3>3
    <2>3. QED
      BY <2>1, <2>2 DEF PinsOf
  <1>9. CASE free
    <2>1. lo = d.lo /\ hi = d.hi /\ step = d.step
      BY <1>3, <1>7, <1>9
    <2>2. k \in 1..maxTicks - 1
      BY <1>1
    <2>3. k * d.step <= d.hi - d.lo /\ d.hi - d.lo < k * d.step + d.step
      BY <1>3, <1>5, <1>6
    <2> DEFINE ticks == numericTicks(d.lo, d.hi, d.step)
    <2>4. ticks \in Seq(Int) /\ Len(ticks) = k + 1 /\ ticks[1] = d.lo
          /\ Last(ticks) = d.lo + k * d.step
      <3>1. \A a, b \in Int, s \in Nat \ {0} :
              k * s <= b - a /\ b - a < k * s + s =>
                LET n == numericTicks(a, b, s)
                IN  n \in Seq(Int) /\ Len(n) = k + 1 /\ n[1] = a /\ Last(n) = a + k * s
        BY <2>2, NumericTicksAre
      <3>2. d.lo \in Int /\ d.hi \in Int /\ d.step \in Nat \ {0}
        BY <1>3
      <3>3. QED
        BY <2>3, <3>1, <3>2
    <2> HIDE DEF ticks
    <2>5. Last(ticks) = d.hi /\ Len(ticks) \in 2..T + 2
      <3> DEFINE w == k * d.step
      <3>1. d.lo + w = d.hi
        <4>1. w \in Int /\ d.hi - d.lo = w
          BY <1>5, <1>6
        <4> HIDE DEF w
        <4>2. QED
          BY <1>3, <4>1
      <3>2. k + 1 \in 2..T + 2
        BY <1>1
      <3>3. QED
        BY <2>4, <3>1, <3>2
    <2>6. resolveY(p) = [min |-> d.lo, max |-> d.hi, zero |-> zero, ticks |-> ticks]
      BY <1>4, <2>1 DEF ticks
    <2>7. QED
      BY <1>2, <1>3, <1>8, <2>1, <2>4, <2>5, <2>6 DEF T
  <1>10. CASE ~free
    <2> DEFINE ticks == numericTicks(lo, hi, niceStep(hi - lo))
    <2>1. resolveY(p) = [min |-> lo, max |-> hi, zero |-> zero, ticks |-> ticks]
      BY <1>4, <1>10
    <2> HIDE DEF lo, hi
    <2>2. lo \in Int /\ hi \in Int /\ lo < hi /\ hi - lo <= 20 * Bound
      BY <1>1, <1>8
    <2>3. ticks \in Seq(Int) /\ Len(ticks) \in 2..T + 1 /\ ticks[1] = lo
      BY <2>2, PinnedTicks
    <2> HIDE DEF ticks
    <2>4. Len(ticks) \in 2..T + 2
      BY <1>1, <2>3
    <2>5. QED
      BY <1>2, <1>8, <1>10, <2>1, <2>3, <2>4 DEF T
  <1>11. QED
    BY <1>9, <1>10

-----------------------------------------------------------------------------
(* The time axis. *)

LEMMA TimeStepIs ==
    ASSUME NEW span \in Nat \ {0}
    PROVE  LET step == timeStep(span)
           IN  /\ step \in Nat \ {0}
               /\ step <= span \/ step = timeTickSteps[1]
               /\ span \div Last(timeTickSteps) <= targetTicks => span \div step <= targetTicks
               /\ \E n \in 1..Len(timeTickSteps) : step = timeTickSteps[n]
  <1> DEFINE S == timeTickSteps
             T == targetTicks
             fits == {n \in DOMAIN S : span \div S[n] <= T}
             last == Len(S)
  <1>1. S \in Seq(Nat \ {0}) /\ S # <<>> /\ T \in Nat
    BY TimeAssumption, Constants
  <1>2. last \in Nat \ {0} /\ DOMAIN S = 1..last /\ Last(S) = S[last]
    BY <1>1 DEF Last
  <1>3. \A n \in 1..last : S[n] \in Nat \ {0}
    BY <1>1
  <1>4. \A n \in 1..last - 1 : S[n + 1] <= (T + 1) * S[n]
    BY TimeAssumption
  <1> HIDE DEF S, T, last
  <1>5. ASSUME NEW n \in 1..last, n \notin fits
        PROVE  (T + 1) * S[n] <= span
    <2> DEFINE b == S[n]
               q == span \div b
    <2>1. b \in Nat \ {0}
      BY <1>3
    <2> HIDE DEF b
    <2>2. q \in Int /\ q * b <= span /\ q * b \in Int
      BY <2>1, DivMod
    <2>3. ~(q <= T)
      BY <1>2, <1>5 DEF b
    <2> HIDE DEF q
    <2>4. T + 1 <= q
      BY <1>1, <2>2, <2>3
    <2>5. (T + 1) * b <= q * b /\ (T + 1) * b \in Int
      BY <1>1, <2>1, <2>2, <2>4
    <2>6. (T + 1) * b <= span
      BY <2>2, <2>5
    <2>7. QED
      BY <2>6 DEF b
  <1>6. \A n \in 1..last : S[n] <= (T + 1) * S[n] /\ (T + 1) * S[n] \in Int
    BY <1>1, <1>3
  <1>7. CASE fits = {}
    <2>1. timeStep(span) = S[last]
      BY <1>2, <1>7 DEF timeStep, fits, S, T
    <2>2. last \in 1..last /\ last \notin fits
      BY <1>2, <1>7
    <2>3. S[last] <= span /\ S[last] \in Nat \ {0}
      BY <1>3, <1>5, <1>6, <2>2
    <2>4. ~(span \div S[last] <= T)
      BY <1>2, <2>2
    <2>5. QED
      BY <1>2, <2>1, <2>2, <2>3, <2>4 DEF S, T, last
  <1>8. CASE fits # {}
    <2> DEFINE m == Min(fits)
    <2>1. fits \in SUBSET (1..last)
      BY <1>2
    <2> HIDE DEF fits
    <2>2. fits \in SUBSET Int /\ IsFiniteSet(fits)
      <3>1. IsFiniteSet(1..last)
        BY <1>2, FS_Interval
      <3>2. IsFiniteSet(fits)
        BY <2>1, <3>1, FS_Subset
      <3>3. QED
        BY <2>1, <3>2
    <2>3. m \in fits /\ \A n \in fits : m <= n
      BY <1>8, <2>2, MinIs
    <2>4. m \in 1..last
      BY <2>1, <2>3
    <2>5. timeStep(span) = S[m]
      BY <1>8 DEF timeStep, fits, S, T
    <2> HIDE DEF m
    <2>6. span \div S[m] <= T
      BY <2>3 DEF fits
    <2>7. S[m] \in Nat \ {0}
      BY <1>3, <2>4
    <2>8. m # 1 => S[m] <= span
      <3> SUFFICES ASSUME m # 1
                   PROVE  S[m] <= span
        OBVIOUS
      <3>1. m - 1 \in 1..last /\ m - 1 \in 1..last - 1 /\ m - 1 + 1 = m
        BY <1>2, <2>4
      <3>2. m - 1 \notin fits
        BY <2>3, <3>1
      <3>3. (T + 1) * S[m - 1] <= span
        BY <1>5, <3>1, <3>2
      <3>4. S[m] <= (T + 1) * S[m - 1]
        BY <1>4, <3>1
      <3>5. QED
        BY <1>6, <2>7, <3>1, <3>3, <3>4
    <2>9. S[m] <= span \/ S[m] = S[1]
      BY <2>8
    <2>10. QED
      BY <2>4, <2>5, <2>6, <2>7, <2>9 DEF S, T, last
  <1>9. QED
    BY <1>7, <1>8

\* Whole milliseconds.
Whole(t) == \E k \in Int : t = k * Milli

LEMMA MilliIs ==
    /\ Milli \in Nat \ {0} /\ Minute \in Nat \ {0}
    /\ Whole(60 * Minute)
    /\ \A n \in 1..Len(timeTickSteps) : timeTickSteps[n] \in Nat \ {0} /\ Whole(timeTickSteps[n])
  <1> DEFINE S == timeTickSteps
  <1>1. /\ Milli \in Nat \ {0} /\ Minute \in Nat \ {0} /\ Minute % Milli = 0
        /\ S \in Seq(Nat \ {0}) /\ \A n \in 1..Len(S) : S[n] % Milli = 0
    BY TimeAssumption
  <1> HIDE DEF S
  <1>2. ASSUME NEW t \in Int, t % Milli = 0
        PROVE  t \div Milli \in Int /\ t = (t \div Milli) * Milli
    BY <1>1, <1>2, DivMod
  <1>3. Whole(60 * Minute)
    <2> DEFINE k == Minute \div Milli
    <2>1. k \in Int /\ Minute = k * Milli
      BY <1>1, <1>2
    <2> HIDE DEF k
    <2>2. 60 * (k * Milli) = (60 * k) * Milli /\ 60 * k \in Int
      BY <1>1, <2>1
    <2>3. QED
      BY <2>1, <2>2 DEF Whole
  <1>4. \A n \in 1..Len(S) : S[n] \in Nat \ {0} /\ Whole(S[n])
    <2> TAKE n \in 1..Len(S)
    <2> DEFINE t == S[n]
    <2>1. t \in Nat \ {0} /\ t % Milli = 0
      BY <1>1
    <2> HIDE DEF t
    <2>2. Whole(t)
      BY <1>2, <2>1 DEF Whole
    <2>3. QED
      BY <2>1, <2>2 DEF t
  <1>5. QED
    BY <1>1, <1>3, <1>4 DEF S

LEMMA InMillisIs ==
    ASSUME NEW t \in Nat
    PROVE  /\ InMillis(t) \in Nat /\ Whole(InMillis(t))
           /\ InMillis(t) <= t /\ t < InMillis(t) + Milli
  <1> DEFINE d == t \div Milli
             m == InMillis(t)
  <1>1. Milli \in Nat \ {0}
    BY MilliIs
  <1>2. d \in Int /\ m = d * Milli /\ m \in Int /\ m <= t /\ t < m + Milli
    BY <1>1, DivMod DEF InMillis
  <1>3. 0 <= d
    <2>1. 0 * Milli <= t /\ 0 \in Int
      BY <1>1
    <2>2. QED
      BY <1>1, <2>1, QuotientAtLeast
  <1> HIDE DEF d, m
  <1>4. 0 <= m
    BY <1>1, <1>2, <1>3
  <1>5. Whole(m)
    BY <1>2 DEF Whole
  <1>6. QED
    BY <1>2, <1>4, <1>5 DEF m

\* A whole millisecond is cut nowhere, and none lies between a time and its own.
LEMMA WholeIs ==
    ASSUME NEW w \in Nat, Whole(w), NEW t \in Nat
    PROVE  /\ InMillis(w) = w
           /\ w <= t => w <= InMillis(t)
           /\ t < w => InMillis(t) + Milli <= w
  <1>1. Milli \in Nat \ {0}
    BY MilliIs
  <1>2. PICK k \in Int : w = k * Milli
    BY DEF Whole
  <1>3. ASSUME NEW u \in Nat, w <= u
        PROVE  w <= InMillis(u)
    <2>1. /\ InMillis(u) \in Nat /\ u < InMillis(u) + Milli
          /\ Whole(InMillis(u))
      BY InMillisIs
    <2>2. PICK j \in Int : InMillis(u) = j * Milli
      BY <2>1 DEF Whole
    <2>3. j < k => j * Milli + Milli <= k * Milli
      BY <1>1, Scaled
    <2>4. j >= k
      BY <1>1, <1>2, <1>3, <2>1, <2>2, <2>3
    <2>5. k * Milli <= j * Milli
      BY <1>1, <2>4
    <2>6. QED
      BY <1>2, <2>2, <2>5
  <1>4. ASSUME t < w
        PROVE  InMillis(t) + Milli <= w
    <2>1. InMillis(t) \in Nat /\ InMillis(t) <= t /\ Whole(InMillis(t))
      BY InMillisIs
    <2>2. PICK j \in Int : InMillis(t) = j * Milli
      BY <2>1 DEF Whole
    <2>3. k <= j => k * Milli <= j * Milli
      BY <1>1
    <2>4. j < k
      BY <1>2, <1>4, <2>1, <2>2, <2>3
    <2>5. QED
      BY <1>1, <1>2, <2>2, <2>4, Scaled
  <1>5. InMillis(w) <= w /\ InMillis(w) \in Nat
    BY InMillisIs
  <1>6. QED
    BY <1>3, <1>4, <1>5

LEMMA WholeSum ==
    ASSUME NEW t \in Nat, InMillis(t) = t, NEW w \in Nat, Whole(w)
    PROVE  Whole(t + w)
  <1>1. Whole(t)
    BY InMillisIs
  <1>2. PICK j \in Int, k \in Int : t = j * Milli /\ w = k * Milli
    BY <1>1 DEF Whole
  <1>3. t + w = (j + k) * Milli /\ j + k \in Int
    BY <1>2, MilliIs
  <1>4. QED
    BY <1>3 DEF Whole

LEMMA TimeTicksAre ==
    ASSUME NEW e0 \in Nat, NEW e1 \in Nat, e0 < e1
    PROVE  LET ticks == timeTicks(e0, e1)
               t0 == InMillis(e0)
               t1 == InMillis(e1)
           IN  /\ t1 - t0 >= timeTickSteps[1] => ticks # <<>>
               /\ Len(ticks) <= IF (t1 - t0) \div Last(timeTickSteps) <= targetTicks
                                  THEN targetTicks + 1 ELSE maxTicks
               /\ \A n \in DOMAIN ticks : t0 <= ticks[n] /\ ticks[n] <= t1
  <1> DEFINE t0 == InMillis(e0)
             t1 == InMillis(e1)
             span == e1 - e0
             shown == t1 - t0
             step == timeStep(span)
             shift == (-e0) % step
             first == e0 + shift
             ticks == timeTicks(e0, e1)
             longest == Last(timeTickSteps)
             few == shown \div longest <= targetTicks
             T == targetTicks
             M == Milli
             S1 == timeTickSteps[1]
  <1>1. span \in Nat \ {0} /\ span = e1 - e0 /\ T \in Nat /\ T + 2 <= maxTicks /\ maxTicks = 65
    BY Constants
  <1>2. /\ t0 \in Nat /\ t1 \in Nat /\ t0 <= e0 /\ e0 < t0 + M /\ t1 <= e1 /\ e1 < t1 + M
        /\ Whole(t0) /\ Whole(t1) /\ M \in Nat \ {0}
    BY InMillisIs, MilliIs
  <1>3. longest \in Nat \ {0} /\ Whole(longest) /\ S1 \in Nat \ {0} /\ Whole(S1)
    <2> DEFINE S == timeTickSteps
    <2>1. S \in Seq(Nat \ {0}) /\ S # <<>>
      BY TimeAssumption
    <2> HIDE DEF S
    <2>2. 1 \in 1..Len(S) /\ Len(S) \in 1..Len(S) /\ Last(S) = S[Len(S)]
      BY <2>1 DEF Last
    <2>3. QED
      BY <2>2, MilliIs DEF S
  <1>4. /\ step \in Nat \ {0} /\ (step <= span \/ step = S1)
        /\ span \div longest <= T => span \div step <= T
        /\ Whole(step)
    BY <1>1, TimeStepIs, MilliIs
  <1> HIDE DEF span, longest, T, S1
  <1>5. shown \in Int /\ shown = t1 - t0 /\ span < shown + M
    BY <1>1, <1>2
  <1> HIDE DEF t0, t1, M
  <1>6. few => span \div longest <= T
    <2> HAVE few
    <2> DEFINE q == shown \div longest
    <2>1. q \in Int /\ q <= T /\ shown < q * longest + longest /\ q * longest \in Int
      BY <1>3, <1>5, DivMod DEF T
    <2> HIDE DEF q, shown
    <2>2. q * longest <= T * longest /\ T * longest \in Int
      BY <1>1, <1>3, <2>1
    <2>3. PICK j \in Int, k \in Int : t1 = j * Milli /\ t0 = k * Milli
      BY <1>2 DEF Whole
    <2>4. PICK l \in Int : longest = l * Milli
      BY <1>3 DEF Whole
    <2>5. M = Milli
      BY DEF M
    <2> DEFINE b == T * longest + longest
    <2>6. b \in Int /\ shown < b
      BY <1>3, <1>5, <2>1, <2>2
    <2>7. shown = (j - k) * M /\ j - k \in Int
      BY <1>2, <1>5, <2>3, <2>5
    <2>8. b = (T * l + l) * M /\ T * l + l \in Int
      BY <1>1, <1>2, <2>4, <2>5
    <2> HIDE DEF b
    <2>9. (j - k) < T * l + l
      <3> DEFINE u == j - k
                 v == T * l + l
      <3>1. u \in Int /\ v \in Int /\ shown = u * M /\ b = v * M
        BY <2>7, <2>8
      <3> HIDE DEF u, v
      <3>2. v <= u => v * M <= u * M
        BY <1>2, <3>1
      <3>3. u < v
        BY <1>5, <2>6, <3>1, <3>2
      <3>4. QED
        BY <3>3 DEF u, v
    <2>10. shown + M <= b
      BY <1>2, <2>7, <2>8, <2>9, Scaled
    <2>11. span < b
      BY <1>1, <1>2, <1>5, <2>6, <2>10
    <2>12. QED
      BY <1>1, <1>3, <2>11, QuotientAtMost DEF b
  <1>7. shown >= S1 => step <= shown
    <2> HAVE shown >= S1
    <2>1. CASE step = S1
      BY <2>1
    <2>2. CASE step <= span
      <3>1. step <= e1 - e0
        BY <1>1, <2>2
      <3> DEFINE b == t0 + step
      <3>2. b \in Nat /\ b <= e1 /\ Whole(b)
        <4>1. PICK j \in Int, k \in Int : t0 = j * Milli /\ step = k * Milli
          BY <1>2, <1>4 DEF Whole
        <4>2. t0 + step = (j + k) * Milli /\ j + k \in Int
          BY <1>2, <4>1, MilliIs
        <4>3. Whole(b)
          BY <4>2 DEF Whole
        <4>4. b \in Nat /\ b <= e1
          BY <1>2, <1>4, <3>1
        <4>5. QED
          BY <4>3, <4>4
      <3> HIDE DEF b
      <3>3. b <= t1
        BY <3>2, WholeIs DEF t1
      <3>4. QED
        BY <1>2, <1>4, <1>5, <3>3 DEF b
    <2>3. QED
      BY <1>4, <2>1, <2>2
  <1> HIDE DEF step, few, shown
  <1>8. shift \in Nat /\ shift < step /\ \E k \in Int : first = k * step
    <2>1. -e0 \in Int
      OBVIOUS
    <2> DEFINE d == (-e0) \div step
    <2>2. shift \in 0..(step - 1) /\ d \in Int /\ -e0 = d * step + shift /\ d * step \in Int
      BY <1>4, <2>1, DivMod
    <2> HIDE DEF d, shift
    <2>3. first = -(d * step)
      BY <1>4, <2>2
    <2>4. -(d * step) = (-d) * step /\ -d \in Int
      BY <1>4, <2>2
    <2>5. first = (-d) * step /\ -d \in Int
      BY <2>3, <2>4
    <2> HIDE DEF first
    <2>6. \E k \in Int : first = k * step
      <3> DEFINE k == -d
      <3>1. k \in Int /\ first = k * step
        BY <2>5
      <3> HIDE DEF k
      <3>2. QED
        BY <3>1
    <2>7. shift \in Nat /\ shift < step
      BY <1>4, <2>2
    <2>8. QED
      BY <2>6, <2>7 DEF first
  <1> HIDE DEF shift
  <1>9. first \in Nat /\ e0 <= first
    BY <1>8
  <1>10. ASSUME NEW m \in Nat
         PROVE  Whole(first + m * step)
    <2>1. PICK k \in Int, l \in Int : first = k * step /\ step = l * Milli
      BY <1>4, <1>8 DEF Whole
    <2>2. k * step + m * step = (k + m) * step
      BY <1>4, <2>1
    <2>3. (k + m) * (l * Milli) = ((k + m) * l) * Milli /\ (k + m) * l \in Int
      BY <2>1, MilliIs
    <2>4. first + m * step = ((k + m) * l) * Milli
      BY <2>1, <2>2, <2>3
    <2>5. QED
      BY <2>3, <2>4 DEF Whole
  <1>11. CASE first > e1
    <2>1. ticks = <<>>
      BY <1>11 DEF timeTicks, first, shift, step, span
    <2>2. Len(ticks) = 0 /\ DOMAIN ticks = {}
      BY <2>1
    <2>3. ~(shown >= S1)
      <3> SUFFICES ASSUME shown >= S1
                   PROVE  FALSE
        OBVIOUS
      <3> DEFINE b == first - step
      <3>1. b \in Int /\ b < e0 /\ b + step = first
        BY <1>4, <1>8, <1>9
      <3>2. t0 + step <= t1
        BY <1>2, <1>4, <1>5, <1>7
      <3>3. CASE b < 0
        BY <1>2, <1>4, <1>11, <3>1, <3>2, <3>3
      <3>4. CASE b >= 0
        <4>1. Whole(b)
          <5>1. PICK k \in Int, l \in Int : first = k * step /\ step = l * Milli
            BY <1>4, <1>8 DEF Whole
          <5>2. k * step - step = (k - 1) * step
            BY <1>4, <5>1
          <5>3. (k - 1) * (l * Milli) = ((k - 1) * l) * Milli /\ (k - 1) * l \in Int
            BY <5>1, MilliIs
          <5>4. b = ((k - 1) * l) * Milli
            BY <5>1, <5>2, <5>3
          <5> HIDE DEF b
          <5>5. QED
            BY <5>3, <5>4 DEF Whole
        <4>2. b \in Nat /\ b <= e0
          BY <3>1, <3>4
        <4> HIDE DEF b
        <4>3. b <= t0
          BY <4>1, <4>2, WholeIs DEF t0
        <4>4. QED
          BY <1>2, <1>4, <1>9, <1>11, <3>1, <3>2, <4>2, <4>3
      <3>5. QED
        BY <3>1, <3>3, <3>4
    <2> HIDE DEF ticks, first
    <2>4. QED
      BY <1>1, <1>5, <2>2, <2>3 DEF ticks, shown, few, T, t0, t1, longest, S1
  <1>12. CASE ~(first > e1)
    <2> DEFINE rest == e1 - first
               q == rest \div step
               N == MinOf(q + 1, maxTicks)
    <2>1. rest \in Nat /\ rest <= span /\ rest = e1 - first
      BY <1>1, <1>9, <1>12
    <2>2. ticks = [n \in 1..N |-> first + (n - 1) * step]
      BY <1>12 DEF timeTicks, first, shift, step, span
    <2> HIDE DEF ticks, first, rest
    <2>3. q \in Int /\ q * step <= rest /\ q * step \in Int
      <3>1. rest \in Int /\ step \in Nat \ {0}
        BY <1>4, <2>1
      <3>2. QED
        BY <3>1, DivMod
    <2>4. 0 <= q
      BY <1>4, <2>1, QuotientAtLeast
    <2>5. few => q <= T
      <3> SUFFICES ASSUME few
                   PROVE  q <= T
        OBVIOUS
      <3> DEFINE k == span \div step
      <3>1. k \in Int /\ k <= T /\ span < k * step + step /\ k * step \in Int
        BY <1>1, <1>4, <1>6, DivMod
      <3> HIDE DEF k
      <3>2. rest < k * step + step
        BY <1>1, <1>4, <2>1, <3>1
      <3>3. q <= k
        BY <1>4, <2>1, <3>1, <3>2, QuotientAtMost
      <3>4. QED
        BY <1>1, <2>3, <3>1, <3>3
    <2> HIDE DEF q
    <2>6. N \in Nat \ {0} /\ N <= q + 1 /\ N <= maxTicks
      BY <1>1, <2>3, <2>4 DEF MinOf
    <2> HIDE DEF N
    <2>7. Len(ticks) = N /\ DOMAIN ticks = 1..N /\ ticks # <<>>
      BY <2>2, <2>6
    <2>8. ASSUME NEW n \in 1..N
          PROVE  t0 <= ticks[n] /\ ticks[n] <= t1
      <3> DEFINE m == n - 1
                 w == first + m * step
      <3>1. ticks[n] = w
        BY <2>2
      <3>2. m \in Nat /\ m <= q
        BY <2>3, <2>6
      <3>3. Whole(w)
        BY <1>10, <3>2
      <3> HIDE DEF m
      <3>4. m * step <= q * step /\ 0 <= m * step /\ m * step \in Int
        BY <1>4, <2>3, <3>2
      <3>5. w \in Nat /\ e0 <= w /\ w <= e1
        BY <1>9, <2>1, <2>3, <3>4
      <3> HIDE DEF w
      <3>6. w <= t1
        BY <3>3, <3>5, WholeIs DEF t1
      <3>7. QED
        BY <1>2, <3>1, <3>5, <3>6
    <2>9. Len(ticks) <= IF few THEN T + 1 ELSE maxTicks
      BY <1>1, <2>3, <2>5, <2>6, <2>7
    <2>10. QED
      BY <2>7, <2>8, <2>9 DEF ticks, few, shown, T, t0, t1, longest
  <1>13. QED
    BY <1>11, <1>12

-----------------------------------------------------------------------------
(* What a series inherits. *)

ParameterType == [unit : Texts, mark : Texts, zero : BOOLEAN, inverted : BOOLEAN,
                  breaks : Seq([at : Int, status : Texts]), worst : Texts]

LEMMA ParameterCases ==
    ASSUME NEW name
    PROVE  \/ Parameter(name) = Unregistered
           \/ Parameter(name) = ParameterDef("hPa", "", FALSE, FALSE, <<>>, "none")
           \/ Parameter(name) = ParameterDef("C", "", FALSE, FALSE,
                <<Break(30, "good"), Break(35, "warning")>>, "critical")
           \/ Parameter(name) = ParameterDef("m/s", "", TRUE, FALSE,
                <<Break(10, "good"), Break(20, "warning")>>, "critical")
           \/ Parameter(name) = ParameterDef("mm", "bar", TRUE, FALSE,
                <<Break(1, "good"), Break(5, "warning")>>, "critical")
           \/ Parameter(name) = ParameterDef("km", "", TRUE, TRUE,
                <<Break(10, "good"), Break(5, "warning")>>, "critical")
  <1> DEFINE key == IF Folded(name) \in DOMAIN parameterAliases
                      THEN parameterAliases[Folded(name)] ELSE Folded(name)
  <1>1. Parameter(name) = IF key \in DOMAIN parameterDefs THEN parameterDefs[key] ELSE Unregistered
    BY DEF Parameter
  <1> HIDE DEF key
  <1>2. CASE key = "temperature_2m"
    BY <1>1, <1>2 DEF parameterDefs
  <1>3. CASE key = "mslp"
    BY <1>1, <1>3 DEF parameterDefs
  <1>4. CASE key = "wind_speed"
    BY <1>1, <1>4 DEF parameterDefs
  <1>5. CASE key = "precipitation"
    BY <1>1, <1>5 DEF parameterDefs
  <1>6. CASE key = "visibility"
    BY <1>1, <1>6 DEF parameterDefs
  <1>7. CASE key \notin {"temperature_2m", "mslp", "wind_speed", "precipitation", "visibility"}
    BY <1>1, <1>7 DEF parameterDefs
  <1>8. QED
    BY <1>2, <1>3, <1>4, <1>5, <1>6, <1>7

LEMMA ParameterIs ==
    ASSUME NEW name
    PROVE  Parameter(name) \in ParameterType
  <1> DEFINE R == [at : Int, status : Texts]
             Breaks == Seq(R)
  <1>0. /\ "" \in Texts /\ "bar" \in Texts /\ "C" \in Texts /\ "hPa" \in Texts
        /\ "m/s" \in Texts /\ "mm" \in Texts /\ "km" \in Texts /\ "none" \in Texts
        /\ "good" \in Texts /\ "warning" \in Texts /\ "critical" \in Texts
    BY TextAssumption
  <1>1. \A n \in Int, status \in Texts : Break(n, status) \in R
    BY Constants DEF Break
  <1>2. <<>> \in Breaks
    OBVIOUS
  <1> HIDE DEF R
  <1>3. \A a, b \in R : <<a, b>> \in Breaks
    OBVIOUS
  <1>4. Unregistered \in ParameterType
    BY <1>0, <1>2 DEF Unregistered, ParameterDef, ParameterType, R
  <1>5. ParameterDef("hPa", "", FALSE, FALSE, <<>>, "none") \in ParameterType
    BY <1>0, <1>2 DEF ParameterDef, ParameterType, R
  <1>6. ASSUME NEW breaks \in Breaks
        PROVE  /\ ParameterDef("C", "", FALSE, FALSE, breaks, "critical") \in ParameterType
               /\ ParameterDef("m/s", "", TRUE, FALSE, breaks, "critical") \in ParameterType
               /\ ParameterDef("mm", "bar", TRUE, FALSE, breaks, "critical") \in ParameterType
               /\ ParameterDef("km", "", TRUE, TRUE, breaks, "critical") \in ParameterType
    BY <1>0 DEF ParameterDef, ParameterType, R
  <1>7. ASSUME NEW n \in Int, NEW m \in Int
        PROVE  <<Break(n, "good"), Break(m, "warning")>> \in Breaks
    BY <1>0, <1>1, <1>3
  <1> HIDE DEF Breaks
  <1>8. /\ <<Break(30, "good"), Break(35, "warning")>> \in Breaks
        /\ <<Break(10, "good"), Break(20, "warning")>> \in Breaks
        /\ <<Break(1, "good"), Break(5, "warning")>> \in Breaks
        /\ <<Break(10, "good"), Break(5, "warning")>> \in Breaks
    BY <1>7
  <1>9. CASE Parameter(name) = ParameterDef("C", "", FALSE, FALSE,
               <<Break(30, "good"), Break(35, "warning")>>, "critical")
    BY <1>6, <1>8, <1>9, Zenon
  <1>10. CASE Parameter(name) = ParameterDef("m/s", "", TRUE, FALSE,
               <<Break(10, "good"), Break(20, "warning")>>, "critical")
    BY <1>6, <1>8, <1>10, Zenon
  <1>11. CASE Parameter(name) = ParameterDef("mm", "bar", TRUE, FALSE,
               <<Break(1, "good"), Break(5, "warning")>>, "critical")
    BY <1>6, <1>8, <1>11, Zenon
  <1>12. CASE Parameter(name) = ParameterDef("km", "", TRUE, TRUE,
               <<Break(10, "good"), Break(5, "warning")>>, "critical")
    BY <1>6, <1>8, <1>12, Zenon
  <1>13. QED
    BY <1>4, <1>5, <1>9, <1>10, <1>11, <1>12, ParameterCases

-----------------------------------------------------------------------------
(* Stripes and statuses. *)

LEMMA MinOfTwo ==
    ASSUME NEW S \in SUBSET {1, 2}, S # {}
    PROVE  Min(S) = IF 1 \in S THEN 1 ELSE 2
  <1>1. IsFiniteSet(1..2)
    <2>1. \A n \in Nat : IsFiniteSet(1..n)
      BY FS_Interval
    <2>2. QED
      BY <2>1
  <1>2. S \in SUBSET (1..2) /\ S \in SUBSET Int
    OBVIOUS
  <1>3. IsFiniteSet(S)
    BY <1>1, <1>2, FS_Subset
  <1>4. Min(S) \in S /\ \A y \in S : Min(S) <= y
    BY <1>2, <1>3, MinIs
  <1>5. Min(S) \in {1, 2}
    BY <1>4
  <1>6. CASE 1 \in S
    <2>1. Min(S) <= 1
      BY <1>4, <1>6
    <2>2. QED
      BY <1>5, <1>6, <2>1
  <1>7. CASE 1 \notin S
    BY <1>4, <1>5, <1>7
  <1>8. QED
    BY <1>6, <1>7

LEMMA AppendOne ==
    ASSUME NEW a, NEW b
    PROVE  Append(<<a>>, b) = <<a, b>>
  <1>1. <<a>> \in Seq({a, b}) /\ Len(<<a>>) = 1
    OBVIOUS
  <1> DEFINE s == Append(<<a>>, b)
             t == <<a, b>>
  <1>2. s \in Seq({a, b}) /\ Len(s) = 2 /\ s[1] = a /\ s[2] = b
    BY <1>1
  <1>3. t \in Seq({a, b}) /\ Len(t) = 2 /\ t[1] = a /\ t[2] = b
    OBVIOUS
  <1> HIDE DEF s, t
  <1>4. \A i \in 1..2 : s[i] = t[i]
    BY <1>2, <1>3
  <1>5. s = t
    BY <1>2, <1>3, <1>4
  <1>6. QED
    BY <1>5 DEF s, t

Clip(band, min, max) ==
    [from |-> IF band.from = Nil THEN min ELSE MaxOf(min, band.from),
     to   |-> IF band.to = Nil THEN max ELSE MinOf(max, band.to),
     status |-> band.status]

LEMMA TwoStripes ==
    ASSUME NEW one, NEW two, NEW min, NEW max
    PROVE  panelBackground(<<one, two>>, min, max)
             = {r \in {Clip(one, min, max), Clip(two, min, max)} : r.from < r.to}
  <1> DEFINE bands == <<one, two>>
  <1>1. DOMAIN bands = {1, 2} /\ bands[1] = one /\ bands[2] = two
    OBVIOUS
  <1> HIDE DEF bands
  <1>2. {Clip(bands[i], min, max) : i \in DOMAIN bands} = {Clip(one, min, max), Clip(two, min, max)}
    BY <1>1
  <1>3. panelBackground(bands, min, max)
          = {r \in {Clip(bands[i], min, max) : i \in DOMAIN bands} : r.from < r.to}
    BY Zenon DEF panelBackground, Clip
  <1>4. QED
    BY <1>2, <1>3 DEF bands

\* Which stripes two breaks leave on an axis, and which of them hold a value.
\* What BandsMatchStatus says of a value on an axis.
Edges(name) == {Parameter(name).breaks[k].at : k \in DOMAIN Parameter(name).breaks}
Unshaded(name) ==
    {"none"} \cup {Parameter(name).breaks[k].status : k \in DOMAIN Parameter(name).breaks \cap {1}}
StatusesAt(stripes, v) == {r.status : r \in {q \in stripes : q.from <= v /\ v <= q.to}}

\* A parameter with two breaks that v is not on.
TwoApart(t, v) ==
    /\ Len(t.breaks) = 2 /\ DOMAIN t.breaks = {1, 2}
    /\ t.breaks[1].at \in Int /\ t.breaks[2].at \in Int /\ t.inverted \in BOOLEAN
    /\ IF t.inverted THEN t.breaks[2].at < t.breaks[1].at ELSE t.breaks[1].at < t.breaks[2].at
    /\ t.breaks[2].status \notin {"none", t.breaks[1].status}
    /\ t.worst \notin {"none", t.breaks[1].status}
    /\ v # t.breaks[1].at /\ v # t.breaks[2].at

LEMMA TwoBreaks ==
    ASSUME NEW name, NEW min \in Int, NEW max \in Int, min < max,
           NEW v \in Int, min <= v, v <= max, TwoApart(Parameter(name), v)
    PROVE  StatusesAt(panelBackground(BandsFor(name), min, max), v)
             = {Classify(name, v)} \ {"none", Parameter(name).breaks[1].status}
  <1> DEFINE t == Parameter(name)
             breaks == t.breaks
             at1 == breaks[1].at
             at2 == breaks[2].at
             good == breaks[1].status
             warning == breaks[2].status
             worst == t.worst
             inverted == t.inverted
             B1 == IF inverted THEN Band(at2, at1, warning, TRUE) ELSE Band(at1, at2, warning, TRUE)
             B2 == IF inverted THEN Band(Nil, at2, worst, TRUE) ELSE Band(at2, Nil, worst, TRUE)
             Clipped(band) == Clip(band, min, max)
             stripes == panelBackground(BandsFor(name), min, max)
             holding == {q \in stripes : q.from <= v /\ v <= q.to}
  <1>00. /\ at1 \in Int /\ at2 \in Int /\ inverted \in BOOLEAN /\ IF inverted THEN at2 < at1 ELSE at1 < at2
         /\ warning \notin {"none", good} /\ worst \notin {"none", good}
         /\ v # at1 /\ v # at2
    BY DEF TwoApart
  <1>0. at1 # Nil /\ at2 # Nil
    BY <1>00, Constants
  <1>1. /\ Len(breaks) = 2 /\ DOMAIN breaks = {1, 2}
        /\ breaks[1].at = at1 /\ breaks[1].status = good
        /\ breaks[2].at = at2 /\ breaks[2].status = warning
    BY DEF TwoApart
  <1>2. BandsFor(name) = <<B1, B2>>
    <2> DEFINE Between(i) == IF t.inverted
                  THEN Band(t.breaks[i + 1].at, t.breaks[i].at, t.breaks[i + 1].status, TRUE)
                  ELSE Band(t.breaks[i].at, t.breaks[i + 1].at, t.breaks[i + 1].status, TRUE)
               Past == IF t.inverted THEN Band(Nil, t.breaks[2].at, t.worst, TRUE)
                                     ELSE Band(t.breaks[2].at, Nil, t.worst, TRUE)
    <2>0. Len(t.breaks) = 2 /\ ~(2 = 0) /\ 1 + 1 = 2
      BY <1>1
    <2>1. BandsFor(name) = Append([i \in 1..2 - 1 |-> Between(i)], Past)
      BY <2>0, Zenon DEF BandsFor
    <2>2. Between(1) = B1 /\ Past = B2
      <3> HIDE DEF t
      <3>1. t.inverted = inverted /\ t.worst = worst
        BY DEF t
      <3>2. CASE inverted
        BY <1>1, <2>0, <3>1, <3>2
      <3>3. CASE ~inverted
        BY <1>1, <2>0, <3>1, <3>3
      <3>4. QED
        BY <3>2, <3>3
    <2> HIDE DEF Between, Past, B1, B2
    <2>3. [i \in 1..2 - 1 |-> Between(i)] = <<B1>>
      BY <2>2
    <2>4. Append(<<B1>>, B2) = <<B1, B2>>
      BY AppendOne
    <2>5. QED
      BY <2>1, <2>2, <2>3, <2>4, Zenon
  <1> HIDE DEF at1, at2, good, warning, worst, inverted
  <1>3. stripes = {r \in {Clipped(B1), Clipped(B2)} : r.from < r.to}
    <2> HIDE DEF B1, B2
    <2>1. stripes = panelBackground(<<B1, B2>>, min, max)
      BY <1>2
    <2> HIDE DEF stripes
    <2>2. QED
      BY <2>1, TwoStripes
  <1> DEFINE r1 == Clipped(B1)
             r2 == Clipped(B2)
             in1 == IF inverted THEN at2 < v /\ v < at1 ELSE at1 < v /\ v < at2
             in2 == IF inverted THEN v < at2 ELSE at2 < v
  <1>4. /\ r1.status = warning /\ r2.status = worst
        /\ r1.from < r1.to /\ r1.from <= v /\ v <= r1.to <=> in1
        /\ r2.from < r2.to /\ r2.from <= v /\ v <= r2.to <=> in2
    <2>1. CASE inverted
      <3>1. /\ r1.status = warning /\ r2.status = worst
            /\ r1.from = MaxOf(min, at2) /\ r1.to = MinOf(max, at1)
            /\ r2.from = min /\ r2.to = MinOf(max, at2)
        BY <1>00, <1>0, <2>1 DEF Band, Clip
      <3> HIDE DEF r1, r2
      <3>2. QED
        BY <1>00, <2>1, <3>1 DEF MaxOf, MinOf
    <2>2. CASE ~inverted
      <3>1. /\ r1.status = warning /\ r2.status = worst
            /\ r1.from = MaxOf(min, at1) /\ r1.to = MinOf(max, at2)
            /\ r2.from = MaxOf(min, at2) /\ r2.to = max
        BY <1>00, <1>0, <2>2 DEF Band, Clip
      <3> HIDE DEF r1, r2
      <3>2. at1 < at2 /\ (in1 <=> at1 < v /\ v < at2) /\ (in2 <=> at2 < v)
        BY <1>00, <2>2
      <3>3. r1.from < r1.to /\ r1.from <= v /\ v <= r1.to <=> in1
        BY <1>00, <3>1, <3>2 DEF MaxOf, MinOf
      <3>4. r2.from < r2.to /\ r2.from <= v /\ v <= r2.to <=> in2
        BY <1>00, <3>1, <3>2 DEF MaxOf
      <3>5. QED
        BY <3>1, <3>3, <3>4
    <2>3. QED
      BY <2>1, <2>2
  <1> DEFINE best == ~in1 /\ ~in2
  <1>5. Classify(name, v) = IF best THEN good ELSE IF in1 THEN warning ELSE worst
    <2> DEFINE reached == {i \in DOMAIN breaks :
                              IF t.inverted THEN v >= breaks[i].at ELSE v <= breaks[i].at}
    <2>1. /\ reached \in SUBSET {1, 2}
          /\ 1 \in reached <=> IF inverted THEN v >= at1 ELSE v <= at1
          /\ 2 \in reached <=> IF inverted THEN v >= at2 ELSE v <= at2
      BY <1>1 DEF inverted
    <2>2. Classify(name, v) = IF reached = {} THEN worst ELSE breaks[Min(reached)].status
      BY Zenon DEF Classify, worst
    <2> HIDE DEF reached
    <2>3. CASE 1 \in reached
      <3>1. Classify(name, v) = good
        BY <1>1, <2>1, <2>2, <2>3, MinOfTwo
      <3>2. best
        BY <1>00, <2>1, <2>3
      <3>3. QED
        BY <3>1, <3>2
    <2>4. CASE 1 \notin reached /\ 2 \in reached
      <3>1. Classify(name, v) = warning
        BY <1>1, <2>1, <2>2, <2>4, MinOfTwo
      <3>2. in1
        BY <1>00, <2>1, <2>4
      <3>3. QED
        BY <3>1, <3>2
    <2>5. CASE 1 \notin reached /\ 2 \notin reached
      <3>1. Classify(name, v) = worst
        BY <2>1, <2>2, <2>5
      <3>2. in2 /\ ~in1
        BY <1>00, <2>1, <2>5
      <3>3. QED
        BY <3>1, <3>2
    <2>6. QED
      BY <2>3, <2>4, <2>5
  <1>6. ~(in1 /\ in2)
    BY <1>00
  <1>7. holding = {r \in {r1, r2} : r.from < r.to /\ r.from <= v /\ v <= r.to}
    BY <1>3
  <1> HIDE DEF r1, r2, in1, in2, holding
  <1>8. {r.status : r \in holding} = {Classify(name, v)} \ {"none", good}
    BY <1>00, <1>4, <1>5, <1>6, <1>7
  <1>9. QED
    BY <1>8 DEF holding, good, StatusesAt

LEMMA NoBreaks ==
    ASSUME NEW name, Parameter(name).breaks = <<>>, Parameter(name).worst = "none",
           NEW min, NEW max, NEW v
    PROVE  /\ panelBackground(BandsFor(name), min, max) = {}
           /\ Classify(name, v) = "none"
  <1>1. Len(<<>>) = 0 /\ DOMAIN <<>> = {}
    OBVIOUS
  <1>2. BandsFor(name) = <<>>
    BY <1>1, Zenon DEF BandsFor
  <1>3. panelBackground(<<>>, min, max) = {}
    BY <1>1 DEF panelBackground
  <1>4. Classify(name, v) = "none"
    BY <1>1 DEF Classify
  <1>5. QED
    BY <1>2, <1>3, <1>4

LEMMA ParameterShape ==
    ASSUME NEW name
    PROVE  LET t == Parameter(name)
           IN  \/ t.breaks = <<>> /\ t.worst = "none"
               \/ \E m, n \in Nat :
                    /\ t.breaks = <<Break(m, "good"), Break(n, "warning")>>
                    /\ t.worst = "critical"
                    /\ t.inverted \in BOOLEAN
                    /\ IF t.inverted THEN n < m ELSE m < n
  <1> DEFINE t == Parameter(name)
  <1> HIDE DEF t
  <1>1. CASE t = Unregistered
    <2>1. t.breaks = <<>> /\ t.worst = "none"
      BY <1>1 DEF Unregistered, ParameterDef
    <2>2. QED
      BY <2>1 DEF t
  <1>2. CASE t = ParameterDef("hPa", "", FALSE, FALSE, <<>>, "none")
    <2>1. t.breaks = <<>> /\ t.worst = "none"
      BY <1>2 DEF ParameterDef
    <2>2. QED
      BY <2>1 DEF t
  <1>3. ASSUME NEW unit, NEW mark, NEW zero, NEW inverted \in BOOLEAN, NEW m \in Nat, NEW n \in Nat,
               t = ParameterDef(unit, mark, zero, inverted,
                                <<Break(m, "good"), Break(n, "warning")>>, "critical"),
               IF inverted THEN n < m ELSE m < n
        PROVE  \E k, l \in Nat :
                    /\ t.breaks = <<Break(k, "good"), Break(l, "warning")>>
                    /\ t.worst = "critical"
                    /\ t.inverted \in BOOLEAN
                    /\ IF t.inverted THEN l < k ELSE k < l
    <2> DEFINE breaks == <<Break(m, "good"), Break(n, "warning")>>
    <2> HIDE DEF breaks
    <2>1. t = ParameterDef(unit, mark, zero, inverted, breaks, "critical")
      BY <1>3 DEF breaks
    <2>2. t.breaks = breaks /\ t.worst = "critical" /\ t.inverted = inverted
      BY <2>1 DEF ParameterDef
    <2>3. QED
      BY <1>3, <2>2 DEF breaks
  <1>4. CASE t = ParameterDef("C", "", FALSE, FALSE,
                 <<Break(30, "good"), Break(35, "warning")>>, "critical")
    <2>1. FALSE \in BOOLEAN /\ 30 \in Nat /\ 35 \in Nat /\ IF FALSE THEN 35 < 30 ELSE 30 < 35
      OBVIOUS
    <2>2. QED
      BY <1>3, <1>4, <2>1, Zenon DEF t
  <1>5. CASE t = ParameterDef("m/s", "", TRUE, FALSE,
                 <<Break(10, "good"), Break(20, "warning")>>, "critical")
    <2>1. FALSE \in BOOLEAN /\ 10 \in Nat /\ 20 \in Nat /\ IF FALSE THEN 20 < 10 ELSE 10 < 20
      OBVIOUS
    <2>2. QED
      BY <1>3, <1>5, <2>1, Zenon DEF t
  <1>6. CASE t = ParameterDef("mm", "bar", TRUE, FALSE,
                 <<Break(1, "good"), Break(5, "warning")>>, "critical")
    <2>1. FALSE \in BOOLEAN /\ 1 \in Nat /\ 5 \in Nat /\ IF FALSE THEN 5 < 1 ELSE 1 < 5
      OBVIOUS
    <2>2. QED
      BY <1>3, <1>6, <2>1, Zenon DEF t
  <1>7. CASE t = ParameterDef("km", "", TRUE, TRUE,
                 <<Break(10, "good"), Break(5, "warning")>>, "critical")
    <2>1. TRUE \in BOOLEAN /\ 10 \in Nat /\ 5 \in Nat /\ IF TRUE THEN 5 < 10 ELSE 10 < 5
      OBVIOUS
    <2>2. QED
      BY <1>3, <1>7, <2>1, Zenon DEF t
  <1>8. QED
    BY <1>1, <1>2, <1>4, <1>5, <1>6, <1>7, ParameterCases DEF t

LEMMA StripesMatch ==
    ASSUME NEW name, NEW min \in Int, NEW max \in Int, min < max,
           NEW v \in Int, min <= v, v <= max, v \notin Edges(name)
    PROVE  StatusesAt(panelBackground(BandsFor(name), min, max), v)
             = {Classify(name, v)} \ Unshaded(name)
  <1> DEFINE breaks == Parameter(name).breaks
             Plain == {"none"} \cup {breaks[k].status : k \in DOMAIN breaks \cap {1}}
             held == StatusesAt(panelBackground(BandsFor(name), min, max), v)
  <1>1. Unit \in Nat \ {0}
    BY Constants
  <1>2. ASSUME breaks = <<>>, Parameter(name).worst = "none"
        PROVE  held = {Classify(name, v)} \ Plain
    <2>1. panelBackground(BandsFor(name), min, max) = {} /\ Classify(name, v) = "none"
      BY <1>2, NoBreaks
    <2>2. held = {}
      BY <2>1 DEF StatusesAt
    <2>3. QED
      BY <2>1, <2>2
  <1>3. ASSUME NEW m \in Nat, NEW n \in Nat, NEW inverted \in BOOLEAN,
               IF inverted THEN n < m ELSE m < n,
               breaks = <<Break(m, "good"), Break(n, "warning")>>,
               Parameter(name).worst = "critical", Parameter(name).inverted = inverted
        PROVE  held = {Classify(name, v)} \ Plain
    <2> DEFINE a == m * Unit
               b == n * Unit
    <2>1. a \in Int /\ b \in Int /\ IF inverted THEN b < a ELSE a < b
      BY <1>1, <1>3
    <2>2. breaks = <<[at |-> a, status |-> "good"], [at |-> b, status |-> "warning"]>>
      BY <1>3 DEF Break
    <2> HIDE DEF a, b
    <2>3. /\ Len(breaks) = 2 /\ DOMAIN breaks = {1, 2}
          /\ breaks[1].at = a /\ breaks[2].at = b
          /\ breaks[1].status = "good" /\ breaks[2].status = "warning"
      BY <2>2
    <2>4. v # a /\ v # b
      BY <2>3 DEF Edges
    <2>5. Plain = {"none", "good"}
      BY <2>3
    <2>6. held = {Classify(name, v)} \ {"none", breaks[1].status}
      <3>1. /\ breaks[2].status \notin {"none", breaks[1].status}
            /\ Parameter(name).worst \notin {"none", breaks[1].status}
        BY <1>3, <2>3
      <3>2. /\ breaks[1].at \in Int /\ breaks[2].at \in Int /\ Parameter(name).inverted \in BOOLEAN
            /\ IF Parameter(name).inverted THEN breaks[2].at < breaks[1].at
                                           ELSE breaks[1].at < breaks[2].at
            /\ v # breaks[1].at /\ v # breaks[2].at
        BY <1>3, <2>1, <2>3, <2>4
      <3>3. Len(breaks) = 2 /\ DOMAIN breaks = {1, 2}
        BY <2>3
      <3>4. TwoApart(Parameter(name), v)
        BY <3>1, <3>2, <3>3 DEF TwoApart
      <3>5. QED
        BY <3>4, TwoBreaks
    <2>7. QED
      BY <2>3, <2>5, <2>6
  <1> HIDE DEF held, Plain
  <1>4. held = {Classify(name, v)} \ Plain
    <2>1. CASE breaks = <<>> /\ Parameter(name).worst = "none"
      BY <1>2, <2>1
    <2>2. ASSUME NEW m \in Nat, NEW n \in Nat,
                 breaks = <<Break(m, "good"), Break(n, "warning")>>,
                 Parameter(name).worst = "critical", Parameter(name).inverted \in BOOLEAN,
                 IF Parameter(name).inverted THEN n < m ELSE m < n
          PROVE  held = {Classify(name, v)} \ Plain
      BY <1>3, <2>2, Zenon
    <2>3. QED
      BY <2>1, <2>2, ParameterShape, Zenon
  <1>5. QED
    BY <1>4 DEF held, Plain, Unshaded

-----------------------------------------------------------------------------
(* Sorted samples. *)

LEMMA RanksAre ==
    ASSUME NEW rs, NEW N \in Nat, DOMAIN rs = 1..N, \A i \in 1..N : rs[i].t \in Int
    PROVE  /\ \A k \in 1..N : Rank(rs, k) \in 1..N
           /\ \A i, k \in 1..N : i # k => Rank(rs, i) # Rank(rs, k)
  <1> DEFINE Before(k) == {i \in 1..N : Earlier(rs, i, k)}
  <1>1. IsFiniteSet(1..N) /\ Cardinality(1..N) = N
    BY FS_Interval
  <1>2. \A k \in 1..N : Rank(rs, k) = Cardinality(Before(k)) + 1
    BY DEF Rank
  <1>3. \A i, k \in 1..N : i # k => Earlier(rs, i, k) \/ Earlier(rs, k, i)
    BY DEF Earlier
  <1>4. \A i, j, k \in 1..N : Earlier(rs, i, j) /\ Earlier(rs, j, k) => Earlier(rs, i, k)
    BY DEF Earlier
  <1>5. \A k \in 1..N : ~Earlier(rs, k, k)
    BY DEF Earlier
  <1>6. \A k \in 1..N : IsFiniteSet(Before(k)) /\ Cardinality(Before(k)) \in Nat
    <2> TAKE k \in 1..N
    <2>1. Before(k) \in SUBSET (1..N)
      OBVIOUS
    <2> HIDE DEF Before
    <2>2. IsFiniteSet(Before(k))
      BY <1>1, <2>1, FS_Subset
    <2>3. QED
      BY <2>2, FS_CardinalityType
  <1>7. ASSUME NEW k \in 1..N
        PROVE  Cardinality(Before(k)) < N
    <2>1. Before(k) \in SUBSET (1..N) /\ Before(k) # 1..N
      BY <1>5
    <2> HIDE DEF Before
    <2>2. Cardinality(Before(k)) <= N /\ Cardinality(Before(k)) # N
      BY <1>1, <2>1, FS_Subset
    <2>3. QED
      BY <1>6, <2>2
  <1>8. ASSUME NEW i \in 1..N, NEW k \in 1..N, Earlier(rs, i, k)
        PROVE  Cardinality(Before(i)) < Cardinality(Before(k))
    <2>1. Before(i) \in SUBSET Before(k) /\ Before(i) # Before(k)
      BY <1>4, <1>5, <1>8
    <2> HIDE DEF Before
    <2>2. /\ Cardinality(Before(i)) <= Cardinality(Before(k))
          /\ Cardinality(Before(i)) # Cardinality(Before(k))
      BY <1>6, <2>1, FS_Subset
    <2>3. QED
      BY <1>6, <2>2
  <1> HIDE DEF Before
  <1>9. \A k \in 1..N : Rank(rs, k) \in 1..N
    BY <1>2, <1>6, <1>7
  <1>10. \A i, k \in 1..N : i # k => Rank(rs, i) # Rank(rs, k)
    <2> SUFFICES ASSUME NEW i \in 1..N, NEW k \in 1..N, i # k
                 PROVE  Rank(rs, i) # Rank(rs, k)
      OBVIOUS
    <2>1. CASE Earlier(rs, i, k)
      BY <1>2, <1>6, <1>8, <2>1
    <2>2. CASE Earlier(rs, k, i)
      BY <1>2, <1>6, <1>8, <2>2
    <2>3. QED
      BY <1>3, <2>1, <2>2
  <1>11. QED
    BY <1>9, <1>10

\* Every rank is some row's, so that sorting loses no place.
LEMMA SortedIs ==
    ASSUME NEW rs, NEW N \in Nat, DOMAIN rs = 1..N, \A i \in 1..N : rs[i].t \in Int
    PROVE  /\ DOMAIN Sorted(rs) = 1..N
           /\ \A n \in 1..N : \E k \in 1..N : Rank(rs, k) = n /\ Sorted(rs)[n] = rs[k]
  <1> DEFINE f == [k \in 1..N |-> Rank(rs, k)]
  <1>1. IsFiniteSet(1..N) /\ Cardinality(1..N) = N
    BY FS_Interval
  <1>2. /\ \A k \in 1..N : Rank(rs, k) \in 1..N
        /\ \A i, k \in 1..N : i # k => Rank(rs, i) # Rank(rs, k)
    BY RanksAre
  <1>3. f \in Injection(1..N, 1..N)
    BY <1>2 DEF Injection, IsInjective
  <1> HIDE DEF f
  <1>4. f \in Surjection(1..N, 1..N)
    BY <1>1, <1>3, FS_Injection
  <1>5. \A n \in 1..N : \E k \in 1..N : f[k] = n
    BY <1>4 DEF Surjection
  <1>6. \A n \in 1..N : \E k \in 1..N : Rank(rs, k) = n
    BY <1>5 DEF f
  <1>7. DOMAIN Sorted(rs) = 1..N
    BY DEF Sorted
  <1>8. ASSUME NEW n \in 1..N
        PROVE  \E k \in 1..N : Rank(rs, k) = n /\ Sorted(rs)[n] = rs[k]
    <2> DEFINE c == CHOOSE k \in DOMAIN rs : Rank(rs, k) = n
    <2>1. c \in 1..N /\ Rank(rs, c) = n
      BY <1>6
    <2>2. Sorted(rs)[n] = rs[c]
      BY DEF Sorted
    <2> HIDE DEF c
    <2>3. QED
      BY <2>1, <2>2
  <1>9. QED
    BY <1>7, <1>8

-----------------------------------------------------------------------------
(* Panels from samples. *)

LEMMA SeriesOfIs ==
    ASSUME NEW param \in Texts, NEW points \in Seq(Points)
    PROVE  SeriesOf(param, points) \in SeriesType
  <1>1. "" \in Texts
    BY TextAssumption
  <1>2. 0 \in Int
    OBVIOUS
  <1>3. (param # "") \in BOOLEAN
    OBVIOUS
  <1>4. QED
    BY <1>1, <1>2, <1>3, Zenon DEF SeriesOf, SeriesType

LEMMA SampleSeries ==
    ASSUME NEW rs, NEW N \in Nat, DOMAIN rs = 1..N,
           \A i \in 1..N : /\ rs[i].t \in Nat
                           /\ \A n \in DOMAIN rs[i].values : rs[i].values[n] \in Values,
           NEW param \in Texts, NEW dirParam
    PROVE  SeriesOf(param, [i \in DOMAIN rs |-> PointOf(rs[i], param, dirParam)]) \in SeriesType
  <1>1. /\ Reach \in Nat /\ Nil \in Values
        /\ \A r \in Values : r \in OrNil(Int) \cup {NotFinite}
    BY Constants DEF Values, Readings, OrNil
  <1>3. \A i \in 1..N : \A name : ValueOf(rs[i], name) \in Values
    BY <1>1 DEF ValueOf
  <1>4. \A i \in 1..N : PointOf(rs[i], param, dirParam) \in Points
    BY <1>1, <1>3 DEF PointOf, Points
  <1> DEFINE points == [i \in DOMAIN rs |-> PointOf(rs[i], param, dirParam)]
  <1>5. points \in Seq(Points)
    BY <1>4
  <1> HIDE DEF points
  <1>6. SeriesOf(param, points) \in SeriesType
    BY <1>5, SeriesOfIs
  <1>7. QED
    BY <1>6 DEF points

BarePanelType == {p \in PanelType : p.min = Nil /\ p.max = Nil}

LEMMA BarePanels ==
    ASSUME NEW series \in Seq(SeriesType)
    PROVE  Panel(series, BarePanel) \in BarePanelType
  <1>1. Nil \in OrNil(Int) /\ <<>> \in Seq(BandType)
    BY DEF OrNil
  <1>2. QED
    BY <1>1 DEF Panel, BarePanel, BarePanelType, PanelType

LEMMA SamplePanelsAre ==
    ASSUME NEW sample \in Samples, kind \in {"timeseries", "meteogram", "windrose"}
    PROVE  SamplePanels(Sorted(sample.rows), sample.params) \in Seq(BarePanelType)
  <1> DEFINE rs == Sorted(sample.rows)
             params == sample.params
             N == Len(sample.rows)
  <1>1. /\ params \in Seq(Texts) /\ DOMAIN sample.rows = 1..N /\ N \in Nat
        /\ \A i \in 1..N :
             /\ sample.rows[i].t \in Nat
             /\ \A n \in DOMAIN sample.rows[i].values : sample.rows[i].values[n] \in Values
    BY SampleAssumption
  <1> HIDE DEF N, params
  <1>2. /\ DOMAIN rs = 1..N
        /\ \A n \in 1..N : \E k \in 1..N : rs[n] = sample.rows[k]
    <2> DEFINE asked == sample.rows
    <2>1. DOMAIN asked = 1..N /\ N \in Nat /\ \A i \in 1..N : asked[i].t \in Int
      BY <1>1
    <2> HIDE DEF asked
    <2>2. /\ DOMAIN Sorted(asked) = 1..N
          /\ \A n \in 1..N : \E k \in 1..N : Sorted(asked)[n] = asked[k]
      BY <2>1, SortedIs
    <2>3. QED
      BY <2>2 DEF asked
  <1>3. \A i \in 1..N : /\ rs[i].t \in Nat
                        /\ \A n \in DOMAIN rs[i].values : rs[i].values[n] \in Values
    BY <1>1, <1>2
  <1> HIDE DEF rs
  <1>4. \A n \in DOMAIN params : params[n] \in Texts
    BY <1>1
  <1>5. \A n \in DOMAIN params : PlainSeries(rs, params, n) \in SeriesType
    BY <1>1, <1>2, <1>3, <1>4, SampleSeries DEF PlainSeries
  <1>6. CASE kind = "timeseries"
    <2> DEFINE all == [n \in DOMAIN params |-> PlainSeries(rs, params, n)]
    <2>1. all \in Seq(SeriesType)
      BY <1>1, <1>5
    <2>2. SamplePanels(rs, params) = <<Panel(all, BarePanel)>>
      BY <1>6 DEF SamplePanels
    <2> HIDE DEF all
    <2>3. Panel(all, BarePanel) \in BarePanelType
      BY <2>1, BarePanels
    <2>4. QED
      BY <2>2, <2>3 DEF rs, params
  <1>7. CASE kind = "meteogram"
    <2> DEFINE one(n) == Panel(<<PlainSeries(rs, params, n)>>, BarePanel)
    <2>1. \A n \in DOMAIN params : <<PlainSeries(rs, params, n)>> \in Seq(SeriesType)
      BY <1>5
    <2>2. \A n \in DOMAIN params : one(n) \in BarePanelType
      BY <2>1, BarePanels
    <2>3. SamplePanels(rs, params) = [n \in DOMAIN params |-> one(n)]
      BY <1>7 DEF SamplePanels
    <2> HIDE DEF one
    <2>4. [n \in DOMAIN params |-> one(n)] \in Seq(BarePanelType)
      BY <1>1, <2>2
    <2>5. QED
      BY <2>3, <2>4 DEF rs, params
  <1>8. CASE kind = "windrose"
    <2> DEFINE rp == RoseParams(params)
               s == SeriesOf(rp[1], [i \in DOMAIN rs |-> PointOf(rs[i], rp[1], rp[2])])
    <2>1. rp[1] \in Texts
      <3>1. "wind_speed" \in Texts
        BY TextAssumption
      <3>2. Len(params) > 0 => 1 \in DOMAIN params
        BY <1>1
      <3>3. rp[1] = IF Len(params) > 0 THEN params[1] ELSE "wind_speed"
        BY DEF RoseParams
      <3>4. QED
        BY <1>4, <3>1, <3>2, <3>3
    <2>2. SamplePanels(rs, params) = <<Panel(<<s>>, BarePanel)>>
      BY <1>8 DEF SamplePanels
    <2> HIDE DEF rp
    <2>3. s \in SeriesType
      <3> DEFINE speed == rp[1]
                 dir == rp[2]
      <3> HIDE DEF speed, dir
      <3>1. SeriesOf(speed, [i \in DOMAIN rs |-> PointOf(rs[i], speed, dir)]) \in SeriesType
        BY <1>1, <1>2, <1>3, <2>1, SampleSeries DEF speed
      <3>2. QED
        BY <3>1 DEF speed, dir
    <2> HIDE DEF s
    <2>4. <<s>> \in Seq(SeriesType)
      BY <2>3
    <2>5. Panel(<<s>>, BarePanel) \in BarePanelType
      BY <2>4, BarePanels
    <2>6. QED
      BY <2>2, <2>5 DEF rs, params
  <1>9. QED
    BY <1>6, <1>7, <1>8

-----------------------------------------------------------------------------
(* Resolved, one panel. *)

LEMMA EffectiveAre ==
    ASSUME NEW s \in SeriesType
    PROVE  EffectiveUnit(s) \in Texts /\ EffectiveMark(s) \in Texts
  <1> DEFINE t == Parameter(s.param)
  <1>1. t.unit \in Texts /\ t.mark \in Texts
    BY ParameterIs DEF ParameterType
  <1>2. s.unit \in Texts /\ s.mark \in Texts
    BY DEF SeriesType
  <1>3. "line" \in Texts
    BY TextAssumption
  <1>4. EffectiveUnit(s) \in Texts
    BY <1>1, <1>2 DEF EffectiveUnit
  <1>5. EffectiveMark(s) \in Texts
    BY <1>1, <1>2, <1>3 DEF EffectiveMark
  <1>6. QED
    BY <1>4, <1>5

LEMMA BandsForIs ==
    ASSUME NEW name
    PROVE  BandsFor(name) \in Seq(BandType)
  <1> DEFINE t == Parameter(name)
             breaks == t.breaks
             n == Len(breaks)
             Between(i) == IF t.inverted
                THEN Band(breaks[i + 1].at, breaks[i].at, breaks[i + 1].status, TRUE)
                ELSE Band(breaks[i].at, breaks[i + 1].at, breaks[i + 1].status, TRUE)
             Past == IF t.inverted THEN Band(Nil, breaks[n].at, t.worst, TRUE)
                                   ELSE Band(breaks[n].at, Nil, t.worst, TRUE)
  <1>1. breaks \in Seq([at : Int, status : Texts]) /\ t.worst \in Texts
    BY ParameterIs DEF ParameterType
  <1>2. n \in Nat /\ \A i \in 1..n : breaks[i].at \in Int /\ breaks[i].status \in Texts
    <2> HIDE DEF breaks
    <2>1. n \in Nat /\ DOMAIN breaks = 1..n
      BY <1>1
    <2> DEFINE R == [at : Int, status : Texts]
    <2>2. breaks \in Seq(R)
      BY <1>1
    <2> HIDE DEF R, n
    <2>3. \A i \in 1..n : breaks[i] \in R
      BY <2>1, <2>2
    <2>4. QED
      BY <2>1, <2>3 DEF R
  <1>3. \A from, to \in OrNil(Int), status \in Texts : Band(from, to, status, TRUE) \in BandType
    BY DEF Band, BandType
  <1>4. Nil \in OrNil(Int) /\ \A k \in Int : k \in OrNil(Int)
    BY DEF OrNil
  <1>5. BandsFor(name) = IF n = 0 THEN <<>> ELSE Append([i \in 1..n - 1 |-> Between(i)], Past)
    BY Zenon DEF BandsFor
  <1> HIDE DEF breaks, n
  <1>6. CASE n = 0
    BY <1>5, <1>6
  <1>7. CASE n # 0
    <2>1. \A i \in 1..n - 1 : i \in 1..n /\ i + 1 \in 1..n
      BY <1>2
    <2>2. \A i \in 1..n - 1 : Between(i) \in BandType
      BY <1>2, <1>3, <1>4, <2>1
    <2>3. n \in 1..n /\ n - 1 \in Nat
      BY <1>2, <1>7
    <2>4. Past \in BandType
      BY <1>1, <1>2, <1>3, <1>4, <2>3
    <2> HIDE DEF Between, Past
    <2>5. [i \in 1..n - 1 |-> Between(i)] \in Seq(BandType)
      BY <2>2, <2>3
    <2>6. QED
      BY <1>5, <1>7, <2>4, <2>5
  <1>8. QED
    BY <1>6, <1>7

LEMMA DealtIs ==
    ASSUME NEW p, NEW j \in Int
    PROVE  /\ IsFiniteSet({k \in 1..j : p.series[k].slot = 0})
           /\ Dealt(p, j) \in Nat
  <1> DEFINE S == {k \in 1..j : p.series[k].slot = 0}
  <1>1. IsFiniteSet(1..j) /\ S \in SUBSET (1..j)
    BY FS_Interval
  <1> HIDE DEF S
  <1>2. IsFiniteSet(S)
    BY <1>1, FS_Subset
  <1>3. Cardinality(S) \in Nat
    BY <1>2, FS_CardinalityType
  <1>4. QED
    BY <1>2, <1>3 DEF S, Dealt

LEMMA ResolvedIs ==
    ASSUME NEW p \in PanelType, PinsOf(p), slot \in Nat
    PROVE  LET q == Resolved(p)
           IN  /\ q \in ResolvedType
               /\ ResolvedFrom(q, p)
               /\ q.min \in -Wide..Wide /\ q.max \in -Wide..Wide /\ q.min < q.max
               /\ \A j \in DOMAIN p.series : q.series[j].slot = slotOf(p, j)
  <1> DEFINE y == resolveY(p)
             Painted(j) == [p.series[j] EXCEPT !.slot = slotOf(p, j),
                                               !.unit = EffectiveUnit(p.series[j]),
                                               !.mark = EffectiveMark(p.series[j])]
             painted == [j \in DOMAIN p.series |-> Painted(j)]
             bands == resolveBands(p)
             q == Resolved(p)
  <1>1. /\ p.series \in Seq(SeriesType) /\ p.zero \in BOOLEAN /\ p.show \in BOOLEAN
        /\ p.bands \in Seq(BandType)
    BY DEF PanelType
  <1>2. /\ y.min \in -Wide..Wide /\ y.max \in -Wide..Wide /\ y.min < y.max
        /\ y.zero \in BOOLEAN /\ y.ticks \in Seq(Int)
    BY <1>1, ResolveYIs
  <1>3. y.min \in Int /\ y.max \in Int
    BY <1>2, Constants DEF Wide
  <1>4. y = [min |-> y.min, max |-> y.max, zero |-> y.zero, ticks |-> y.ticks]
    BY Zenon DEF resolveY
  <1> HIDE DEF y
  <1>5. bands \in Seq(BandType)
    BY <1>1, BandsForIs DEF resolveBands
  <1>6. \A j \in DOMAIN p.series : slotOf(p, j) \in Int
    <2> TAKE j \in DOMAIN p.series
    <2>1. p.series[j] \in SeriesType /\ j \in Int
      BY <1>1
    <2>2. p.series[j].slot \in Int
      BY <2>1 DEF SeriesType
    <2>3. Dealt(p, j) \in Nat
      BY <2>1, DealtIs
    <2>4. QED
      BY <2>2, <2>3 DEF slotOf
  <1>7. \A j \in DOMAIN p.series : Painted(j) \in SeriesType
    <2> TAKE j \in DOMAIN p.series
    <2>1. p.series[j] \in SeriesType
      BY <1>1
    <2>2. slotOf(p, j) \in Int /\ EffectiveUnit(p.series[j]) \in Texts
          /\ EffectiveMark(p.series[j]) \in Texts
      BY <1>6, <2>1, EffectiveAre
    <2>3. QED
      BY <2>1, <2>2 DEF SeriesType
  <1>8. painted \in Seq(SeriesType)
    <2> HIDE DEF Painted
    <2>1. QED
      BY <1>1, <1>7
  <1>9. q = [min |-> y.min, max |-> y.max, zero |-> y.zero, ticks |-> y.ticks,
             show |-> p.show, bands |-> bands, series |-> painted]
    BY DEF Resolved, y
  <1>10. \A j \in DOMAIN p.series :
            /\ painted[j].slot = slotOf(p, j)
            /\ painted[j] = [p.series[j] EXCEPT !.slot = painted[j].slot,
                                                !.unit = EffectiveUnit(p.series[j]),
                                                !.mark = EffectiveMark(p.series[j])]
            /\ p.series[j].slot # 0 => painted[j].slot = p.series[j].slot
    <2> TAKE j \in DOMAIN p.series
    <2>1. painted[j] = Painted(j)
      OBVIOUS
    <2>2. Painted(j).slot = slotOf(p, j)
      BY <1>1 DEF SeriesType
    <2>3. p.series[j].slot # 0 => slotOf(p, j) = p.series[j].slot
      BY DEF slotOf
    <2>4. QED
      BY <2>1, <2>2, <2>3
  <1>11. DOMAIN painted = DOMAIN p.series
    OBVIOUS
  <1> HIDE DEF painted, bands, q
  <1>12. /\ q.min = y.min /\ q.max = y.max /\ q.zero = y.zero /\ q.ticks = y.ticks
         /\ q.show = p.show /\ q.bands = bands /\ q.series = painted
    BY <1>9
  <1>13. q \in ResolvedType
    BY <1>1, <1>2, <1>3, <1>5, <1>8, <1>9 DEF ResolvedType
  <1>14. ResolvedFrom(q, p)
    <2>1. [min |-> q.min, max |-> q.max, zero |-> q.zero, ticks |-> q.ticks] = resolveY(p)
      BY <1>4, <1>12 DEF y
    <2>2. q.bands = resolveBands(p)
      BY <1>12 DEF bands
    <2>3. QED
      BY <1>10, <1>11, <1>12, <2>1, <2>2 DEF ResolvedFrom
  <1>15. QED
    BY <1>2, <1>10, <1>12, <1>13, <1>14 DEF q

-----------------------------------------------------------------------------
(* Every step keeps the types. *)

LEMMA RoseFields ==
    ASSUME NEW sectors, NEW edges, NEW below, NEW points
    PROVE  LET r == Rose(sectors, edges, below, points)
           IN  r.sectors = sectors /\ r.bands = edges /\ r.calmBelow = below
  BY Zenon DEF Rose

OptionsType == [sectors : Int, bands : Seq(Int), calmBelow : Int]

LEMMA OptionsAre ==
    /\ NoOptions \in OptionsType /\ NoOptions.sectors = 0
    /\ defaultSpeedBands \in Seq(Int) /\ defaultSpeedBands # <<>>
    /\ defaultCalmBelow \in Nat \ {0}
    /\ defaultSectors = 16
  <1>1. Unit \in Nat \ {0} /\ Unit % 10 = 0
    BY ScaleAssumption
  <1>2. <<2 * Unit, 4 * Unit, 6 * Unit, 10 * Unit, 15 * Unit>> \in Seq(Int)
    BY <1>1
  <1>3. <<2 * Unit, 4 * Unit, 6 * Unit, 10 * Unit, 15 * Unit>> # <<>>
    OBVIOUS
  <1>4. Unit \div 2 \in Nat \ {0}
    BY <1>1
  <1>5. <<>> \in Seq(Int)
    OBVIOUS
  <1>6. NoOptions \in OptionsType /\ NoOptions.sectors = 0
    BY <1>5 DEF NoOptions, OptionsType
  <1>7. QED
    BY <1>2, <1>3, <1>4, <1>6 DEF defaultSpeedBands, defaultCalmBelow, defaultSectors

LEMMA ResolvedRose ==
    ASSUME NEW o \in OptionsType, NEW points
    PROVE  LET r == resolveRose(o, points)
               p == [n \in DOMAIN o |-> r[n]]
           IN  /\ p \in OptionsType
               /\ p.sectors = (IF o.sectors = 0 THEN defaultSectors ELSE o.sectors)
               /\ p.bands = (IF o.bands = <<>> THEN defaultSpeedBands ELSE o.bands)
               /\ p.calmBelow = (IF o.calmBelow = 0 THEN defaultCalmBelow ELSE o.calmBelow)
               /\ r = Rose(p.sectors, p.bands, p.calmBelow, points)
  <1> DEFINE sectors == IF o.sectors = 0 THEN defaultSectors ELSE o.sectors
             edges == IF o.bands = <<>> THEN defaultSpeedBands ELSE o.bands
             below == IF o.calmBelow = 0 THEN defaultCalmBelow ELSE o.calmBelow
             r == resolveRose(o, points)
             p == [n \in DOMAIN o |-> r[n]]
  <1>1. sectors \in Int /\ edges \in Seq(Int) /\ below \in Int
    BY OptionsAre DEF OptionsType
  <1>2. r = Rose(sectors, edges, below, points)
    BY DEF resolveRose
  <1> HIDE DEF sectors, edges, below, r
  <1>3. r.sectors = sectors /\ r.bands = edges /\ r.calmBelow = below
    BY <1>2, RoseFields
  <1>4. p = [sectors |-> sectors, bands |-> edges, calmBelow |-> below]
    BY <1>3 DEF OptionsType
  <1> HIDE DEF p
  <1>5. /\ p \in OptionsType
        /\ p.sectors = sectors /\ p.bands = edges /\ p.calmBelow = below
    BY <1>1, <1>4 DEF OptionsType
  <1>6. QED
    BY <1>2, <1>5 DEF sectors, edges, below, r, p

LEMMA ChoicesAre ==
    /\ \A c \in PanelChoices : Panel(<<>>, c) \in PanelType /\ Within(c.min) /\ Within(c.max)
    /\ SeriesChoices \subseteq SeriesType
  <1>1. \A c \in PanelChoices : /\ c.min \in Readings /\ c.max \in Readings
                                /\ c.zero \in BOOLEAN /\ c.show \in BOOLEAN
                                /\ c.bands \in Seq(BandType)
    BY ChartAssumption
  <1>2. Readings \subseteq OrNil(Int)
    BY Constants DEF Readings, OrNil
  <1>3. <<>> \in Seq(SeriesType)
    OBVIOUS
  <1>4. \A c \in PanelChoices : Panel(<<>>, c) \in PanelType
    BY <1>1, <1>2, <1>3 DEF Panel, PanelType
  <1>5. QED
    BY <1>1, <1>4, ChartAssumption DEF Within

\* The panel that is resolved next.
LEMMA NextPanel ==
    ASSUME ShapeInv, Len(out) < Len(panels)
    PROVE  LET p == panels[Len(out) + 1]
           IN  /\ Len(out) \in Nat /\ Len(out) + 1 \in DOMAIN panels
               /\ p \in PanelType /\ PinsOf(p)
  <1>1. panels \in Seq(PanelType) /\ out \in Seq(ResolvedType)
    BY DEF ShapeInv, TypeOK
  <1> DEFINE n == Len(out)
  <1>2. n \in Nat /\ n + 1 \in DOMAIN panels
    BY <1>1
  <1>3. panels[n + 1] \in PanelType
    <2> HIDE DEF n
    <2>1. QED
      BY <1>1, <1>2
  <1>4. PinsOf(panels[n + 1])
    <2> HIDE DEF n
    <2>1. QED
      BY <1>2 DEF ShapeInv, PinsInv
  <1>5. QED
    BY <1>2, <1>3, <1>4

LEMMA MoreSeries ==
    ASSUME NEW q \in PanelType, NEW s \in SeriesType
    PROVE  [q EXCEPT !.series = Append(@, s)] \in PanelType
  <1> DEFINE S == SeriesType
             B == BandType
             more == Append(q.series, s)
  <1>1. q \in [series : Seq(S), min : OrNil(Int), max : OrNil(Int),
               zero : BOOLEAN, show : BOOLEAN, bands : Seq(B)]
    BY DEF PanelType
  <1>2. s \in S
    OBVIOUS
  <1> HIDE DEF S, B
  <1>3. q.series \in Seq(S)
    BY <1>1
  <1>4. more \in Seq(S)
    BY <1>2, <1>3
  <1> HIDE DEF more
  <1>5. [q EXCEPT !.series = more] \in [series : Seq(S), min : OrNil(Int), max : OrNil(Int),
                                        zero : BOOLEAN, show : BOOLEAN, bands : Seq(B)]
    BY <1>1, <1>4
  <1>6. QED
    BY <1>5 DEF PanelType, S, B, more

\* The length of a panel's list of series.
LEMMA SeriesCount ==
    ASSUME NEW q \in PanelType
    PROVE  Len(q.series) \in Nat /\ DOMAIN q.series = 1..Len(q.series)
  <1> DEFINE S == SeriesType
  <1>1. q.series \in Seq(S)
    BY DEF PanelType
  <1> HIDE DEF S
  <1>2. QED
    BY <1>1

LEMMA TypeStep ==
    ASSUME ShapeInv, [Next]_vars
    PROVE  TypeOK'
  <1> USE DEF given
  <1>1. TypeOK /\ RoseInv /\ AxisInv
    BY DEF ShapeInv
  <1>2. ASSUME NEW c \in PanelChoices, AddPanel(c)
        PROVE  TypeOK'
    <2>1. Panel(<<>>, c) \in PanelType
      BY ChoicesAre
    <2>2. panels' \in Seq(PanelType) /\ Len(panels') = Len(panels) + 1
      BY <1>1, <1>2, <2>1 DEF AddPanel, TypeOK
    <2>3. QED
      BY <1>1, <1>2, <2>2 DEF AddPanel, TypeOK
  <1>3. ASSUME NEW s \in SeriesChoices, AddSeries(s)
        PROVE  TypeOK'
    <2> DEFINE n == Len(panels)
               p == [panels[n] EXCEPT !.series = Append(@, s)]
    <2>1. s \in SeriesType
      BY ChoicesAre
    <2>2. panels \in Seq(PanelType) /\ n \in Nat /\ n \in DOMAIN panels
      BY <1>1, <1>3 DEF AddSeries, TypeOK
    <2>3. panels[n] \in PanelType
      <3> HIDE DEF n
      <3>1. QED
        BY <2>2
    <2>4. p \in PanelType
      <3> DEFINE q == panels[n]
      <3> HIDE DEF q
      <3>1. [q EXCEPT !.series = Append(@, s)] \in PanelType
        BY <2>1, <2>3, MoreSeries DEF q
      <3>2. QED
        BY <3>1 DEF q
    <2>5. panels' = [panels EXCEPT ![n] = p]
      BY <1>3 DEF AddSeries
    <2> HIDE DEF p
    <2>6. panels' \in Seq(PanelType) /\ Len(panels') = Len(panels)
      BY <2>2, <2>4, <2>5
    <2>7. QED
      BY <1>1, <1>3, <2>6 DEF AddSeries, TypeOK
  <1>4. ASSUME NEW sample \in Samples, FromSamples(sample)
        PROVE  TypeOK'
    <2>1. panels' \in Seq(BarePanelType)
      BY <1>1, <1>4, SamplePanelsAre DEF FromSamples, TypeOK
    <2>2. panels' \in Seq(PanelType)
      <3>1. BarePanelType \subseteq PanelType
        BY DEF BarePanelType
      <3> HIDE DEF BarePanelType
      <3>2. QED
        BY <2>1, <3>1
    <2>3. opts' \in [sectors : Int, bands : Seq(Int), calmBelow : Int]
      BY <1>4, OptionsAre DEF FromSamples, OptionsType
    <2>4. xpins' \in OrNil(Nat) \X OrNil(Nat)
      BY <1>4 DEF FromSamples, OrNil
    <2>5. Len(panels') >= Len(panels)
      <3>1. Len(panels) = 0
        BY <1>4 DEF FromSamples
      <3>2. QED
        BY <2>2, <3>1
    <2>6. Len(out) <= Len(panels')
      BY <1>1, <2>2, <2>5 DEF TypeOK
    <2>7. QED
      BY <1>1, <1>4, <2>2, <2>3, <2>4, <2>6 DEF FromSamples, TypeOK
  <1>5. CASE Validate
    BY <1>1, <1>5 DEF Validate, TypeOK
  <1>6. CASE ResolvePanel
    <2> DEFINE n == Len(out) + 1
               p == panels[n]
    <2>1. Len(out) < Len(panels)
      BY <1>6 DEF ResolvePanel
    <2>2. n \in DOMAIN panels /\ p \in PanelType /\ PinsOf(p) /\ Len(out) \in Nat
      BY <2>1, NextPanel
    <2>3. out' = Append(out, Resolved(p)) /\ slot' = slot + Dealt(p, Len(p.series))
      BY <1>6 DEF ResolvePanel
    <2> HIDE DEF n, p
    <2>4. Resolved(p) \in ResolvedType
      BY <1>1, <2>2, ResolvedIs DEF TypeOK
    <2>5. out' \in Seq(ResolvedType) /\ Len(out') = Len(out) + 1
      BY <1>1, <2>3, <2>4 DEF TypeOK
    <2>6. Len(p.series) \in Int
      BY <2>2, SeriesCount
    <2>7. Dealt(p, Len(p.series)) \in Nat
      BY <2>6, DealtIs
    <2>8. slot' \in Nat
      BY <1>1, <2>3, <2>7 DEF TypeOK
    <2>9. Len(out') <= Len(panels)
      BY <1>1, <2>1, <2>2, <2>5 DEF TypeOK
    <2>10. QED
      BY <1>1, <1>6, <2>5, <2>8, <2>9 DEF ResolvePanel, TypeOK
  <1>7. CASE ResolveX
    BY <1>1, <1>7 DEF ResolveX, TypeOK
  <1>8. CASE ResolveRose
    BY <1>1, <1>8 DEF ResolveRose, TypeOK
  <1>9. CASE Again
    <2>1. panels' \in Seq(PanelType) /\ Len(panels') = Len(out)
      <3> DEFINE P(i) == Panel(out[i].series, out[i])
      <3>1. \A i \in DOMAIN out : P(i) \in PanelType
        <4> TAKE i \in DOMAIN out
        <4>1. out[i] \in ResolvedType
          BY <1>1 DEF TypeOK
        <4>2. QED
          BY <4>1 DEF ResolvedType, PanelType, Panel, OrNil
      <3>2. panels' = [i \in DOMAIN out |-> P(i)]
        BY <1>9 DEF Again
      <3> HIDE DEF P
      <3>3. out \in Seq(ResolvedType)
        BY <1>1 DEF TypeOK
      <3>4. QED
        BY <3>1, <3>2, <3>3
    <2>2. opts' \in [sectors : Int, bands : Seq(Int), calmBelow : Int]
      <3>1. opts \in OptionsType
        BY <1>1 DEF TypeOK, OptionsType
      <3>2. opts' = [n \in DOMAIN opts |-> rose[n]] /\ pc = "done"
        BY <1>9 DEF Again
      <3>3. CASE kind = "windrose"
        <4>1. rose = resolveRose(opts, panels[1].series[1].points)
          BY <1>1, <3>2, <3>3 DEF RoseInv
        <4>2. QED
          BY <3>1, <3>2, <4>1, ResolvedRose DEF OptionsType
      <3>4. CASE kind # "windrose"
        <4>1. opts = NoOptions /\ rose = NoOptions
          BY <1>1, <3>2, <3>4 DEF RoseInv, NoRose
        <4>2. opts' = NoOptions
          BY <3>2, <4>1 DEF NoOptions
        <4>3. QED
          BY <4>2, OptionsAre DEF OptionsType
      <3>5. QED
        BY <3>3, <3>4
    <2>3. xpins' \in OrNil(Nat) \X OrNil(Nat)
      <3>1. CASE kind = "windrose"
        BY <1>1, <1>9, <3>1 DEF Again, TypeOK
      <3>2. CASE kind # "windrose"
        <4>1. PICK t0 \in Nat, t1 \in Nat : EndsOf(x, t0, t1)
          BY <1>1, <1>9, <3>2 DEF Again, AxisInv
        <4>2. x.t0 = InMillis(t0) /\ x.t1 = InMillis(t1)
          BY <4>1 DEF EndsOf
        <4>3. x.t0 \in Nat /\ x.t1 \in Nat
          BY <4>2, InMillisIs
        <4>4. QED
          BY <1>9, <3>2, <4>3 DEF Again, OrNil
      <3>3. QED
        BY <3>1, <3>2
    <2>4. out' = <<>> /\ slot' = 0 /\ Len(<<>>) = 0 /\ <<>> \in Seq(ResolvedType) /\ 0 \in Nat
      BY <1>9 DEF Again
    <2>5. Len(out') <= Len(panels')
      <3>1. Len(panels') \in Nat
        BY <2>1
      <3>2. QED
        BY <2>4, <3>1
    <2>6. QED
      BY <1>1, <1>9, <2>1, <2>2, <2>3, <2>4, <2>5 DEF Again, TypeOK
  <1>10. CASE UNCHANGED vars
    BY <1>1, <1>10 DEF vars, TypeOK
  <1>11. QED
    BY <1>2, <1>3, <1>4, <1>5, <1>6, <1>7, <1>8, <1>9, <1>10 DEF Next

-----------------------------------------------------------------------------
(* The time axis of a chart. *)

LEMMA FiniteRange ==
    ASSUME NEW S, IsFiniteSet(S), NEW g
    PROVE  IsFiniteSet({g[i] : i \in S})
  <1> DEFINE T == {g[i] : i \in S}
             h == [i \in S |-> g[i]]
  <1>1. h \in Surjection(S, T)
    BY DEF Surjection
  <1> HIDE DEF T, h
  <1>2. IsFiniteSet(T)
    BY <1>1, FS_Surjection
  <1>3. QED
    BY <1>2 DEF T

LEMMA FiniteDomain ==
    ASSUME NEW S, NEW s \in Seq(S)
    PROVE  IsFiniteSet(DOMAIN s)
  <1>1. Len(s) \in Nat /\ DOMAIN s = 1..Len(s)
    OBVIOUS
  <1>2. QED
    BY <1>1, FS_Interval

LEMMA TimesAre ==
    ASSUME NEW ps \in Seq(PanelType)
    PROVE  timeExtent(ps) \in SUBSET Nat /\ IsFiniteSet(timeExtent(ps))
  <1> DEFINE Read(s) == {s.points[k].t : k \in DOMAIN s.points}
             OfPanel(p) == UNION {Read(p.series[j]) : j \in DOMAIN p.series}
  <1>1. \A i \in DOMAIN ps : ps[i] \in PanelType
    OBVIOUS
  <1>2. \A p \in PanelType : p.series \in Seq(SeriesType)
    BY DEF PanelType
  <1>3. \A p \in PanelType : \A j \in DOMAIN p.series : p.series[j] \in SeriesType
    <2> TAKE p \in PanelType
    <2> DEFINE q == p.series
    <2>1. q \in Seq(SeriesType)
      BY <1>2
    <2> HIDE DEF q
    <2>2. \A j \in DOMAIN q : q[j] \in SeriesType
      BY <2>1
    <2>3. QED
      BY <2>2 DEF q
  <1>4. ASSUME NEW s \in SeriesType
        PROVE  Read(s) \in SUBSET Nat /\ IsFiniteSet(Read(s))
    <2> DEFINE q == s.points
               g == [k \in DOMAIN q |-> q[k].t]
    <2>1. q \in Seq(Points)
      BY DEF SeriesType
    <2> HIDE DEF q
    <2>2. \A k \in DOMAIN q : q[k].t \in Nat
      <3> TAKE k \in DOMAIN q
      <3>1. q[k] \in Points
        BY <2>1
      <3>2. QED
        BY <3>1 DEF Points
    <2>3. IsFiniteSet(DOMAIN q)
      BY <2>1, FiniteDomain
    <2>4. {g[k] : k \in DOMAIN q} = {q[k].t : k \in DOMAIN q}
      OBVIOUS
    <2> HIDE DEF g
    <2>5. IsFiniteSet({g[k] : k \in DOMAIN q})
      BY <2>3, FiniteRange
    <2>6. QED
      BY <2>2, <2>4, <2>5 DEF q
  <1> HIDE DEF Read
  <1>5. ASSUME NEW p \in PanelType
        PROVE  OfPanel(p) \in SUBSET Nat /\ IsFiniteSet(OfPanel(p))
    <2> DEFINE q == p.series
               g == [j \in DOMAIN q |-> Read(q[j])]
    <2>1. q \in Seq(SeriesType) /\ \A j \in DOMAIN q : q[j] \in SeriesType
      BY <1>2, <1>3
    <2> HIDE DEF q
    <2>2. \A j \in DOMAIN q : Read(q[j]) \in SUBSET Nat /\ IsFiniteSet(Read(q[j]))
      BY <1>4, <2>1
    <2>3. IsFiniteSet(DOMAIN q)
      BY <2>1, FiniteDomain
    <2>4. {g[j] : j \in DOMAIN q} = {Read(q[j]) : j \in DOMAIN q}
      OBVIOUS
    <2> HIDE DEF g
    <2>5. IsFiniteSet({g[j] : j \in DOMAIN q})
      BY <2>3, FiniteRange
    <2> DEFINE R == {Read(q[j]) : j \in DOMAIN q}
    <2>6. IsFiniteSet(R) /\ \A T \in R : IsFiniteSet(T)
      BY <2>2, <2>4, <2>5
    <2>7. UNION R \in SUBSET Nat
      BY <2>2
    <2>8. OfPanel(p) = UNION R
      BY DEF q
    <2> HIDE DEF R, OfPanel
    <2>9. IsFiniteSet(UNION R)
      BY <2>6, FS_UNION
    <2>10. QED
      BY <2>7, <2>8, <2>9
  <1>6. timeExtent(ps) = UNION {OfPanel(ps[i]) : i \in DOMAIN ps}
    BY DEF timeExtent, Read
  <1> HIDE DEF OfPanel
  <1> DEFINE g == [i \in DOMAIN ps |-> OfPanel(ps[i])]
             R == {OfPanel(ps[i]) : i \in DOMAIN ps}
  <1>7. \A i \in DOMAIN ps : OfPanel(ps[i]) \in SUBSET Nat /\ IsFiniteSet(OfPanel(ps[i]))
    BY <1>1, <1>5
  <1>8. IsFiniteSet(DOMAIN ps)
    BY FiniteDomain
  <1>9. {g[i] : i \in DOMAIN ps} = R
    OBVIOUS
  <1> HIDE DEF g
  <1>10. IsFiniteSet({g[i] : i \in DOMAIN ps})
    BY <1>8, FiniteRange
  <1>11. IsFiniteSet(R) /\ \A T \in R : IsFiniteSet(T)
    BY <1>7, <1>9, <1>10
  <1>12. UNION R \in SUBSET Nat
    BY <1>7
  <1>13. timeExtent(ps) = UNION R
    BY <1>6
  <1> HIDE DEF R
  <1>14. IsFiniteSet(UNION R)
    BY <1>11, FS_UNION
  <1>15. QED
    BY <1>12, <1>13, <1>14

LEMMA ResolveXIs ==
    ASSUME panels \in Seq(PanelType), xpins \in OrNil(Nat) \X OrNil(Nat), NEW now \in Nat
    PROVE  \E t0, t1 \in Nat : EndsOf(resolveX(now), t0, t1)
  <1> DEFINE times == timeExtent(panels)
             t0 == IF xpins[1] # Nil THEN InMillis(xpins[1])
                   ELSE IF times = {} THEN now ELSE Min(times)
             t1 == IF xpins[2] # Nil THEN InMillis(xpins[2])
                   ELSE IF times = {} THEN now + 60 * Minute ELSE Max(times)
             end == IF t1 > t0 THEN t1 ELSE t0 + 60 * Minute
  <1>1. times \in SUBSET Nat /\ IsFiniteSet(times)
    BY TimesAre
  <1>2. resolveX(now) = [t0 |-> InMillis(t0), t1 |-> InMillis(end), ticks |-> timeTicks(t0, end)]
    BY DEF resolveX
  <1>3. WholeTimes => times # {} /\ \A t \in times : InMillis(t) = t
    BY DEF WholeTimes
  <1> HIDE DEF times
  <1>4. times # {} => Min(times) \in times /\ Max(times) \in times
    <2>1. times \in SUBSET Int
      BY <1>1
    <2>2. QED
      BY <1>1, <2>1, MinIs, MaxIs
  <1>5. xpins[1] \in Nat \cup {Nil} /\ xpins[2] \in Nat \cup {Nil}
    BY DEF OrNil
  <1>6. /\ 60 * Minute \in Nat \ {0} /\ now + 60 * Minute \in Nat
        /\ Whole(60 * Minute)
    BY MilliIs
  <1>7. \A n \in {1, 2} : xpins[n] # Nil => /\ InMillis(xpins[n]) \in Nat
                                            /\ InMillis(InMillis(xpins[n])) = InMillis(xpins[n])
    <2> TAKE n \in {1, 2}
    <2> HAVE xpins[n] # Nil
    <2> DEFINE p == xpins[n]
    <2>1. p \in Nat
      BY <1>5
    <2> HIDE DEF p
    <2>2. InMillis(p) \in Nat /\ Whole(InMillis(p))
      BY <2>1, InMillisIs
    <2>3. InMillis(InMillis(p)) = InMillis(p)
      BY <2>2, WholeIs
    <2>4. QED
      BY <2>2, <2>3 DEF p
  <1>8. t0 \in Nat /\ (WholeTimes => InMillis(t0) = t0)
    <2>1. CASE xpins[1] # Nil
      BY <1>7, <2>1
    <2>2. CASE xpins[1] = Nil
      BY <1>1, <1>3, <1>4, <2>2
    <2>3. QED
      BY <2>1, <2>2
  <1>9. t1 \in Nat /\ (WholeTimes => InMillis(t1) = t1)
    <2>1. CASE xpins[2] # Nil
      BY <1>7, <2>1
    <2>2. CASE xpins[2] = Nil
      BY <1>1, <1>3, <1>4, <1>6, <2>2
    <2>3. QED
      BY <2>1, <2>2
  <1>10. xpins[1] # Nil => t0 = InMillis(xpins[1])
    OBVIOUS
  <1>11. xpins[2] # Nil => t1 = InMillis(xpins[2])
    OBVIOUS
  <1> HIDE DEF t0, t1
  <1>12. end \in Nat /\ t0 < end
    BY <1>6, <1>8, <1>9
  <1>13. WholeTimes => InMillis(end) = end
    <2> HAVE WholeTimes
    <2>1. CASE t1 > t0
      BY <1>9, <2>1
    <2>2. CASE ~(t1 > t0)
      <3>1. end = t0 + 60 * Minute
        BY <2>2
      <3>2. end \in Nat /\ Whole(end)
        BY <1>6, <1>8, <1>12, <3>1, WholeSum
      <3>3. QED
        BY <3>2, WholeIs
    <2>3. QED
      BY <2>1, <2>2
  <1>14. xpins[2] # Nil => end = EndFrom(t0, InMillis(xpins[2]))
    BY <1>11 DEF EndFrom
  <1> HIDE DEF end
  <1>15. EndsOf(resolveX(now), t0, end)
    BY <1>2, <1>8, <1>10, <1>12, <1>13, <1>14 DEF EndsOf
  <1>16. QED
    BY <1>8, <1>12, <1>15

-----------------------------------------------------------------------------
(* The parts of ShapeInv. *)

LEMMA PinsStep ==
    ASSUME ShapeInv, [Next]_vars
    PROVE  PinsInv'
  <1> USE DEF given
  <1>1. TypeOK /\ PinsInv /\ OutInv
    BY DEF ShapeInv
  <1>2. panels \in Seq(PanelType)
    BY <1>1 DEF TypeOK
  <1>3. ASSUME NEW c \in PanelChoices, AddPanel(c)
        PROVE  PinsInv'
    <2> DEFINE p == Panel(<<>>, c)
    <2>1. p.min = c.min /\ p.max = c.max
      BY DEF Panel
    <2>2. PinsOf(p)
      BY <2>1, ChoicesAre DEF PinsOf
    <2>3. panels' = Append(panels, p)
      BY <1>3 DEF AddPanel
    <2> HIDE DEF p
    <2>4. \A i \in DOMAIN panels' : \/ panels'[i] = p
                                    \/ i \in DOMAIN panels /\ panels'[i] = panels[i]
      BY <1>2, <2>3
    <2>5. QED
      BY <1>1, <2>2, <2>4 DEF PinsInv
  <1>4. ASSUME NEW s \in SeriesChoices, AddSeries(s)
        PROVE  PinsInv'
    <2>1. \A i \in DOMAIN panels :
             panels'[i].min = panels[i].min /\ panels'[i].max = panels[i].max
      <3>1. panels' = [panels EXCEPT ![Len(panels)].series = Append(@, s)]
        BY <1>4 DEF AddSeries
      <3>2. \A i \in DOMAIN panels : panels[i] \in PanelType
        BY <1>2
      <3>3. \A q \in PanelType : /\ [q EXCEPT !.series = Append(@, s)].min = q.min
                                 /\ [q EXCEPT !.series = Append(@, s)].max = q.max
        BY DEF PanelType
      <3>4. QED
        BY <3>1, <3>2, <3>3
    <2>2. DOMAIN panels' = DOMAIN panels
      BY <1>4 DEF AddSeries
    <2>3. QED
      BY <1>1, <2>1, <2>2 DEF PinsInv, PinsOf
  <1>5. ASSUME NEW sample \in Samples, FromSamples(sample)
        PROVE  PinsInv'
    <2>1. panels' \in Seq(BarePanelType)
      BY <1>1, <1>5, SamplePanelsAre DEF FromSamples, TypeOK
    <2>2. \A i \in DOMAIN panels' : panels'[i] \in BarePanelType
      BY <2>1
    <2>3. Within(Nil)
      BY DEF Within, Readings, OrNil
    <2>4. QED
      BY <2>2, <2>3 DEF PinsInv, PinsOf, BarePanelType
  <1>6. CASE Validate
    BY <1>1, <1>6 DEF Validate, PinsInv
  <1>7. CASE ResolvePanel
    BY <1>1, <1>7 DEF ResolvePanel, PinsInv
  <1>8. CASE ResolveX
    BY <1>1, <1>8 DEF ResolveX, PinsInv
  <1>9. CASE ResolveRose
    BY <1>1, <1>9 DEF ResolveRose, PinsInv
  <1>10. CASE Again
    <2>1. panels' = [i \in DOMAIN out |-> Panel(out[i].series, out[i])]
      BY <1>10 DEF Again
    <2>2. DOMAIN panels' = DOMAIN out
      BY <2>1
    <2>3. \A i \in DOMAIN out : panels'[i].min = out[i].min /\ panels'[i].max = out[i].max
      BY <2>1 DEF Panel
    <2>4. QED
      BY <1>1, <2>2, <2>3 DEF PinsInv, PinsOf, OutInv
  <1>11. CASE UNCHANGED vars
    BY <1>1, <1>11 DEF vars, PinsInv
  <1>12. QED
    BY <1>3, <1>4, <1>5, <1>6, <1>7, <1>8, <1>9, <1>10, <1>11 DEF Next

LEMMA SameValid ==
    ASSUME UNCHANGED <<panels, kind, opts>>
    PROVE  Valid' <=> Valid
  BY DEF Valid, Total

LEMMA PhaseStep ==
    ASSUME ShapeInv, [Next]_vars
    PROVE  PhaseInv'
  <1> USE DEF given
  <1>1. PhaseInv /\ TypeOK
    BY DEF ShapeInv
  <1>2. ASSUME NEW c \in PanelChoices, AddPanel(c)
        PROVE  PhaseInv'
    BY <1>1, <1>2 DEF AddPanel, ByHand, PhaseInv
  <1>3. ASSUME NEW s \in SeriesChoices, AddSeries(s)
        PROVE  PhaseInv'
    BY <1>1, <1>3 DEF AddSeries, ByHand, PhaseInv
  <1>4. ASSUME NEW sample \in Samples, FromSamples(sample)
        PROVE  PhaseInv'
    BY <1>1, <1>4 DEF FromSamples, ByHand, PhaseInv
  <1>5. CASE Validate
    BY <1>1, <1>5, SameValid DEF Validate, PhaseInv
  <1>6. CASE ResolvePanel
    BY <1>1, <1>6, SameValid DEF ResolvePanel, PhaseInv
  <1>7. CASE ResolveX
    BY <1>1, <1>7, SameValid DEF ResolveX, PhaseInv
  <1>8. CASE ResolveRose
    BY <1>1, <1>8, SameValid DEF ResolveRose, PhaseInv
  <1>9. CASE Again
    BY <1>9 DEF Again, PhaseInv
  <1>10. CASE UNCHANGED vars
    BY <1>1, <1>10, SameValid DEF vars, PhaseInv
  <1>11. QED
    BY <1>2, <1>3, <1>4, <1>5, <1>6, <1>7, <1>8, <1>9, <1>10 DEF Next

\* A panel once resolved stays what it was resolved from.
LEMMA OutStep ==
    ASSUME ShapeInv, [Next]_vars
    PROVE  OutInv'
  <1> USE DEF given
  <1>1. OutInv /\ PhaseInv /\ TypeOK
    BY DEF ShapeInv
  <1>2. out \in Seq(ResolvedType)
    BY <1>1 DEF TypeOK
  <1>3. out' = <<>> => OutInv'
    <2> HAVE out' = <<>>
    <2>1. DOMAIN out' = {}
      OBVIOUS
    <2>2. QED
      BY <2>1 DEF OutInv
  <1>4. UNCHANGED <<out, panels>> => OutInv'
    BY <1>1 DEF OutInv
  <1>5. ASSUME NEW c \in PanelChoices, AddPanel(c)
        PROVE  OutInv'
    BY <1>1, <1>3, <1>5 DEF AddPanel, ByHand, PhaseInv
  <1>6. ASSUME NEW s \in SeriesChoices, AddSeries(s)
        PROVE  OutInv'
    BY <1>1, <1>3, <1>6 DEF AddSeries, ByHand, PhaseInv
  <1>7. ASSUME NEW sample \in Samples, FromSamples(sample)
        PROVE  OutInv'
    BY <1>1, <1>3, <1>7 DEF FromSamples, ByHand, PhaseInv
  <1>8. CASE ResolvePanel
    <2> DEFINE n == Len(out) + 1
               p == panels[n]
               q == Resolved(p)
    <2>1. Len(out) < Len(panels) /\ out' = Append(out, q) /\ panels' = panels
      BY <1>8 DEF ResolvePanel
    <2>2. p \in PanelType /\ PinsOf(p)
      BY <2>1, NextPanel
    <2>3. slot \in Nat
      BY <1>1 DEF TypeOK
    <2> HIDE DEF p
    <2>4. /\ ResolvedFrom(q, p)
          /\ q.min \in -Wide..Wide /\ q.max \in -Wide..Wide /\ q.min < q.max
      BY <2>2, <2>3, ResolvedIs
    <2> HIDE DEF q
    <2>5. \A i \in DOMAIN out' : \/ i = n /\ out'[i] = q
                                 \/ i \in DOMAIN out /\ out'[i] = out[i]
      BY <1>2, <2>1
    <2>6. panels'[n] = p
      BY <2>1 DEF p
    <2> HIDE DEF n
    <2>7. ASSUME NEW i \in DOMAIN out'
          PROVE  /\ ResolvedFrom(out'[i], panels'[i])
                 /\ out'[i].min \in -Wide..Wide /\ out'[i].max \in -Wide..Wide
                 /\ out'[i].min < out'[i].max
      <3>1. CASE i = n /\ out'[i] = q
        BY <2>4, <2>6, <3>1
      <3>2. CASE i \in DOMAIN out /\ out'[i] = out[i]
        BY <1>1, <2>1, <3>2 DEF OutInv
      <3>3. QED
        BY <2>5, <3>1, <3>2
    <2>8. QED
      BY <2>7 DEF OutInv
  <1>9. CASE Validate \/ ResolveX \/ ResolveRose \/ UNCHANGED vars
    BY <1>4, <1>9 DEF Validate, ResolveX, ResolveRose, vars
  <1>10. CASE Again
    BY <1>3, <1>10 DEF Again
  <1>11. QED
    BY <1>5, <1>6, <1>7, <1>8, <1>9, <1>10 DEF Next

LEMMA AxisStep ==
    ASSUME ShapeInv, [Next]_vars
    PROVE  AxisInv'
  <1> USE DEF given
  <1>1. AxisInv /\ TypeOK
    BY DEF ShapeInv
  <1>2. CASE ResolveX
    <2>1. PICK now \in IF timeExtent(panels) = {} THEN Now ELSE {0} : x' = resolveX(now)
      BY <1>2 DEF ResolveX
    <2>2. now \in Nat
      BY <2>1, ChartAssumption
    <2>3. panels \in Seq(PanelType) /\ xpins \in OrNil(Nat) \X OrNil(Nat)
      BY <1>1 DEF TypeOK
    <2>4. PICK t0 \in Nat, t1 \in Nat : EndsOf(resolveX(now), t0, t1)
      BY <2>2, <2>3, ResolveXIs
    <2>5. x' = resolveX(now) /\ UNCHANGED <<xpins, panels>>
      BY <1>2, <2>1 DEF ResolveX
    <2>6. EndsOf(x, t0, t1)'
      BY <2>4, <2>5 DEF EndsOf, WholeTimes
    <2>7. QED
      BY <2>6 DEF AxisInv
  <1>3. ASSUME pc' # "done" \/ kind' = "windrose" \/ UNCHANGED <<pc, kind, x, xpins, panels>>
        PROVE  AxisInv'
    BY <1>1, <1>3 DEF AxisInv, EndsOf, WholeTimes
  <1>4. ASSUME NEW c \in PanelChoices, AddPanel(c)
        PROVE  AxisInv'
    BY <1>3, <1>4 DEF AddPanel, ByHand
  <1>5. ASSUME NEW s \in SeriesChoices, AddSeries(s)
        PROVE  AxisInv'
    BY <1>3, <1>5 DEF AddSeries, ByHand
  <1>6. ASSUME NEW sample \in Samples, FromSamples(sample)
        PROVE  AxisInv'
    BY <1>3, <1>6 DEF FromSamples, ByHand
  <1>7. CASE Validate \/ ResolvePanel \/ ResolveRose \/ Again \/ UNCHANGED vars
    BY <1>3, <1>7 DEF Validate, ResolvePanel, ResolveRose, Again, vars
  <1>8. QED
    BY <1>2, <1>4, <1>5, <1>6, <1>7 DEF Next

LEMMA RoseStep ==
    ASSUME ShapeInv, [Next]_vars
    PROVE  RoseInv'
  <1> USE DEF given
  <1>1. RoseInv
    BY DEF ShapeInv
  <1>2. ASSUME NEW c \in PanelChoices, AddPanel(c)
        PROVE  RoseInv'
    BY <1>1, <1>2 DEF AddPanel, ByHand, RoseInv
  <1>3. ASSUME NEW s \in SeriesChoices, AddSeries(s)
        PROVE  RoseInv'
    BY <1>1, <1>3 DEF AddSeries, ByHand, RoseInv
  <1>4. ASSUME NEW sample \in Samples, FromSamples(sample)
        PROVE  RoseInv'
    BY <1>1, <1>4 DEF FromSamples, ByHand, RoseInv
  <1>5. CASE Validate
    BY <1>1, <1>5 DEF Validate, RoseInv
  <1>6. CASE ResolvePanel
    BY <1>1, <1>6 DEF ResolvePanel, RoseInv
  <1>7. CASE ResolveX
    BY <1>1, <1>7 DEF ResolveX, RoseInv
  <1>8. CASE ResolveRose
    BY <1>1, <1>8 DEF ResolveRose, RoseInv
  <1>9. CASE Again
    <2>1. kind # "windrose" => opts' = NoOptions
      <3> HAVE kind # "windrose"
      <3>1. opts = NoOptions /\ rose = NoOptions
        BY <1>1, <1>9 DEF RoseInv, NoRose, Again
      <3>2. opts' = [n \in DOMAIN opts |-> rose[n]]
        BY <1>9 DEF Again
      <3>3. QED
        BY <3>1, <3>2 DEF NoOptions
    <2>2. QED
      BY <1>1, <1>9, <2>1 DEF Again, RoseInv
  <1>10. CASE UNCHANGED vars
    BY <1>1, <1>10 DEF vars, RoseInv
  <1>11. QED
    BY <1>2, <1>3, <1>4, <1>5, <1>6, <1>7, <1>8, <1>9, <1>10 DEF Next

LEMMA ShapeInit ==
    ASSUME Init
    PROVE  ShapeInv
  <1>1. /\ panels = <<>> /\ out = <<>> /\ slot = 0 /\ pc = "edit" /\ x = NoAxis /\ rose = NoRose
        /\ kind \in {"timeseries", "meteogram", "windrose"}
    BY DEF Init
  <1>2. DOMAIN panels = {} /\ DOMAIN out = {} /\ Len(out) <= Len(panels) /\ slot \in Nat
        /\ panels \in Seq(PanelType) /\ out \in Seq(ResolvedType)
    BY <1>1
  <1>3. opts \in OptionsType
    BY ChartAssumption, OptionsAre DEF Init, OptionsType
  <1>4. xpins \in OrNil(Nat) \X OrNil(Nat)
    BY ChartAssumption DEF Init, OrNil
  <1>5. TypeOK
    BY <1>1, <1>2, <1>3, <1>4 DEF TypeOK, OptionsType
  <1>6. PinsInv /\ OutInv
    BY <1>2 DEF PinsInv, OutInv
  <1>7. PhaseInv /\ AxisInv
    BY <1>1 DEF PhaseInv, AxisInv
  <1>8. RoseInv
    BY <1>1 DEF Init, RoseInv
  <1>9. QED
    BY <1>5, <1>6, <1>7, <1>8 DEF ShapeInv

\* Every chart has well-formed panels, and its resolved ones come from them.
THEOREM ChartKeepsItsShape == Spec => []ShapeInv
  <1>1. Init => ShapeInv
    BY ShapeInit
  <1>2. ShapeInv /\ [Next]_vars => ShapeInv'
    BY TypeStep, PinsStep, PhaseStep, OutStep, AxisStep, RoseStep DEF ShapeInv
  <1>3. QED
    BY <1>1, <1>2, PTL DEF Spec

-----------------------------------------------------------------------------
(* What follows from ShapeInv. *)

LEMMA OutPanel ==
    ASSUME ShapeInv, NEW i \in DOMAIN out
    PROVE  /\ i \in DOMAIN panels /\ panels[i] \in PanelType
           /\ PinsOf(panels[i]) /\ ResolvedFrom(out[i], panels[i])
           /\ out[i].min \in Int /\ out[i].max \in Int /\ out[i].min < out[i].max
  <1>1. /\ panels \in Seq(PanelType) /\ out \in Seq(ResolvedType) /\ Len(out) <= Len(panels)
        /\ PinsInv /\ OutInv
    BY DEF ShapeInv, TypeOK
  <1>2. i \in DOMAIN panels
    BY <1>1
  <1>3. panels[i] \in PanelType
    BY <1>1, <1>2
  <1>4. out[i].min \in -Wide..Wide /\ out[i].max \in -Wide..Wide
    BY <1>1 DEF OutInv
  <1>5. Wide \in Int
    BY Constants DEF Wide
  <1>6. QED
    BY <1>1, <1>2, <1>3, <1>4, <1>5 DEF PinsInv, OutInv

LEMMA ShapeFits ==
    ASSUME ShapeInv
    PROVE  AxisFitsData
  <1>1. ASSUME NEW i \in DOMAIN out
        PROVE  /\ out[i].min < out[i].max
               /\ Len(out[i].ticks) \in 2..targetTicks + 2
               /\ out[i].ticks[1] = out[i].min
               /\ FreeAxis(i) =>
                    /\ \A v \in seriesExtent(panels[i].series) : out[i].min <= v /\ v <= out[i].max
                    /\ out[i].zero => out[i].min <= 0 /\ 0 <= out[i].max
                    /\ Last(out[i].ticks) = out[i].max
    <2> DEFINE p == panels[i]
               y == resolveY(p)
    <2>1. p \in PanelType /\ PinsOf(p) /\ ResolvedFrom(out[i], p)
      BY <1>1, OutPanel
    <2>2. FreeAxis(i) <=> p.min = Nil /\ p.max = Nil
      BY DEF FreeAxis
    <2> HIDE DEF p
    <2>3. p.series \in Seq(SeriesType)
      BY <2>1 DEF PanelType
    <2>4. /\ y.min < y.max /\ Len(y.ticks) \in 2..targetTicks + 2 /\ y.ticks[1] = y.min
          /\ p.min = Nil /\ p.max = Nil =>
               /\ \A v \in seriesExtent(p.series) : y.min <= v /\ v <= y.max
               /\ y.zero => y.min <= 0 /\ 0 <= y.max
               /\ Last(y.ticks) = y.max
      BY <2>1, <2>3, ResolveYIs
    <2>5. [min |-> out[i].min, max |-> out[i].max, zero |-> out[i].zero, ticks |-> out[i].ticks] = y
      BY <2>1 DEF ResolvedFrom
    <2> HIDE DEF y
    <2>6. y.min = out[i].min /\ y.max = out[i].max /\ y.zero = out[i].zero /\ y.ticks = out[i].ticks
      BY <2>5
    <2>7. QED
      BY <2>2, <2>4, <2>6 DEF p
  <1>2. ASSUME pc = "done", kind # "windrose"
        PROVE  /\ x.t1 - x.t0 >= timeTickSteps[1] => x.ticks # <<>>
               /\ Len(x.ticks) <= IF (x.t1 - x.t0) \div Last(timeTickSteps) <= targetTicks
                                    THEN targetTicks + 1 ELSE maxTicks
               /\ \A n \in DOMAIN x.ticks : x.t0 <= x.ticks[n] /\ x.ticks[n] <= x.t1
    <2>1. PICK t0 \in Nat, t1 \in Nat : EndsOf(x, t0, t1)
      BY <1>2 DEF ShapeInv, AxisInv
    <2>2. /\ t0 < t1 /\ x.t0 = InMillis(t0) /\ x.t1 = InMillis(t1)
          /\ x.ticks = timeTicks(t0, t1)
      BY <2>1 DEF EndsOf
    <2>3. LET ticks == timeTicks(t0, t1)
          IN  /\ InMillis(t1) - InMillis(t0) >= timeTickSteps[1] => ticks # <<>>
              /\ Len(ticks) <= IF (InMillis(t1) - InMillis(t0)) \div Last(timeTickSteps) <= targetTicks
                                 THEN targetTicks + 1 ELSE maxTicks
              /\ \A n \in DOMAIN ticks : InMillis(t0) <= ticks[n] /\ ticks[n] <= InMillis(t1)
      BY <2>2, TimeTicksAre
    <2>4. QED
      BY <2>2, <2>3, Zenon
  <1>3. QED
    BY <1>1, <1>2 DEF AxisFitsData

LEMMA ShapeMatches ==
    ASSUME ShapeInv
    PROVE  BandsMatchStatus
  <1>1. ASSUME NEW i \in DOMAIN out, panels[i].show, panels[i].bands = <<>>,
               NEW v \in out[i].min..out[i].max, v \notin Edges(panels[i].series[1].param)
        PROVE  StatusesAt(panelBackground(out[i].bands, out[i].min, out[i].max), v)
                 = {Classify(panels[i].series[1].param, v)}
                     \ Unshaded(panels[i].series[1].param)
    <2> DEFINE name == panels[i].series[1].param
               min == out[i].min
               max == out[i].max
    <2>1. /\ min \in Int /\ max \in Int /\ min < max
          /\ ResolvedFrom(out[i], panels[i])
      BY OutPanel
    <2>2. out[i].bands = BandsFor(name)
      BY <1>1, <2>1 DEF ResolvedFrom, resolveBands
    <2>3. v \in min..max /\ v \notin Edges(name)
      BY <1>1
    <2> HIDE DEF name, min, max
    <2>4. v \in Int /\ min <= v /\ v <= max
      BY <2>1, <2>3
    <2>5. StatusesAt(panelBackground(BandsFor(name), min, max), v)
            = {Classify(name, v)} \ Unshaded(name)
      BY <2>1, <2>3, <2>4, StripesMatch
    <2>6. QED
      BY <2>2, <2>5 DEF name, min, max
  <1>2. QED
    BY <1>1 DEF BandsMatchStatus, Edges, Unshaded, StatusesAt

\* resolveY and resolveX, whatever the values, the pins, the target of ticks and the
\* time steps: a free axis holds its data, and its ticks run from its bottom to its top.
THEOREM AxesFitTheirData == Spec => []AxisFitsData
  <1>1. ShapeInv => AxisFitsData
    BY ShapeFits
  <1>2. QED
    BY <1>1, ChartKeepsItsShape, PTL

\* resolveBands and Classify: on every axis the stripes show the status of the value.
THEOREM StripesMatchStatuses == Spec => []BandsMatchStatus
  <1>1. ShapeInv => BandsMatchStatus
    BY ShapeMatches
  <1>2. QED
    BY <1>1, ChartKeepsItsShape, PTL

-----------------------------------------------------------------------------
(* SlotInv: the palette. *)

LEMMA PlacesAre ==
    ASSUME NEW ps \in Seq(PanelType)
    PROVE  /\ IsFiniteSet(Places(ps))
           /\ \A a : a \in Places(ps) <=> \E i \in DOMAIN ps : \E j \in DOMAIN ps[i].series : a = <<i, j>>
  <1> DEFINE D(i) == DOMAIN ps[i].series
             g == [i \in DOMAIN ps |-> {i} \X D(i)]
             R == {{i} \X D(i) : i \in DOMAIN ps}
  <1>1. \A i \in DOMAIN ps : ps[i] \in PanelType
    OBVIOUS
  <1>2. \A i \in DOMAIN ps : IsFiniteSet({i} \X D(i))
    <2> TAKE i \in DOMAIN ps
    <2> DEFINE p == ps[i]
               q == p.series
    <2>1. p \in PanelType
      BY <1>1
    <2> HIDE DEF p
    <2>2. q \in Seq(SeriesType)
      BY <2>1 DEF PanelType
    <2> HIDE DEF q
    <2>3. IsFiniteSet(DOMAIN q)
      BY <2>2, FiniteDomain
    <2>4. IsFiniteSet({i})
      BY FS_Singleton
    <2>5. IsFiniteSet({i} \X DOMAIN q)
      BY <2>3, <2>4, FS_Product
    <2>6. QED
      BY <2>5 DEF p, q
  <1>3. Places(ps) = UNION R
    BY DEF Places
  <1>4. \A a : a \in Places(ps) <=> \E i \in DOMAIN ps : \E j \in D(i) : a = <<i, j>>
    <2> TAKE a
    <2>1. a \in Places(ps) <=> \E i \in DOMAIN ps : a \in {i} \X D(i)
      BY DEF Places
    <2>2. \A i : a \in {i} \X D(i) <=> \E j \in D(i) : a = <<i, j>>
      OBVIOUS
    <2> HIDE DEF D
    <2>3. QED
      BY <2>1, <2>2
  <1>5. {g[i] : i \in DOMAIN ps} = R
    OBVIOUS
  <1>6. IsFiniteSet(DOMAIN ps)
    BY FiniteDomain
  <1> HIDE DEF g, D
  <1>7. IsFiniteSet({g[i] : i \in DOMAIN ps})
    BY <1>6, FiniteRange
  <1>8. IsFiniteSet(R) /\ \A T \in R : IsFiniteSet(T)
    BY <1>2, <1>5, <1>7
  <1> HIDE DEF R
  <1>9. IsFiniteSet(Places(ps))
    BY <1>3, <1>8, FS_UNION
  <1>10. QED
    BY <1>4, <1>9 DEF D

\* The n-th series left to the palette gets the n-th slot.
LEMMA DealtGrows ==
    ASSUME NEW p, NEW i \in Int, NEW j \in Int, i <= j
    PROVE  /\ Dealt(p, i) <= Dealt(p, j)
           /\ i < j /\ 1 <= j /\ p.series[j].slot = 0 => Dealt(p, i) < Dealt(p, j)
           /\ 1 <= i /\ p.series[i].slot = 0 => 1 <= Dealt(p, i)
  <1> DEFINE F(n) == {k \in 1..n : p.series[k].slot = 0}
  <1>1. \A n \in Int : IsFiniteSet(F(n)) /\ Dealt(p, n) \in Nat /\ Dealt(p, n) = Cardinality(F(n))
    BY DealtIs DEF Dealt
  <1>2. F(i) \in SUBSET F(j)
    OBVIOUS
  <1>3. i < j /\ 1 <= j /\ p.series[j].slot = 0 => F(i) # F(j)
    <2> HAVE i < j /\ 1 <= j /\ p.series[j].slot = 0
    <2>1. j \in F(j) /\ j \notin F(i)
      OBVIOUS
    <2>2. QED
      BY <2>1
  <1>4. 1 <= i /\ p.series[i].slot = 0 => F(i) # {}
    <2> HAVE 1 <= i /\ p.series[i].slot = 0
    <2>1. i \in F(i)
      OBVIOUS
    <2>2. QED
      BY <2>1
  <1> HIDE DEF F
  <1>5. Cardinality(F(i)) <= Cardinality(F(j)) /\ (F(i) # F(j) => Cardinality(F(i)) # Cardinality(F(j)))
    BY <1>1, <1>2, FS_Subset
  <1>6. F(i) # {} => Cardinality(F(i)) # 0
    BY <1>1, FS_EmptySet
  <1>7. QED
    BY <1>1, <1>3, <1>4, <1>5, <1>6

LEMMA SlotDeal ==
    ASSUME ShapeInv, SlotInv, ResolvePanel
    PROVE  SlotInv'
  <1> USE DEF given
  <1> DEFINE n == Len(out) + 1
             p == panels[n]
             q == Resolved(p)
             N == Len(p.series)
             K == {k \in 1..N : p.series[k].slot = 0}
             New == {n} \X K
  <1>1. /\ panels \in Seq(PanelType) /\ out \in Seq(ResolvedType) /\ slot \in Nat
    BY DEF ShapeInv, TypeOK
  <1>2. /\ Len(out) < Len(panels) /\ out' = Append(out, q) /\ panels' = panels
        /\ slot' = slot + Dealt(p, N)
    BY DEF ResolvePanel
  <1>3. p \in PanelType /\ PinsOf(p) /\ n \in DOMAIN panels /\ Len(out) \in Nat
    BY <1>2, NextPanel
  <1>4. N \in Nat /\ DOMAIN p.series = 1..N
    <2> HIDE DEF p
    <2>1. QED
      BY <1>3, SeriesCount
  <1>5. \A j \in 1..N : q.series[j].slot = slotOf(p, j)
    <2> HIDE DEF p
    <2>1. QED
      BY <1>1, <1>3, <1>4, ResolvedIs
  <1>6. /\ Len(out') = n /\ n \in Nat /\ n = Len(out) + 1 /\ out'[n] = q
        /\ \A i \in DOMAIN out : i < n /\ out'[i] = out[i]
    BY <1>1, <1>2
  <1>7. /\ IsFiniteSet(Places(panels))
        /\ \A a : a \in Places(panels) <=>
               \E i \in DOMAIN panels : \E j \in DOMAIN panels[i].series : a = <<i, j>>
    BY <1>1, PlacesAre
  <1>8. IsFiniteSet(K) /\ Dealt(p, N) \in Nat /\ Dealt(p, N) = Cardinality(K)
    <2> HIDE DEF p
    <2>1. Dealt(p, N) = Cardinality(K)
      BY DEF Dealt
    <2>2. N \in Int
      BY <1>4
    <2> HIDE DEF N
    <2>3. IsFiniteSet({k \in 1..N : p.series[k].slot = 0}) /\ Dealt(p, N) \in Nat
      BY <2>2, DealtIs
    <2>4. QED
      BY <2>1, <2>3
  <1>9. DealtTo \in SUBSET Places(panels)
    BY DEF DealtTo
  <1>10. \A a \in DealtTo : a[1] \in DOMAIN out
    <2> TAKE a \in DealtTo
    <2>1. a \in Places(panels) /\ a[1] <= Len(out)
      BY DEF DealtTo
    <2>2. PICK i \in DOMAIN panels : \E j \in DOMAIN panels[i].series : a = <<i, j>>
      BY <1>7, <2>1
    <2>3. a[1] \in Nat /\ 1 <= a[1]
      BY <1>1, <2>2
    <2>4. QED
      BY <1>1, <2>1, <2>3
  <1>11. DealtTo' = DealtTo \cup New
    <2>1. \A i \in DOMAIN panels : i <= n <=> i <= Len(out) \/ i = n
      BY <1>1, <1>6
    <2>2. \A a : a \in DealtTo <=> \E i \in DOMAIN panels : \E j \in DOMAIN panels[i].series :
                     a = <<i, j>> /\ i <= Len(out) /\ panels[i].series[j].slot = 0
      BY <1>7 DEF DealtTo, Free
    <2>3. \A a : a \in DealtTo' <=> \E i \in DOMAIN panels : \E j \in DOMAIN panels[i].series :
                     a = <<i, j>> /\ i <= n /\ panels[i].series[j].slot = 0
      BY <1>2, <1>6, <1>7 DEF DealtTo, Free
    <2>4. \A a : a \in New <=> \E j \in DOMAIN panels[n].series :
                     a = <<n, j>> /\ panels[n].series[j].slot = 0
      BY <1>4
    <2> HIDE DEF n, New
    <2>5. \A a : a \in DealtTo' <=> a \in DealtTo \/ a \in New
      BY <1>3, <2>1, <2>2, <2>3, <2>4
    <2>6. QED
      BY <2>5
  <1>12. \A a \in New : a[1] = n /\ a[2] \in K
    OBVIOUS
  <1>13. DealtTo \cap New = {}
    BY <1>6, <1>10, <1>12
  <1>14. \A k \in K : k \in 1..N /\ p.series[k].slot = 0
    OBVIOUS
  <1>15. \A k \in K : /\ slotOf(p, k) = slot + Dealt(p, k)
                      /\ Dealt(p, k) \in 1..Dealt(p, N)
    <2> TAKE k \in K
    <2> HIDE DEF p, N, K
    <2>1. k \in 1..N /\ k \in Int /\ N \in Int /\ 1 <= k /\ k <= N /\ p.series[k].slot = 0
      BY <1>4, <1>14
    <2>2. 1 <= Dealt(p, k) /\ Dealt(p, k) <= Dealt(p, N)
      BY <2>1, DealtGrows
    <2>3. Dealt(p, k) \in Nat /\ Dealt(p, N) \in Nat
      BY <2>1, DealtIs
    <2>4. QED
      BY <2>1, <2>2, <2>3 DEF slotOf
  <1>16. \A k, m \in K : k # m => Dealt(p, k) # Dealt(p, m)
    <2> SUFFICES ASSUME NEW k \in K, NEW m \in K, k < m
                 PROVE  Dealt(p, k) # Dealt(p, m)
      <3> HIDE DEF p
      <3>1. \A k \in K : k \in Int
        BY <1>4
      <3>2. QED
        BY <3>1
    <2> HIDE DEF p, N, K
    <2>1. k \in Int /\ m \in Int /\ 1 <= m /\ p.series[m].slot = 0
      BY <1>4, <1>14
    <2>2. Dealt(p, k) < Dealt(p, m)
      BY <2>1, DealtGrows
    <2>3. Dealt(p, k) \in Nat /\ Dealt(p, m) \in Nat
      BY <2>1, DealtIs
    <2>4. QED
      BY <2>2, <2>3
  <1> HIDE DEF K
  <1>17. Cardinality(New) = Cardinality(K) /\ IsFiniteSet(New)
    <2>1. IsFiniteSet({n}) /\ Cardinality({n}) = 1
      BY FS_Singleton
    <2>2. IsFiniteSet({n} \X K) /\ Cardinality({n} \X K) = Cardinality({n}) * Cardinality(K)
      BY <1>8, <2>1, FS_Product
    <2>3. QED
      BY <1>8, <2>1, <2>2
  <1> HIDE DEF n, p, q, N, New
  <1>18. /\ slot = Cardinality(DealtTo)
         /\ \A a \in DealtTo : out[a[1]].series[a[2]].slot \in 1..slot
         /\ \A a, b \in DealtTo :
              a # b => out[a[1]].series[a[2]].slot # out[b[1]].series[b[2]].slot
    BY DEF SlotInv
  <1>19. slot' = Cardinality(DealtTo')
    <2>1. IsFiniteSet(DealtTo)
      BY <1>7, <1>9, FS_Subset
    <2>2. Cardinality(DealtTo \cup New)
            = Cardinality(DealtTo) + Cardinality(New) - Cardinality(DealtTo \cap New)
      BY <1>17, <2>1, FS_Union
    <2>3. Cardinality(DealtTo \cap New) = 0
      BY <1>13, FS_EmptySet
    <2>4. QED
      BY <1>1, <1>2, <1>8, <1>11, <1>17, <1>18, <2>2, <2>3
  <1> DEFINE Got(a) == out'[a[1]].series[a[2]].slot
  <1>20. \A a \in DealtTo : Got(a) = out[a[1]].series[a[2]].slot
    BY <1>6, <1>10
  <1>21. \A a \in New : Got(a) = slot + Dealt(p, a[2]) /\ a[2] \in K
    BY <1>5, <1>6, <1>12, <1>14, <1>15
  <1> HIDE DEF Got
  <1>22. \A a \in DealtTo : Got(a) \in 1..slot
    BY <1>18, <1>20
  <1>23. \A a \in New : Got(a) \in slot + 1..slot'
    BY <1>1, <1>2, <1>8, <1>15, <1>21
  <1>24. slot' \in Nat /\ slot <= slot'
    BY <1>1, <1>2, <1>8
  <1>25. \A a \in DealtTo' : Got(a) \in 1..slot'
    BY <1>1, <1>11, <1>22, <1>23, <1>24
  <1>26. \A a, b \in New : a # b => a[2] # b[2]
    <2>1. \A a \in New : a = <<n, a[2]>>
      BY DEF New
    <2>2. QED
      BY <2>1
  <1>27. \A a, b \in DealtTo' : a # b => Got(a) # Got(b)
    <2>1. \A a, b \in DealtTo : a # b => Got(a) # Got(b)
      BY <1>18, <1>20
    <2>2. \A a, b \in New : a # b => Got(a) # Got(b)
      <3> TAKE a, b \in New
      <3> HAVE a # b
      <3>1. a[2] \in K /\ b[2] \in K /\ a[2] # b[2]
        BY <1>21, <1>26
      <3>2. Dealt(p, a[2]) # Dealt(p, b[2])
        BY <1>16, <3>1
      <3>3. Dealt(p, a[2]) \in Int /\ Dealt(p, b[2]) \in Int
        BY <1>8, <1>15, <3>1
      <3>4. QED
        BY <1>1, <1>21, <3>2, <3>3
    <2>3. \A a \in DealtTo, b \in New : Got(a) # Got(b)
      BY <1>1, <1>22, <1>23, <1>24
    <2>4. QED
      BY <1>11, <2>1, <2>2, <2>3
  <1>28. QED
    BY <1>19, <1>25, <1>27 DEF SlotInv, Got

LEMMA SlotStep ==
    ASSUME ShapeInv, SlotInv, [Next]_vars
    PROVE  SlotInv'
  <1> USE DEF given
  <1>1. PhaseInv /\ TypeOK
    BY DEF ShapeInv
  <1>2. ASSUME UNCHANGED <<out, panels, slot>>
        PROVE  SlotInv'
    BY <1>2 DEF SlotInv, DealtTo, Free
  <1>3. ASSUME out' = <<>>, slot' = 0, panels' \in Seq(PanelType)
        PROVE  SlotInv'
    <2>1. \A a : a \in Places(panels') <=>
               \E i \in DOMAIN panels' : \E j \in DOMAIN panels'[i].series : a = <<i, j>>
      BY <1>3, PlacesAre
    <2>2. Len(out') = 0 /\ \A i \in DOMAIN panels' : i \in Nat /\ i >= 1
      BY <1>3
    <2>3. DealtTo' = {}
      BY <2>1, <2>2 DEF DealtTo
    <2>4. Cardinality({}) = 0
      BY FS_EmptySet
    <2>5. QED
      BY <1>3, <2>3, <2>4 DEF SlotInv
  <1>4. panels' \in Seq(PanelType)
    BY TypeStep DEF TypeOK
  <1>5. ASSUME NEW c \in PanelChoices, AddPanel(c)
        PROVE  SlotInv'
    BY <1>1, <1>3, <1>4, <1>5 DEF AddPanel, ByHand, PhaseInv
  <1>6. ASSUME NEW s \in SeriesChoices, AddSeries(s)
        PROVE  SlotInv'
    BY <1>1, <1>3, <1>4, <1>6 DEF AddSeries, ByHand, PhaseInv
  <1>7. ASSUME NEW sample \in Samples, FromSamples(sample)
        PROVE  SlotInv'
    BY <1>1, <1>3, <1>4, <1>7 DEF FromSamples, ByHand, PhaseInv
  <1>8. CASE ResolvePanel
    BY <1>8, SlotDeal
  <1>9. CASE Validate \/ ResolveX \/ ResolveRose \/ UNCHANGED vars
    BY <1>2, <1>9 DEF Validate, ResolveX, ResolveRose, vars
  <1>10. CASE Again
    BY <1>3, <1>4, <1>10 DEF Again
  <1>11. QED
    BY <1>5, <1>6, <1>7, <1>8, <1>9, <1>10 DEF Next

-----------------------------------------------------------------------------
(* A resolved series, band or panel, given again. *)

\* The series that s becomes.
Painted(r, s) == r = [s EXCEPT !.slot = r.slot, !.unit = EffectiveUnit(s), !.mark = EffectiveMark(s)]

LEMMA MarkIs ==
    ASSUME NEW s
    PROVE  /\ EffectiveMark(s) # ""
           /\ EffectiveMark(s) = s.mark \/ EffectiveMark(s) \in {"bar", "line"}
           /\ s.mark # "" => EffectiveMark(s) = s.mark
  <1>1. Parameter(s.param).mark \in {"", "bar"}
    <2> DEFINE t == Parameter(s.param)
    <2>1. \E mark \in {"", "bar"} : \E u, zero, inverted, breaks, worst :
             t = ParameterDef(u, mark, zero, inverted, breaks, worst)
      <3>1. CASE t = Unregistered
        BY <3>1, Zenon DEF Unregistered
      <3>2. CASE t # Unregistered
        BY <3>2, ParameterCases, Zenon
      <3>3. QED
        BY <3>1, <3>2
    <2>3. t.mark \in {"", "bar"}
      <3>1. PICK mark \in {"", "bar"} : \E u, zero, inverted, breaks, worst :
                t = ParameterDef(u, mark, zero, inverted, breaks, worst)
        BY <2>1
      <3>2. PICK u, zero, inverted, breaks, worst :
                t = ParameterDef(u, mark, zero, inverted, breaks, worst)
        BY <3>1
      <3>3. ParameterDef(u, mark, zero, inverted, breaks, worst).mark = mark
        BY DEF ParameterDef
      <3> HIDE DEF t
      <3>4. QED
        BY <3>2, <3>3
    <2>4. QED
      BY <2>3
  <1>2. QED
    BY <1>1 DEF EffectiveMark

LEMMA PaintedIs ==
    ASSUME NEW s \in SeriesType, NEW r, Painted(r, s)
    PROVE  /\ r.param = s.param /\ r.points = s.points /\ r.named = s.named
           /\ r.unit = EffectiveUnit(s) /\ r.mark = EffectiveMark(s)
           /\ EffectiveUnit(r) = r.unit /\ EffectiveMark(r) = r.mark
           /\ r.mark = s.mark \/ r.mark \in {"bar", "line"}
  <1>1. /\ r.param = s.param /\ r.points = s.points /\ r.named = s.named
        /\ r.unit = EffectiveUnit(s) /\ r.mark = EffectiveMark(s)
    BY DEF Painted, SeriesType
  <1>2. EffectiveUnit(r) = r.unit
    BY <1>1 DEF EffectiveUnit
  <1>3. EffectiveMark(r) = r.mark
    BY <1>1, MarkIs
  <1>4. r.mark = s.mark \/ r.mark \in {"bar", "line"}
    BY <1>1, MarkIs
  <1>5. QED
    BY <1>1, <1>2, <1>3, <1>4

\* A series that has its slot, unit and mark is painted as it is.
LEMMA PaintedAgain ==
    ASSUME NEW s \in SeriesType, NEW r, Painted(r, s), r.slot = s.slot,
           EffectiveUnit(s) = s.unit, EffectiveMark(s) = s.mark
    PROVE  r = s
  <1>1. r = [s EXCEPT !.slot = s.slot, !.unit = s.unit, !.mark = s.mark]
    BY DEF Painted
  <1>2. QED
    BY <1>1 DEF SeriesType

LEMMA ValidPoints ==
    ASSUME NEW s \in SeriesType, NEW r, Painted(r, s), validatePoints(s)
    PROVE  validatePoints(r)
  <1>1. r.points = s.points /\ (r.mark = s.mark \/ r.mark \in {"bar", "line"})
    BY PaintedIs
  <1>2. r.mark = "band" => s.mark = "band"
    BY <1>1
  <1>3. QED
    BY <1>1, <1>2, Zenon DEF validatePoints

LEMMA ValidBands ==
    ASSUME NEW name, NEW i \in DOMAIN BandsFor(name)
    PROVE  BandsFor(name)[i].labelled /\ BandsFor(name)[i].status \in Statuses
  <1> DEFINE t == Parameter(name)
             breaks == t.breaks
             n == Len(breaks)
             Between(k) == IF t.inverted
                THEN Band(breaks[k + 1].at, breaks[k].at, breaks[k + 1].status, TRUE)
                ELSE Band(breaks[k].at, breaks[k + 1].at, breaks[k + 1].status, TRUE)
             Past == IF t.inverted THEN Band(Nil, breaks[n].at, t.worst, TRUE)
                                   ELSE Band(breaks[n].at, Nil, t.worst, TRUE)
  <1>1. BandsFor(name) = IF n = 0 THEN <<>> ELSE Append([k \in 1..n - 1 |-> Between(k)], Past)
    BY Zenon DEF BandsFor
  <1>2. \/ breaks = <<>>
        \/ \E a, b \in Nat : breaks = <<Break(a, "good"), Break(b, "warning")>> /\ t.worst = "critical"
    BY ParameterShape, Zenon
  <1>3. \A from, to, status : /\ Band(from, to, status, TRUE).labelled
                              /\ Band(from, to, status, TRUE).status = status
    BY DEF Band
  <1>4. CASE breaks = <<>>
    <2>1. n = 0
      BY <1>4
    <2>2. DOMAIN BandsFor(name) = {}
      BY <1>1, <2>1
    <2>3. QED
      BY <2>2
  <1>5. CASE \E a, b \in Nat : breaks = <<Break(a, "good"), Break(b, "warning")>> /\ t.worst = "critical"
    <2>1. PICK a \in Nat, b \in Nat :
              breaks = <<Break(a, "good"), Break(b, "warning")>> /\ t.worst = "critical"
      BY <1>5
    <2>2. n = 2 /\ breaks[2] = Break(b, "warning")
      BY <2>1
    <2>3. breaks[2].status = "warning" /\ t.worst = "critical"
      BY <2>1, <2>2 DEF Break
    <2>4. 1 + 1 = 2 /\ 1..2 - 1 = {1} /\ 2 # 0
      OBVIOUS
    <2>5. Between(1).labelled /\ Between(1).status = breaks[2].status
      <3>1. Between(1).labelled /\ Between(1).status = breaks[1 + 1].status
        BY <1>3, Zenon
      <3> HIDE DEF Between, breaks
      <3>2. QED
        BY <2>4, <3>1
    <2>6. Past.labelled /\ Past.status = t.worst
      BY <1>3, Zenon
    <2> DEFINE B1 == Between(1)
               B2 == Past
    <2>7. BandsFor(name) = Append([k \in {1} |-> Between(k)], B2)
      BY <1>1, <2>2, <2>4
    <2>8. [k \in {1} |-> Between(k)] = <<B1>>
      <3> HIDE DEF Between
      <3>1. QED
        BY DEF B1
    <2> HIDE DEF B1, B2, Between, Past
    <2>9. BandsFor(name) = <<B1, B2>>
      BY <2>7, <2>8, AppendOne, Zenon
    <2>10. BandsFor(name)[i] \in {B1, B2}
      BY <2>9
    <2>11. "warning" \in Statuses /\ "critical" \in Statuses
      BY DEF Statuses
    <2>12. B1.labelled /\ B1.status \in Statuses /\ B2.labelled /\ B2.status \in Statuses
      BY <2>3, <2>5, <2>6, <2>11, Zenon DEF B1, B2
    <2>13. QED
      BY <2>10, <2>12
  <1>6. QED
    BY <1>2, <1>4, <1>5

LEMMA SeriesTyped ==
    ASSUME NEW ss \in Seq(SeriesType), NEW j \in DOMAIN ss
    PROVE  ss[j] \in SeriesType
  <1> DEFINE S == SeriesType
  <1>1. ss \in Seq(S)
    OBVIOUS
  <1> HIDE DEF S
  <1>2. ss[j] \in S
    BY <1>1
  <1>3. QED
    BY <1>2 DEF S

\* The panel of a resolved spec is settled.
LEMMA SettledPanel ==
    ASSUME NEW p \in PanelType, NEW q \in ResolvedType, ResolvedFrom(q, p), q.min < q.max,
           p.series # <<>>,
           \A j \in DOMAIN q.series : q.series[j].slot \in 1..maxSeries
    PROVE  Settled(Panel(q.series, q))
  <1> DEFINE r == Panel(q.series, q)
  <1>1. /\ r.series = q.series /\ r.min = q.min /\ r.max = q.max /\ r.zero = q.zero
        /\ r.show = q.show /\ r.bands = q.bands
    BY DEF Panel
  <1>2. q.min \in Int /\ q.max \in Int
    BY DEF ResolvedType
  <1>3. p.series \in Seq(SeriesType) /\ DOMAIN q.series = DOMAIN p.series
    BY DEF PanelType, ResolvedFrom
  <1>4. \A j \in DOMAIN p.series : p.series[j] \in SeriesType /\ Painted(q.series[j], p.series[j])
    BY <1>3, SeriesTyped DEF ResolvedFrom, Painted
  <1>5. \A j \in DOMAIN p.series : /\ q.series[j].param = p.series[j].param
                                   /\ EffectiveUnit(q.series[j]) = q.series[j].unit
                                   /\ EffectiveMark(q.series[j]) = q.series[j].mark
    BY <1>4, PaintedIs
  <1>6. q.zero = (p.zero \/ \E j \in DOMAIN p.series : Parameter(p.series[j].param).zero)
    <2>1. [min |-> q.min, max |-> q.max, zero |-> q.zero, ticks |-> q.ticks].zero = resolveY(p).zero
      BY DEF ResolvedFrom
    <2>2. resolveY(p).zero = (p.zero \/ \E j \in DOMAIN p.series : Parameter(p.series[j].param).zero)
      BY Zenon DEF resolveY
    <2>3. QED
      BY <2>1, <2>2, Zenon
  <1>7. \A j \in DOMAIN q.series : Parameter(q.series[j].param).zero => q.zero
    BY <1>3, <1>5, <1>6, Zenon
  <1>8. resolveBands(r) = r.bands
    <2>1. q.show = p.show /\ q.bands = resolveBands(p)
      BY DEF ResolvedFrom
    <2>2. 1 \in DOMAIN p.series
      BY <1>3
    <2>3. r.series[1].param = p.series[1].param
      BY <1>1, <1>5, <2>2
    <2> HIDE DEF r
    <2>4. QED
      BY <1>1, <2>1, <2>3 DEF resolveBands
  <1> HIDE DEF r
  <1>9. Settled(r)
    BY <1>1, <1>2, <1>3, <1>5, <1>7, <1>8 DEF Settled
  <1>10. QED
    BY <1>9 DEF r

LEMMA ValidAgain ==
    ASSUME NEW p \in PanelType, NEW q \in ResolvedType, ResolvedFrom(q, p), validatePanel(p),
           \A j \in DOMAIN q.series : q.series[j].slot \in 1..maxSeries
    PROVE  validatePanel(Panel(q.series, q))
  <1> DEFINE r == Panel(q.series, q)
  <1>1. r.series = q.series /\ r.bands = q.bands
    BY DEF Panel
  <1>2. /\ p.series \in Seq(SeriesType) /\ q.series \in Seq(SeriesType)
        /\ DOMAIN q.series = DOMAIN p.series
    BY DEF PanelType, ResolvedType, ResolvedFrom
  <1>3. p.series # <<>> /\ 1 \in DOMAIN p.series
    <2>1. p.series # <<>>
      BY Zenon DEF validatePanel
    <2>2. QED
      BY <1>2, <2>1
  <1>4. r.series # <<>>
    BY <1>1, <1>2, <1>3
  <1>5. \A j \in DOMAIN p.series : p.series[j] \in SeriesType /\ Painted(q.series[j], p.series[j])
    BY <1>2, SeriesTyped DEF ResolvedFrom, Painted
  <1>6. ASSUME NEW j \in DOMAIN p.series
        PROVE  /\ q.series[j].named
               /\ q.series[j].slot \in 0..maxSeries
               /\ q.series[j].mark \in {"", "line", "step", "band", "bar"}
               /\ EffectiveUnit(q.series[j]) = EffectiveUnit(q.series[1])
               /\ validatePoints(q.series[j])
    <2> DEFINE s == p.series[j]
               t == q.series[j]
               s1 == p.series[1]
               t1 == q.series[1]
    <2>1. /\ s.named /\ s.mark \in {"", "line", "step", "band", "bar"}
          /\ EffectiveUnit(s) = EffectiveUnit(s1) /\ validatePoints(s)
      BY DEF validatePanel
    <2>2. s \in SeriesType /\ s1 \in SeriesType /\ Painted(t, s) /\ Painted(t1, s1)
      BY <1>3, <1>5
    <2>3. t.slot \in 0..maxSeries
      <3>1. t.slot \in 1..maxSeries /\ maxSeries \in Nat
        BY <1>2, ChartAssumption
      <3> HIDE DEF t
      <3>2. QED
        BY <3>1
    <2> HIDE DEF s, t, s1, t1
    <2>4. /\ t.mark = s.mark \/ t.mark \in {"bar", "line"}
          /\ EffectiveUnit(t) = t.unit /\ t.unit = EffectiveUnit(s)
      BY <2>2, PaintedIs
    <2>5. EffectiveUnit(t1) = t1.unit /\ t1.unit = EffectiveUnit(s1)
      BY <2>2, PaintedIs
    <2>6. validatePoints(t)
      BY <2>1, <2>2, ValidPoints
    <2>7. t.mark \in {"", "line", "step", "band", "bar"}
      BY <2>1, <2>4
    <2>8. EffectiveUnit(t) = EffectiveUnit(t1)
      BY <2>1, <2>4, <2>5
    <2>9. t.named
      BY <2>1, <2>2, PaintedIs
    <2>10. QED
      BY <2>3, <2>6, <2>7, <2>8, <2>9 DEF t, t1
  <1>7. \A i \in DOMAIN q.bands : q.bands[i].labelled /\ q.bands[i].status \in Statuses
    <2>1. q.bands = BandsFor(p.series[1].param) \/ q.bands = p.bands
      BY DEF ResolvedFrom, resolveBands
    <2>2. QED
      BY <2>1, ValidBands DEF validatePanel
  <1> HIDE DEF r
  <1>8. validatePanel(r)
    BY <1>1, <1>2, <1>4, <1>6, <1>7, Zenon DEF validatePanel
  <1>9. QED
    BY <1>8 DEF r

\* A settled panel resolves to itself.
LEMMA ResolvedAgain ==
    ASSUME NEW r \in PanelType, Settled(r), NEW o \in ResolvedType, ResolvedFrom(o, r)
    PROVE  /\ o.min = r.min /\ o.max = r.max /\ o.zero = r.zero
           /\ o.series = r.series /\ o.show = r.show /\ o.bands = r.bands
           /\ o.ticks = TicksOf(r)
  <1>1. /\ [min |-> o.min, max |-> o.max, zero |-> o.zero, ticks |-> o.ticks] = resolveY(r)
        /\ o.show = r.show /\ o.bands = r.bands
    BY DEF ResolvedFrom, Settled
  <1>2. r.min # Nil /\ r.max # Nil /\ r.min \in Int /\ r.max \in Int /\ r.min < r.max
    BY Constants DEF Settled
  <1>3. /\ o.min = resolveY(r).min /\ o.max = resolveY(r).max /\ o.zero = resolveY(r).zero
        /\ o.ticks = resolveY(r).ticks
    <2> DEFINE y == resolveY(r)
    <2>1. [min |-> o.min, max |-> o.max, zero |-> o.zero, ticks |-> o.ticks] = y
      BY <1>1
    <2> HIDE DEF y
    <2>2. o.min = y.min /\ o.max = y.max /\ o.zero = y.zero /\ o.ticks = y.ticks
      BY <2>1
    <2>3. QED
      BY <2>2 DEF y
  <1>4. resolveY(r).min = r.min
    BY <1>2, Zenon DEF resolveY
  <1>5. resolveY(r).max = r.max
    <2>1. resolveY(r).max = IF r.max <= r.min THEN r.min + Unit ELSE r.max
      BY <1>2, Zenon DEF resolveY
    <2>2. QED
      BY <1>2, <2>1
  <1>6. resolveY(r).zero = r.zero
    <2>1. resolveY(r).zero = (r.zero \/ \E j \in DOMAIN r.series : Parameter(r.series[j].param).zero)
      BY Zenon DEF resolveY
    <2>2. (\E j \in DOMAIN r.series : Parameter(r.series[j].param).zero) => r.zero
      BY Zenon DEF Settled
    <2>3. r.zero = TRUE \/ r.zero = FALSE
      BY DEF PanelType
    <2>4. CASE r.zero = TRUE
      BY <2>1, <2>4, Zenon
    <2>5. CASE r.zero = FALSE
      <3>1. ~\E j \in DOMAIN r.series : Parameter(r.series[j].param).zero
        BY <2>2, <2>5, Zenon
      <3>2. resolveY(r).zero = (FALSE \/ FALSE)
        BY <2>1, <2>5, <3>1, Zenon
      <3>3. QED
        BY <2>5, <3>2
    <2>6. QED
      BY <2>3, <2>4, <2>5
  <1>7. /\ r.series \in Seq(SeriesType) /\ o.series \in Seq(SeriesType)
        /\ DOMAIN o.series = DOMAIN r.series
    BY DEF PanelType, ResolvedType, ResolvedFrom
  <1>8. ASSUME NEW j \in DOMAIN r.series
        PROVE  o.series[j] = r.series[j]
    <2> DEFINE s == r.series[j]
               t == o.series[j]
    <2>1. s \in SeriesType
      BY <1>7, SeriesTyped
    <2>2. /\ Painted(t, s)
          /\ s.slot # 0 => t.slot = s.slot
      BY DEF ResolvedFrom, Painted
    <2>3. /\ s.slot \in 1..maxSeries
          /\ EffectiveUnit(s) = s.unit /\ EffectiveMark(s) = s.mark
      BY DEF Settled
    <2> HIDE DEF s, t
    <2>4. s.slot # 0
      BY <2>3
    <2>5. t = s
      BY <2>1, <2>2, <2>3, <2>4, PaintedAgain
    <2>6. QED
      BY <2>5 DEF s, t
  <1>9. o.series = r.series
    <2> DEFINE a == o.series
               b == r.series
               S == SeriesType
    <2>1. a \in Seq(S) /\ b \in Seq(S) /\ DOMAIN a = DOMAIN b /\ \A j \in DOMAIN b : a[j] = b[j]
      BY <1>7, <1>8
    <2> HIDE DEF a, b, S
    <2>2. a = b
      BY <2>1
    <2>3. QED
      BY <2>2 DEF a, b
  <1>10. resolveY(r).ticks = TicksOf(r)
    <2> DEFINE hi == IF r.max <= r.min THEN r.min + Unit ELSE r.max
    <2>1. resolveY(r).ticks = numericTicks(r.min, hi, niceStep(hi - r.min))
      BY <1>2, Zenon DEF resolveY
    <2>2. hi = r.max
      BY <1>2
    <2>3. QED
      BY <2>1, <2>2 DEF TicksOf
  <1>11. QED
    BY <1>1, <1>3, <1>4, <1>5, <1>6, <1>9, <1>10

-----------------------------------------------------------------------------
(* PriorInv: a resolved spec, given again. *)

\* Valid bounds the series, and with them the slots dealt.
LEMMA SlotsFit ==
    ASSUME ShapeInv, SlotInv, pc = "done"
    PROVE  \A i \in DOMAIN out : \A j \in DOMAIN out[i].series :
              out[i].series[j].slot \in 1..maxSeries
  <1> SUFFICES ASSUME NEW i \in DOMAIN out, NEW j \in DOMAIN out[i].series
               PROVE  out[i].series[j].slot \in 1..maxSeries
    OBVIOUS
  <1> DEFINE p == panels[i]
  <1>1. /\ panels \in Seq(PanelType) /\ out \in Seq(ResolvedType) /\ slot \in Nat
        /\ maxSeries \in Nat /\ Valid
    BY ChartAssumption DEF ShapeInv, TypeOK, PhaseInv
  <1>2. /\ i \in DOMAIN panels /\ p \in PanelType /\ ResolvedFrom(out[i], p)
        /\ i \in 1..Len(out) /\ Len(out) \in Nat
    BY <1>1, OutPanel
  <1>3. validatePanel(p) /\ Total <= maxSeries
    BY <1>1, <1>2 DEF Valid
  <1>4. j \in DOMAIN p.series
    BY <1>2 DEF ResolvedFrom
  <1>5. CASE p.series[j].slot # 0
    <2>1. out[i].series[j].slot = p.series[j].slot
      BY <1>2, <1>4, <1>5 DEF ResolvedFrom
    <2>2. p.series[j].slot \in 0..maxSeries
      BY <1>3, <1>4 DEF validatePanel
    <2> HIDE DEF p
    <2>3. QED
      BY <1>1, <1>5, <2>1, <2>2
  <1>6. CASE p.series[j].slot = 0
    <2> DEFINE a == <<i, j>>
    <2>1. IsFiniteSet(Places(panels)) /\ a \in Places(panels)
      BY <1>1, <1>2, <1>4, PlacesAre
    <2>2. a \in DealtTo
      BY <1>2, <1>6, <2>1 DEF DealtTo, Free
    <2>3. DealtTo \in SUBSET Places(panels)
      BY DEF DealtTo
    <2>4. Cardinality(DealtTo) <= Cardinality(Places(panels)) /\ Cardinality(Places(panels)) \in Nat
      BY <2>1, <2>3, FS_Subset, FS_CardinalityType
    <2>5. slot <= maxSeries
      BY <1>1, <1>3, <2>4 DEF SlotInv, Total
    <2>6. out[a[1]].series[a[2]].slot \in 1..slot
      BY <2>2 DEF SlotInv
    <2>7. QED
      BY <1>1, <2>5, <2>6
  <1>7. QED
    BY <1>5, <1>6

LEMMA RoseAgain ==
    ASSUME NEW o \in OptionsType, NEW points, ValidRose(o, points)
    PROVE  LET r == resolveRose(o, points)
               p == [n \in DOMAIN o |-> r[n]]
           IN  p.sectors = defaultSectors \/ ValidRose(p, points)
  <1> DEFINE r == resolveRose(o, points)
             p == [n \in DOMAIN o |-> r[n]]
  <1>1. /\ p.sectors = (IF o.sectors = 0 THEN defaultSectors ELSE o.sectors)
        /\ p.bands = (IF o.bands = <<>> THEN defaultSpeedBands ELSE o.bands)
    BY ResolvedRose
  <1> HIDE DEF p
  <1>2. o.sectors # 0 => p.sectors = o.sectors /\ p.sectors \in 4..72 /\ 360 % p.sectors = 0
    BY <1>1 DEF ValidRose
  <1>3. CASE o.bands # <<>>
    <2>1. p.bands = o.bands
      BY <1>1, <1>3
    <2>2. o.sectors # 0 => ValidRose(p, points)
      BY <1>2, <2>1, Zenon DEF ValidRose
    <2>3. QED
      BY <1>1, <2>2 DEF p
  <1>4. CASE o.bands = <<>>
    <2>1. p.bands = <<2 * Unit, 4 * Unit, 6 * Unit, 10 * Unit, 15 * Unit>>
      BY <1>1, <1>4 DEF defaultSpeedBands
    <2>2. Unit \in Nat \ {0}
      BY Constants
    <2>3. /\ Len(p.bands) = 5
          /\ p.bands[1] = 2 * Unit /\ p.bands[2] = 4 * Unit /\ p.bands[3] = 6 * Unit
          /\ p.bands[4] = 10 * Unit /\ p.bands[5] = 15 * Unit
      BY <2>1
    <2>4. /\ \A i \in 2..Len(p.bands) : p.bands[i - 1] < p.bands[i]
          /\ p.bands[1] > 0
      <3> DEFINE b == p.bands
      <3>1. /\ Len(b) = 5
            /\ b[1] = 2 * Unit /\ b[2] = 4 * Unit /\ b[3] = 6 * Unit
            /\ b[4] = 10 * Unit /\ b[5] = 15 * Unit
        BY <2>3
      <3> HIDE DEF b
      <3>2. b[1] < b[2] /\ b[2] < b[3] /\ b[3] < b[4] /\ b[4] < b[5] /\ b[1] > 0
        BY <2>2, <3>1
      <3>3. \A i \in 2..5 : i = 2 \/ i = 3 \/ i = 4 \/ i = 5
        OBVIOUS
      <3>4. \A i \in 2..5 : b[i - 1] < b[i]
        BY <3>2, <3>3
      <3>5. QED
        BY <3>1, <3>2, <3>4 DEF b
    <2>5. \E k \in DOMAIN points : Complete(points[k])
      BY DEF ValidRose
    <2>6. o.sectors # 0 => ValidRose(p, points)
      BY <1>2, <2>4, <2>5, Zenon DEF ValidRose
    <2>7. QED
      BY <1>1, <2>6 DEF p
  <1>5. QED
    BY <1>3, <1>4

\* A resolved spec has the samples of the given one.
LEMMA SameTimes ==
    ASSUME NEW ps, NEW qs, DOMAIN qs = DOMAIN ps,
           \A i \in DOMAIN ps :
              /\ DOMAIN qs[i].series = DOMAIN ps[i].series
              /\ \A j \in DOMAIN ps[i].series : qs[i].series[j].points = ps[i].series[j].points
    PROVE  timeExtent(qs) = timeExtent(ps)
  <1> DEFINE Read(s) == {s.points[k].t : k \in DOMAIN s.points}
             OfPanel(p) == UNION {Read(p.series[j]) : j \in DOMAIN p.series}
  <1>1. \A i \in DOMAIN ps : \A j \in DOMAIN ps[i].series :
           Read(qs[i].series[j]) = Read(ps[i].series[j])
    OBVIOUS
  <1> HIDE DEF Read
  <1>2. \A i \in DOMAIN ps : OfPanel(qs[i]) = OfPanel(ps[i])
    <2> TAKE i \in DOMAIN ps
    <2> DEFINE a == qs[i].series
               b == ps[i].series
    <2>1. DOMAIN a = DOMAIN b /\ \A j \in DOMAIN b : Read(a[j]) = Read(b[j])
      BY <1>1
    <2> HIDE DEF a, b
    <2>2. {Read(a[j]) : j \in DOMAIN a} = {Read(b[j]) : j \in DOMAIN b}
      BY <2>1
    <2>3. QED
      BY <2>2 DEF a, b
  <1>3. timeExtent(ps) = UNION {OfPanel(ps[i]) : i \in DOMAIN ps}
    BY DEF timeExtent, Read
  <1>4. timeExtent(qs) = UNION {OfPanel(qs[i]) : i \in DOMAIN qs}
    BY DEF timeExtent, Read
  <1> HIDE DEF OfPanel
  <1>5. {OfPanel(qs[i]) : i \in DOMAIN qs} = {OfPanel(ps[i]) : i \in DOMAIN ps}
    BY <1>2
  <1>6. QED
    BY <1>3, <1>4, <1>5

\* The ends of an axis, given again as pins.
LEMMA AxisAgain ==
    ASSUME NEW t0 \in Nat, NEW t1 \in Nat, EndsOf(x, t0, t1)
    PROVE  /\ x.t0 = InMillis(t0) /\ x.t1 = InMillis(t1) /\ x.ticks = timeTicks(t0, t1)
           /\ x.t0 \in Nat /\ x.t1 \in Nat /\ x.t0 <= x.t1
           /\ InMillis(x.t0) = x.t0 /\ InMillis(x.t1) = x.t1
  <1>1. /\ x.t0 = InMillis(t0) /\ x.t1 = InMillis(t1) /\ x.ticks = timeTicks(t0, t1) /\ t0 < t1
    BY DEF EndsOf
  <1>2. /\ x.t0 \in Nat /\ x.t1 \in Nat /\ Whole(x.t0) /\ Whole(x.t1) /\ x.t0 <= t0
    BY <1>1, InMillisIs
  <1>3. x.t0 <= t1
    BY <1>1, <1>2
  <1>4. x.t0 <= InMillis(t1)
    BY <1>2, <1>3, WholeIs
  <1>5. InMillis(x.t0) = x.t0 /\ InMillis(x.t1) = x.t1
    BY <1>2, WholeIs
  <1>6. QED
    BY <1>1, <1>2, <1>4, <1>5

\* An axis between settled pins is the one between them, or an hour where they coincide.
LEMMA SettledEnds ==
    ASSUME SettledAxis, NEW t0 \in Nat, NEW t1 \in Nat, EndsOf(x, t0, t1)
    PROVE  /\ t0 = xpins[1]
           /\ xpins[1] < xpins[2] => t1 = xpins[2]
           /\ InMillis(t0) = t0 /\ InMillis(t1) = t1
  <1>1. /\ xpins[1] \in Nat /\ xpins[2] \in Nat /\ xpins[1] <= xpins[2]
        /\ InMillis(xpins[1]) = xpins[1] /\ InMillis(xpins[2]) = xpins[2]
        /\ xpins[1] # Nil /\ xpins[2] # Nil
    BY Constants DEF SettledAxis
  <1>2. t0 = xpins[1] /\ t1 = EndFrom(t0, xpins[2])
    BY <1>1 DEF EndsOf
  <1>3. 60 * Minute \in Nat /\ Whole(60 * Minute)
    BY MilliIs
  <1>4. InMillis(t1) = t1
    <2>1. CASE t1 = xpins[2]
      BY <1>1, <2>1
    <2>2. CASE t1 = t0 + 60 * Minute
      <3>1. InMillis(t0) = t0
        BY <1>1, <1>2
      <3>2. Whole(t1)
        BY <1>3, <2>2, <3>1, WholeSum
      <3>3. QED
        BY <3>2, WholeIs
    <2>3. QED
      BY <1>2, <2>1, <2>2 DEF EndFrom
  <1>5. QED
    BY <1>1, <1>2, <1>4 DEF EndFrom

LEMMA LastAppended ==
    ASSUME NEW r, Len(prior) < 2, prior' = Append(prior, r),
           \/ prior = <<>>
           \/ \E a : prior = <<a>>
           \/ \E a, b : prior = <<a, b>>
    PROVE  /\ Last(prior') = r /\ prior' # <<>>
           /\ Twice' <=> prior # <<>>
           /\ \/ \E a : prior' = <<a>>
              \/ \E a, b : prior' = <<a, b>>
  <1>1. CASE prior = <<>>
    <2>1. prior' = <<r>>
      BY <1>1
    <2>2. Len(<<r>>) = 1 /\ <<r>>[1] = r /\ <<r>> # <<>>
      OBVIOUS
    <2>3. QED
      BY <1>1, <2>1, <2>2 DEF Twice, Last
  <1>2. CASE \E a : prior = <<a>>
    <2>1. PICK a : prior = <<a>>
      BY <1>2
    <2>2. prior' = <<a, r>>
      BY <2>1, AppendOne
    <2>3. Len(<<a, r>>) = 2 /\ <<a, r>>[2] = r /\ <<a, r>> # <<>> /\ <<a>> # <<>>
      OBVIOUS
    <2>4. QED
      BY <2>1, <2>2, <2>3 DEF Twice, Last
  <1>3. CASE \E a, b : prior = <<a, b>>
    BY <1>3
  <1>4. QED
    BY <1>1, <1>2, <1>3

LEMMA PriorAgain ==
    ASSUME ShapeInv, SlotInv, PriorInv, Again
    PROVE  PriorInv'
  <1> USE DEF given
  <1> DEFINE P(i) == Panel(out[i].series, out[i])
             record == [panels |-> out, x |-> x, rose |-> rose]
  <1>1. /\ pc = "done" /\ Len(prior) < 2 /\ prior' = Append(prior, record)
        /\ panels' = [i \in DOMAIN out |-> P(i)]
        /\ xpins' = IF kind = "windrose" THEN xpins ELSE <<x.t0, x.t1>>
        /\ opts' = [n \in DOMAIN opts |-> rose[n]]
        /\ pc' = "edit" /\ kind' = kind
    BY DEF Again
  <1>2. /\ panels \in Seq(PanelType) /\ out \in Seq(ResolvedType) /\ opts \in OptionsType
        /\ Len(out) = Len(panels) /\ Valid /\ OutInv /\ AxisInv /\ RoseInv
    BY <1>1 DEF ShapeInv, TypeOK, PhaseInv, OptionsType
  <1>3. DOMAIN out = DOMAIN panels /\ DOMAIN panels' = DOMAIN out
    <2>1. DOMAIN out = DOMAIN panels
      BY <1>2
    <2>2. QED
      BY <1>1, <2>1
  <1>4. /\ Last(prior') = record /\ prior' # <<>> /\ (Twice' <=> prior # <<>>)
        /\ \/ \E a : prior' = <<a>>
           \/ \E a, b : prior' = <<a, b>>
    BY <1>1, LastAppended DEF PriorInv
  <1>5. record.panels = out /\ record.x = x /\ record.rose = rose
    OBVIOUS
  <1> HIDE DEF record
  <1>6. \A i \in DOMAIN out : panels'[i] = Panel(out[i].series, out[i])
    BY <1>1
  <1>22. \A i \in DOMAIN out : panels'[i].series = out[i].series
    <2>1. \A series, c : Panel(series, c).series = series
      BY DEF Panel
    <2>2. QED
      BY <1>6, <2>1
  <1>7. \A i \in DOMAIN out : out[i] \in ResolvedType
    BY <1>2
  <1>8. \A i \in DOMAIN out : validatePanel(panels[i])
    BY <1>2, <1>3 DEF Valid
  <1>9. \A i \in DOMAIN out : /\ panels[i] \in PanelType
                              /\ ResolvedFrom(out[i], panels[i]) /\ out[i].min < out[i].max
                              /\ panels[i].series # <<>>
                              /\ \A j \in DOMAIN out[i].series : out[i].series[j].slot \in 1..maxSeries
    <2> TAKE i \in DOMAIN out
    <2>1. panels[i].series # <<>>
      BY <1>8, Zenon DEF validatePanel
    <2>2. QED
      BY <1>1, <2>1, OutPanel, SlotsFit
  <1>10. \A i \in DOMAIN out : Settled(panels'[i]) /\ validatePanel(panels'[i])
    <2> TAKE i \in DOMAIN out
    <2>1. Settled(Panel(out[i].series, out[i]))
      BY <1>7, <1>9, SettledPanel
    <2>2. validatePanel(Panel(out[i].series, out[i]))
      BY <1>7, <1>8, <1>9, ValidAgain
    <2>3. QED
      BY <1>6, <2>1, <2>2
  <1>11. Places(panels') = Places(panels)
    <2>1. \A i \in DOMAIN out : DOMAIN panels'[i].series = DOMAIN panels[i].series
      BY <1>22, <1>9 DEF ResolvedFrom
    <2>2. QED
      BY <1>3, <2>1 DEF Places
  <1>12. panels # <<>> /\ 1 \in DOMAIN out
    <2>1. panels # <<>>
      BY <1>2 DEF Valid
    <2>2. QED
      BY <1>2, <1>3, <2>1
  <1> DEFINE points == panels[1].series[1].points
  <1>13. kind = "windrose" => /\ panels'[1].series[1].points = points
                              /\ Len(panels'[1].series) = 1 /\ ValidRose(opts, points)
    <2> HAVE kind = "windrose"
    <2> DEFINE ss == panels[1].series
               tt == out[1].series
    <2>1. Len(ss) = 1 /\ ValidRose(opts, points)
      BY <1>2 DEF Valid
    <2>2. panels[1] \in PanelType /\ out[1] \in ResolvedType /\ ResolvedFrom(out[1], panels[1])
      BY <1>7, <1>9, <1>12
    <2>3. /\ ss \in Seq(SeriesType) /\ tt \in Seq(SeriesType) /\ DOMAIN tt = DOMAIN ss
      BY <2>2 DEF PanelType, ResolvedType, ResolvedFrom
    <2>4. \A j \in DOMAIN ss : Painted(tt[j], ss[j])
      BY <2>2 DEF ResolvedFrom, Painted
    <2>5. panels'[1].series = tt
      BY <1>22, <1>12
    <2>6. points = ss[1].points
      OBVIOUS
    <2> HIDE DEF ss, tt, points
    <2>7. 1 \in DOMAIN ss /\ Len(tt) = 1
      BY <2>1, <2>3
    <2>8. ss[1] \in SeriesType /\ Painted(tt[1], ss[1])
      BY <2>3, <2>4, <2>7, SeriesTyped
    <2>9. tt[1].points = ss[1].points
      BY <2>8, PaintedIs
    <2>10. QED
      BY <2>1, <2>5, <2>6, <2>7, <2>9
  <1> HIDE DEF points, P
  <1>14. kind = "windrose" => rose = resolveRose(opts, points) /\ x = NoAxis
    BY <1>1, <1>2 DEF RoseInv, points
  <1>15. ASSUME kind = "windrose"
         PROVE  SettledOptions'
    <2>1. /\ opts'.sectors = (IF opts.sectors = 0 THEN defaultSectors ELSE opts.sectors)
          /\ opts'.bands = (IF opts.bands = <<>> THEN defaultSpeedBands ELSE opts.bands)
          /\ opts'.calmBelow = (IF opts.calmBelow = 0 THEN defaultCalmBelow ELSE opts.calmBelow)
          /\ rose = Rose(opts'.sectors, opts'.bands, opts'.calmBelow, points)
      BY <1>1, <1>2, <1>14, <1>15, ResolvedRose
    <2>2. opts'.sectors # 0
      BY <2>1, OptionsAre
    <2>3. opts'.bands # <<>>
      BY <2>1, OptionsAre
    <2>4. opts'.calmBelow # 0
      BY <2>1, OptionsAre
    <2>5. Last(prior').rose = rose
      BY <1>4, <1>5
    <2>6. QED
      BY <1>13, <1>15, <2>1, <2>2, <2>3, <2>4, <2>5, Zenon DEF SettledOptions
  <1>23. WholeTimes' <=> WholeTimes
    <2>1. \A i \in DOMAIN panels :
             /\ DOMAIN panels'[i].series = DOMAIN panels[i].series
             /\ \A j \in DOMAIN panels[i].series :
                   panels'[i].series[j].points = panels[i].series[j].points
      <3> TAKE i \in DOMAIN panels
      <3> DEFINE p == panels[i]
                 q == out[i]
                 ss == p.series
                 tt == q.series
      <3>1. p \in PanelType /\ q \in ResolvedType /\ ResolvedFrom(q, p) /\ panels'[i].series = tt
        BY <1>3, <1>7, <1>9, <1>22
      <3> HIDE DEF p, q
      <3>2. /\ ss \in Seq(SeriesType) /\ DOMAIN tt = DOMAIN ss
            /\ \A j \in DOMAIN ss : Painted(tt[j], ss[j])
        BY <3>1 DEF PanelType, ResolvedFrom, Painted
      <3> HIDE DEF ss, tt
      <3>3. \A j \in DOMAIN ss : ss[j] \in SeriesType
        BY <3>2, SeriesTyped
      <3>4. \A j \in DOMAIN ss : tt[j].points = ss[j].points
        BY <3>2, <3>3, PaintedIs
      <3>5. QED
        BY <3>1, <3>2, <3>4 DEF ss, p
    <2>2. timeExtent(panels') = timeExtent(panels)
      BY <1>3, <2>1, SameTimes
    <2>3. QED
      BY <2>2 DEF WholeTimes
  <1>16. ASSUME kind # "windrose"
         PROVE  SettledAxis' /\ rose = NoRose
    <2>1. PICK t0 \in Nat, t1 \in Nat : EndsOf(x, t0, t1)
      BY <1>1, <1>2, <1>16 DEF AxisInv
    <2>2. /\ x.t0 = InMillis(t0) /\ x.t1 = InMillis(t1)
          /\ x.t0 \in Nat /\ x.t1 \in Nat /\ x.t0 <= x.t1
          /\ InMillis(x.t0) = x.t0 /\ InMillis(x.t1) = x.t1
      BY <2>1, AxisAgain
    <2>3. rose = NoRose
      BY <1>1, <1>2, <1>16 DEF RoseInv
    <2>4. xpins'[1] = x.t0 /\ xpins'[2] = x.t1
      BY <1>1, <1>16
    <2>5. Last(prior').x = x
      BY <1>4, <1>5
    <2>6. WholeTimes \/ prior # <<>> => InMillis(t0) = t0 /\ InMillis(t1) = t1
      <3>1. WholeTimes => InMillis(t0) = t0 /\ InMillis(t1) = t1
        BY <2>1 DEF EndsOf
      <3>2. prior # <<>> => SettledAxis
        BY <1>16 DEF PriorInv
      <3>3. QED
        BY <2>1, <3>1, <3>2, SettledEnds
    <2>7. WholeTimes \/ prior # <<>> =>
             /\ x.t0 < x.t1
             /\ x = [t0 |-> x.t0, t1 |-> x.t1, ticks |-> timeTicks(x.t0, x.t1)]
      <3> HAVE WholeTimes \/ prior # <<>>
      <3>1. x.t0 = t0 /\ x.t1 = t1
        BY <2>2, <2>6
      <3>2. t0 < t1 /\ x = [t0 |-> InMillis(t0), t1 |-> InMillis(t1), ticks |-> timeTicks(t0, t1)]
        BY <2>1 DEF EndsOf
      <3>3. QED
        BY <2>6, <3>1, <3>2
    <2>8. QED
      BY <1>4, <1>23, <2>2, <2>3, <2>4, <2>5, <2>7 DEF SettledAxis
  <1>17. Valid' \/ DefaultRose'
    <2>1. panels' # <<>>
      BY <1>3, <1>12
    <2>2. kind' # "meteogram" => Len(panels') = 1
      <3>1. kind # "meteogram" => Len(panels) = 1
        BY <1>2 DEF Valid
      <3>2. Len(panels') = Len(panels)
        BY <1>1, <1>2
      <3>3. QED
        BY <1>1, <3>1, <3>2
    <2>3. \A i \in DOMAIN panels' : validatePanel(panels'[i])
      BY <1>3, <1>10
    <2>4. Total' <= maxSeries
      BY <1>2, <1>11 DEF Valid, Total
    <2>5. CASE kind = "windrose"
      <3>1. \/ opts'.sectors = defaultSectors
            \/ ValidRose(opts', points)
        BY <1>1, <1>2, <1>13, <1>14, <2>5, RoseAgain
      <3>2. kind' = "windrose"
        BY <1>1, <2>5
      <3>3. CASE opts'.sectors = defaultSectors
        BY <3>2, <3>3 DEF DefaultRose
      <3>4. CASE ValidRose(opts', points)
        BY <1>13, <2>1, <2>2, <2>3, <2>4, <2>5, <3>4, Zenon DEF Valid
      <3>5. QED
        BY <3>1, <3>3, <3>4
    <2>6. CASE kind # "windrose"
      <3>1. kind' # "windrose"
        BY <1>1, <2>6
      <3>2. QED
        BY <2>1, <2>2, <2>3, <2>4, <3>1, Zenon DEF Valid
    <2>7. QED
      BY <2>5, <2>6
  <1>18. GivenAgain(Last(prior).panels, panels)'
    <2>1. out \in Seq(ResolvedType) /\ DOMAIN out = DOMAIN panels'
      BY <1>2, <1>3
    <2>2. \A i \in DOMAIN panels' : panels'[i] = Panel(out[i].series, out[i]) /\ Settled(panels'[i])
      BY <1>3, <1>6, <1>10
    <2>3. Twice' => \A i \in DOMAIN panels' : out[i].ticks = TicksOf(panels'[i])
      <3> HAVE Twice'
      <3> TAKE i \in DOMAIN panels'
      <3>1. Settled(panels[i])
        BY <1>3, <1>4 DEF PriorInv, GivenAgain
      <3> DEFINE p == panels[i]
                 o == out[i]
      <3>2. p \in PanelType /\ Settled(p) /\ o \in ResolvedType /\ ResolvedFrom(o, p)
        BY <1>3, <1>7, <1>9, <3>1
      <3>3. panels'[i].min = o.min /\ panels'[i].max = o.max
        BY <1>3, <1>6 DEF Panel
      <3> HIDE DEF p, o
      <3>4. o.min = p.min /\ o.max = p.max /\ o.ticks = TicksOf(p)
        BY <3>2, ResolvedAgain
      <3>5. QED
        BY <3>3, <3>4 DEF TicksOf, o
    <2>4. Last(prior').panels = out
      BY <1>4, <1>5
    <2>5. QED
      BY <2>1, <2>2, <2>3, <2>4 DEF GivenAgain
  <1>19. kind' = "windrose" => SettledOptions' /\ Last(prior').x = NoAxis
    BY <1>1, <1>4, <1>5, <1>14, <1>15
  <1>20. kind' # "windrose" => SettledAxis' /\ Last(prior').rose = NoRose
    BY <1>1, <1>4, <1>5, <1>16
  <1>21. QED
    BY <1>1, <1>4, <1>17, <1>18, <1>19, <1>20, Zenon DEF PriorInv

LEMMA PriorStep ==
    ASSUME ShapeInv, SlotInv, PriorInv, [Next]_vars
    PROVE  PriorInv'
  <1> USE DEF given
  <1>1. ASSUME prior' = <<>>
        PROVE  PriorInv'
    BY <1>1 DEF PriorInv
  <1>2. ASSUME UNCHANGED given, pc' = "edit" => pc = "edit",
               pc' = "refused" => pc = "refused" \/ (pc = "edit" /\ ~Valid)
        PROVE  PriorInv'
    <2>1. UNCHANGED <<kind, panels, opts, xpins, prior>>
      BY <1>2
    <2>2. (Valid' <=> Valid) /\ (DefaultRose' <=> DefaultRose)
      BY <2>1, SameValid DEF DefaultRose
    <2>3. (SettledOptions' <=> SettledOptions) /\ (SettledAxis' <=> SettledAxis)
      BY <2>1 DEF SettledOptions, SettledAxis, WholeTimes, Twice
    <2> SUFFICES ASSUME prior # <<>>
                 PROVE  PriorInv'
      BY <1>1, <2>1
    <2>4. pc' = "edit" => Valid' \/ DefaultRose'
      BY <1>2, <2>2 DEF PriorInv
    <2>5. pc' = "refused" => DefaultRose'
      BY <1>2, <2>2 DEF PriorInv
    <2>6. /\ GivenAgain(Last(prior).panels, panels)
          /\ kind = "windrose" => SettledOptions /\ Last(prior).x = NoAxis
          /\ kind # "windrose" => SettledAxis /\ Last(prior).rose = NoRose
          /\ \/ prior = <<>>
             \/ \E a : prior = <<a>>
             \/ \E a, b : prior = <<a, b>>
      BY DEF PriorInv
    <2>8. GivenAgain(Last(prior).panels, panels)'
      BY <2>1, <2>6 DEF GivenAgain, Twice
    <2>7. QED
      BY <2>1, <2>3, <2>4, <2>5, <2>6, <2>8 DEF PriorInv
  <1>3. ASSUME NEW c \in PanelChoices, AddPanel(c)
        PROVE  PriorInv'
    BY <1>1, <1>3 DEF AddPanel, ByHand
  <1>4. ASSUME NEW s \in SeriesChoices, AddSeries(s)
        PROVE  PriorInv'
    BY <1>1, <1>4 DEF AddSeries, ByHand
  <1>5. ASSUME NEW sample \in Samples, FromSamples(sample)
        PROVE  PriorInv'
    BY <1>1, <1>5 DEF FromSamples, ByHand
  <1>6. CASE Validate
    BY <1>2, <1>6 DEF Validate
  <1>7. CASE ResolvePanel
    BY <1>2, <1>7 DEF ResolvePanel
  <1>8. CASE ResolveX \/ ResolveRose
    BY <1>2, <1>8 DEF ResolveX, ResolveRose
  <1>9. CASE Again
    BY <1>9, PriorAgain
  <1>10. CASE UNCHANGED vars
    BY <1>2, <1>10 DEF vars
  <1>11. QED
    BY <1>3, <1>4, <1>5, <1>6, <1>7, <1>8, <1>9, <1>10 DEF Next

LEMMA InvIs == Spec => []Inv
  <1>1. Init => SlotInv /\ PriorInv
    <2> SUFFICES ASSUME Init
                 PROVE  SlotInv /\ PriorInv
      OBVIOUS
    <2>1. panels = <<>> /\ out = <<>> /\ slot = 0 /\ prior = <<>>
      BY DEF Init
    <2>2. Places(panels) = {}
      <3>1. DOMAIN panels = {}
        BY <2>1
      <3>2. QED
        BY <3>1 DEF Places
    <2>3. DealtTo = {} /\ Cardinality({}) = 0
      BY <2>2, FS_EmptySet DEF DealtTo
    <2>4. QED
      BY <2>1, <2>3 DEF SlotInv, PriorInv
  <1>2. ShapeInv /\ SlotInv /\ PriorInv /\ [Next]_vars => SlotInv' /\ PriorInv'
    BY SlotStep, PriorStep
  <1>3. QED
    BY <1>1, <1>2, ChartKeepsItsShape, PTL DEF Spec, Inv

LEMMA SameRecord ==
    ASSUME NEW S, NEW B,
           NEW o \in [series : S, min : Int, max : Int, zero : BOOLEAN,
                      ticks : Seq(Int), show : BOOLEAN, bands : B],
           NEW q \in [series : S, min : Int, max : Int, zero : BOOLEAN,
                      ticks : Seq(Int), show : BOOLEAN, bands : B],
           o.series = q.series, o.min = q.min, o.max = q.max, o.zero = q.zero,
           o.ticks = q.ticks, o.show = q.show, o.bands = q.bands
    PROVE  o = q
  <1>1. o = [series |-> o.series, min |-> o.min, max |-> o.max, zero |-> o.zero,
             ticks |-> o.ticks, show |-> o.show, bands |-> o.bands]
    OBVIOUS
  <1>2. q = [series |-> q.series, min |-> q.min, max |-> q.max, zero |-> q.zero,
             ticks |-> q.ticks, show |-> q.show, bands |-> q.bands]
    OBVIOUS
  <1>3. QED
    BY <1>1, <1>2

LEMMA InvIsStable ==
    ASSUME Inv
    PROVE  ResolvedIsStable
  <1>1. ShapeInv /\ SlotInv /\ PriorInv
    BY DEF Inv
  <1>2. /\ panels \in Seq(PanelType) /\ out \in Seq(ResolvedType) /\ opts \in OptionsType
        /\ Len(out) \in Nat /\ DOMAIN out = 1..Len(out)
    BY <1>1 DEF ShapeInv, TypeOK, OptionsType
  <1>3. ASSUME NEW a \in SeriesAt, NEW b \in SeriesAt, a # b, ~Pinned(a), ~Pinned(b)
        PROVE  out[a[1]].series[a[2]].slot # out[b[1]].series[b[2]].slot
    <2>1. ASSUME NEW c \in SeriesAt, ~Pinned(c)
          PROVE  c \in DealtTo
      <3>1. c[1] \in DOMAIN out /\ c[2] \in DOMAIN out[c[1]].series /\ c = <<c[1], c[2]>>
        BY DEF SeriesAt
      <3>2. c[1] \in DOMAIN panels /\ ResolvedFrom(out[c[1]], panels[c[1]])
        BY <1>1, <3>1, OutPanel
      <3>3. c[2] \in DOMAIN panels[c[1]].series
        BY <3>1, <3>2 DEF ResolvedFrom
      <3>4. c \in Places(panels)
        BY <1>2, <3>1, <3>2, <3>3, PlacesAre
      <3>5. c[1] <= Len(out)
        BY <1>2, <3>1
      <3>6. QED
        BY <2>1, <3>4, <3>5 DEF DealtTo, Free, Pinned
    <2>2. QED
      BY <1>1, <1>3, <2>1 DEF SlotInv
  <1>4. ASSUME prior # <<>>, pc = "refused"
        PROVE  kind = "windrose" /\ opts.sectors = defaultSectors
    BY <1>1, <1>4 DEF PriorInv, DefaultRose
  <1> DEFINE was == Last(prior)
  <1>5. ASSUME prior # <<>>, pc = "done"
        PROVE  /\ rose = was.rose /\ x.t0 = was.x.t0
               /\ was.x.t0 < was.x.t1 => x.t1 = was.x.t1
               /\ WholeTimes \/ Twice => x = was.x
    <2>1. CASE kind = "windrose"
      <3>1. x = NoAxis /\ rose = resolveRose(opts, panels[1].series[1].points)
        BY <1>1, <1>5, <2>1 DEF ShapeInv, RoseInv
      <3>2. SettledOptions /\ was.x = NoAxis
        BY <1>1, <1>5, <2>1 DEF PriorInv
      <3>3. rose = Rose(opts.sectors, opts.bands, opts.calmBelow, panels[1].series[1].points)
        BY <3>1, <3>2, Zenon DEF resolveRose, SettledOptions
      <3>4. rose = was.rose
        BY <3>2, <3>3 DEF SettledOptions
      <3> HIDE DEF was
      <3>5. QED
        BY <3>1, <3>2, <3>4
    <2>2. CASE kind # "windrose"
      <3>1. rose = NoRose
        BY <1>1, <1>5, <2>2 DEF ShapeInv, RoseInv
      <3>2. SettledAxis /\ was.rose = NoRose
        BY <1>1, <1>5, <2>2 DEF PriorInv
      <3>3. PICK t0 \in Nat, t1 \in Nat : EndsOf(x, t0, t1)
        BY <1>1, <1>5, <2>2 DEF ShapeInv, AxisInv
      <3>4. /\ t0 = xpins[1] /\ (xpins[1] < xpins[2] => t1 = xpins[2])
            /\ InMillis(t0) = t0 /\ InMillis(t1) = t1
        BY <3>2, <3>3, SettledEnds
      <3>5. x = [t0 |-> t0, t1 |-> t1, ticks |-> timeTicks(t0, t1)]
        BY <3>3, <3>4 DEF EndsOf
      <3>6. /\ was.x.t0 = xpins[1] /\ was.x.t1 = xpins[2]
            /\ WholeTimes \/ Twice =>
                 /\ xpins[1] < xpins[2]
                 /\ was.x = [t0 |-> xpins[1], t1 |-> xpins[2],
                             ticks |-> timeTicks(xpins[1], xpins[2])]
        BY <3>2 DEF SettledAxis
      <3> HIDE DEF was
      <3>7. QED
        BY <3>1, <3>2, <3>4, <3>5, <3>6
    <2>3. QED
      BY <2>1, <2>2
  <1>6. ASSUME prior # <<>>, pc = "done", NEW i \in DOMAIN out
        PROVE  /\ [n \in {"min", "max", "zero", "series", "show", "bands"} |-> out[i][n]]
                    = [n \in {"min", "max", "zero", "series", "show", "bands"} |->
                           was.panels[i][n]]
               /\ Twice => out[i] = was.panels[i]
    <2> DEFINE p == panels[i]
               o == out[i]
               q == was.panels[i]
    <2>1. /\ i \in DOMAIN panels /\ p \in PanelType /\ ResolvedFrom(o, p) /\ o \in ResolvedType
      BY <1>1, <1>2, OutPanel
    <2>2. Settled(p) /\ p = Panel(q.series, q) /\ (Twice => q.ticks = TicksOf(p))
      BY <1>1, <1>6, <2>1 DEF PriorInv, GivenAgain
    <2>7. q \in ResolvedType
      <3> DEFINE qs == was.panels
                 R == ResolvedType
      <3>1. qs \in Seq(R) /\ i \in DOMAIN qs
        BY <1>1, <1>6, <2>1 DEF PriorInv, GivenAgain
      <3> HIDE DEF R, qs
      <3>2. qs[i] \in R
        BY <3>1
      <3>3. QED
        BY <3>2 DEF R, qs
    <2> HIDE DEF p, o, q
    <2>3. /\ o.min = p.min /\ o.max = p.max /\ o.zero = p.zero
          /\ o.series = p.series /\ o.show = p.show /\ o.bands = p.bands
          /\ o.ticks = TicksOf(p)
      BY <2>1, <2>2, ResolvedAgain
    <2>4. /\ p.min = q.min /\ p.max = q.max /\ p.zero = q.zero
          /\ p.series = q.series /\ p.show = q.show /\ p.bands = q.bands
      BY <2>2 DEF Panel
    <2>5. \A n \in {"min", "max", "zero", "series", "show", "bands"} : o[n] = q[n]
      BY <2>3, <2>4
    <2>8. Twice => o = q
      <3> HAVE Twice
      <3>1. /\ o.min = q.min /\ o.max = q.max /\ o.zero = q.zero /\ o.ticks = q.ticks
            /\ o.series = q.series /\ o.show = q.show /\ o.bands = q.bands
        BY <2>2, <2>3, <2>4
      <3>2. QED
        BY <2>1, <2>7, <3>1, SameRecord DEF ResolvedType
    <2>6. QED
      BY <2>5, <2>8 DEF o, q
  <1>8. ASSUME Twice, pc = "done"
        PROVE  out = was.panels
    <2> DEFINE qs == was.panels
               R == ResolvedType
    <2>1. prior # <<>>
      BY <1>8 DEF Twice
    <2>2. qs \in Seq(R) /\ DOMAIN qs = DOMAIN panels
      BY <1>1, <2>1 DEF PriorInv, GivenAgain
    <2>3. DOMAIN out = DOMAIN panels
      BY <1>1, <1>2, <1>8 DEF ShapeInv, PhaseInv
    <2>4. \A i \in DOMAIN out : out[i] = qs[i]
      BY <1>6, <1>8, <2>1
    <2>5. out \in Seq(R)
      BY <1>2
    <2> HIDE DEF R, qs
    <2>6. out = qs
      BY <2>2, <2>3, <2>4, <2>5
    <2>7. QED
      BY <2>6 DEF qs
  <1>7. QED
    BY <1>3, <1>4, <1>5, <1>6, <1>8 DEF ResolvedIsStable, Twice

\* Resolved: whatever the panels, the palette and the pins, no two series left to the
\* palette share a slot, a resolved spec resolves to itself but for the ticks and the
\* fractions of a millisecond, and one that was resolved twice to itself altogether.
THEOREM ResolvedSpecsAreStable == Spec => []ResolvedIsStable
  <1>1. Inv => ResolvedIsStable
    BY InvIsStable
  <1>2. QED
    BY <1>1, InvIs, PTL
=============================================================================
