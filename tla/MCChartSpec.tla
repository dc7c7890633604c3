---------------------------- MODULE MCChartSpec ----------------------------
EXTENDS ChartSpec
MCTexts ==
    {"", "line", "step", "band", "bar", "C", "hPa", "m/s", "mm", "km", "none", "good", "warning",
     "serious", "critical", "temp", "temperature_2m", "mslp", " Rain", "drain", "precipitation",
     "visibility", "gust", "wind_speed", "wind_direction"}
MCDecades == {10^k : k \in 0..6}
Base == 700 * 1440
AtMinute(m) == Minute * (Base + m)
Plain(m, v) == [t |-> AtMinute(m), v |-> v, lo |-> Nil, hi |-> Nil, dir |-> Nil]
Later(pt) == [pt EXCEPT !.t = @ + 1]
Spread(m, v, lo, hi) == [Plain(m, v) EXCEPT !.lo = lo, !.hi = hi]
Wind(m, v, dir) == [Plain(m, v) EXCEPT !.dir = dir]
Of(param, unit, pin, mark, points) ==
    [named |-> TRUE, param |-> param, unit |-> unit, slot |-> pin, mark |-> mark, points |-> points]
\* Wide and misaligned values, gaps in every place, a flat and an empty series,
\* bands, bars above and below zero, unsorted, undated and nameless samples, names in three
\* spellings, slots on, off and outside the palette, and winds on every edge.
MCSeriesChoices ==
    { Of("temp", "", 0, "", <<Plain(90, 100), Later(Plain(2970, 3600))>>),
      Of("temperature_2m", "", 0, "step",
         <<Plain(0, Nil), Plain(60, -700), Plain(120, Nil), Plain(180, Nil), Plain(240, 1700),
           Plain(300, 900), Plain(9000, 0)>>),
      Of("temperature_2m", "", 1, "", <<Plain(61, 500)>>),
      Of("mslp", "", 2, "line", <<>>),
      Of("temperature_2m", "", 3, "line", <<Plain(0, 0), Later(Plain(0, 0))>>),
      Of(" Rain", "", 0, "", <<Plain(7, 300), Plain(19, 5900), Plain(50000, Nil)>>),
      Of("drain", "mm", 0, "bar", <<Plain(7, -300), Plain(19, 0)>>),
      Of("precipitation", "", 0, "", <<Plain(60, -100), Plain(30, 100)>>),
      Of("visibility", "", 0, "line", <<Later(Plain(0, 1200)), Plain(60, 700), Plain(120, 300)>>),
      Of("gust", "C", 0, "band", <<Spread(1440, 0, -12300, 400), Spread(1500, Nil, Nil, 0),
                                   Spread(1560, 100, 0, 400)>>),
      Of("gust", "C", 0, "band", <<Spread(1440, Nil, 100, 0)>>),
      Of("temp", "", 0, "", <<[Plain(0, 0) EXCEPT !.t = 0]>>),
      Of("temp", "", 0, "", <<Plain(0, NotFinite)>>),
      [Of("temp", "", 0, "", <<Plain(0, 0)>>) EXCEPT !.named = FALSE],
      Of("wind_speed", "", 0, "", <<Wind(0, 30, 90), Wind(10, 200, 45), Wind(20, 400, 349),
                                    Wind(30, 2500, 405), Wind(40, 450, -10), Wind(50, 1500, 315),
                                    Wind(60, 399, 0), Wind(70, Nil, 10), Wind(80, 100, Nil)>>) }
Pins(min, max) == [BarePanel EXCEPT !.min = min, !.max = max]
MCPanelChoices ==
    { BarePanel, Pins(0, Nil), Pins(Nil, 2000), Pins(1000, 1000),
      [BarePanel EXCEPT !.show = TRUE], [Pins(-500, 4000) EXCEPT !.show = TRUE],
      [BarePanel EXCEPT !.zero = TRUE, !.bands = <<Band(0, Nil, "serious", TRUE)>>],
      [BarePanel EXCEPT !.bands = <<Band(0, Nil, "serious", FALSE)>>] }
MCRoseChoices ==
    { NoOptions,
      [sectors |-> 4, bands |-> <<200, 400>>, calmBelow |-> 200],
      [sectors |-> 8, bands |-> <<400>>, calmBelow |-> -100],
      [sectors |-> 7, bands |-> <<>>, calmBelow |-> 0],
      [sectors |-> 4, bands |-> <<400, 400>>, calmBelow |-> 0] }
\* Open and empty axes, one with a fraction of a millisecond, one within a minute, one of many years.
MCXPins == { <<Nil, Nil>>, <<AtMinute(100) + 1, Nil>>, <<Nil, AtMinute(30)>>,
             <<AtMinute(-61), AtMinute(20000)>>, <<AtMinute(7) + 2, AtMinute(8) - 2>>,
             <<AtMinute(0), AtMinute(3000000)>> }
SampleRow(t, values) == [t |-> t, values |-> values]
Both(v, d) == [n \in {"wind_speed", "wind_direction"} |-> IF n = "wind_speed" THEN v ELSE d]
Speed(v) == [n \in {"wind_speed"} |-> v]
MCRows ==
    { <<SampleRow(AtMinute(60), Both(800, 350)), SampleRow(AtMinute(0), Both(Nil, 10)), SampleRow(AtMinute(60), Speed(1200)),
        SampleRow(AtMinute(30) + 1, Both(2200, 5))>>,
      <<SampleRow(AtMinute(60), Speed(1000)), SampleRow(AtMinute(15), Speed(Nil))>>,
      <<SampleRow(AtMinute(60), Speed(1000)), SampleRow(0, Both(100, 10))>>,
      <<SampleRow(AtMinute(60), Both(1000, 90)), SampleRow(AtMinute(30), Both(100, NotFinite))>> }
MCParams == { <<>>, <<"">>, <<"wind_speed">>, <<"wind_speed", "wind_direction">>,
              <<"wind_speed", "temp", "mslp">> }
MCSamples == {[rows |-> rs, params |-> ps] : rs \in MCRows, ps \in MCParams}
\* What varies together: one panel's settings, or the time axis; a series too many
\* is one of those before it.
VariedOnce ==
    LET plain == \A i \in DOMAIN panels :
            Panel(<<>>, BarePanel) = [panels[i] EXCEPT !.series = <<>>] IN
    /\ prior = <<>> /\ xpins # <<Nil, Nil>> => plain
    /\ prior = <<>> /\ Len(panels) = 2 =>
         Panel(<<>>, BarePanel) = [panels[2] EXCEPT !.series = <<>>]
    /\ Total > maxSeries /\ rows = NoRows =>
         LET all == FlattenSeq([i \in DOMAIN panels |-> panels[i].series])
         IN  Last(all) = Head(all)
MCSteps ==
    LET minutes == <<1, 5, 15, 30, 60, 180, 360, 720, 1440, 2880, 10080, 20160, 43200>>
    IN  [n \in DOMAIN minutes |-> Minute * minutes[n]]
MCNow == {AtMinute(7) + 1, AtMinute(30)}
=============================================================================
