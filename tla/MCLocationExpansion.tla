------------------------ MODULE MCLocationExpansion ------------------------
EXTENDS LocationExpansion
\* Half kilometres: below one ring, on and around the cap, far beyond it.
MCRadii == {-1, 0, 1, 5, 6, 7, 12, 100, 399, 400, 401, 80000}
MCSegmentCounts == {0, 1, 2, 3, 1000, 1999, 2000, 2001, 5000}
\* 1/20 degrees: below one row, the caps and the globe.
MCSpans == {-20, 0, 1, 9, 21, 57, 200, 1000, 3600, 7200}
MCDensities == {-1, 0, 1, 3, 10, 99, 100, 101}
MCVertexCounts == {0, 1, 3, 59, 60, 61, 119, 120, 121, 4999, 5000, 5001}
MCInsideCounts == {1, 59, 60, 61, 3840}
\* Floats of 10 bits; the globe reaches one degree from its centre.
MCQuanta == {2^k : k \in 0..17}
Tenth(k) == Fl(k * Grains, 10)
\* The floats beside x.
Beside(x) == {Fl(x, 1)} \cup {y \in {Fl(x - 20, 1), Fl(x + 20, 1)} : y # x}
\* Where floats lie four degrees apart, and one; such edges are built by hand.
FarAxes ==
    {<<2^24, 2^24 + 2^15>>, <<2^24 + 2^15, 2^24>>, <<-(2^24), -(2^24) - 2^15>>,
     <<2^22, 2^22 + 2^14>>}
MCLonAxes ==
    {<<Tenth(k), Tenth(m)>> : k \in -10..10, m \in -10..10}
      \cup {<<Tenth(k), y>> : k \in {-10, -3, 0, 7},
                              y \in UNION {Beside(Tenth(m)) : m \in 8..10}}
      \cup {<<Grains, Fl(Grains + Tenth(j), 1)>> : j \in {1, 3}}
      \cup FarAxes
MCLatAxes ==
    {<<0, 0>>, <<0, 1>>, <<-Grains, Grains>>, <<Tenth(9), Tenth(7)>>,
     <<Tenth(-3), Tenth(-1)>>, <<Tenth(1), Tenth(6)>>} \cup FarAxes
\* On the globe; with too many candidates; with an area that overflows.
MCOutlines ==
    {[lat |-> 0, lon |-> 0, spacing |-> 0], [lat |-> 0, lon |-> 800, spacing |-> 0],
     [lat |-> 2 * Grains, lon |-> Grains, spacing |-> 60],
     [lat |-> 8 * Grains, lon |-> 8 * Grains, spacing |-> 1000],
     [lat |-> 16 * Grains, lon |-> 16 * Grains, spacing |-> 0],
     [lat |-> 16 * Grains, lon |-> 16 * Grains, spacing |-> NaN],
     [lat |-> 8 * Grains, lon |-> 8 * Grains, spacing |-> Inf]}
=============================================================================
