-------------------------- MODULE MCTimeExpansion --------------------------
EXTENDS TimeExpansion
MCStarts == {0, 1, 7, 31}
MCEnds == 0..140
\* Around every boundary: 0, 1, the cap on the resolution, the largest duration,
\* and the products that wrap to a negative and to a small positive duration.
MCNumbers == {-1, 0, 1, 2, 3, 4, 10, 11, 21, 22}
MCIsoSteps == [D : {0, 1}, H : {0, 1, 9}, S : {0, 1, 5}]
MCShortcuts ==
    [type : {"now", "offset", "fixed", "range_offset", "unknown"},
     hours : {Nil, -1, 0, 1, 3, 10, 21}, value : {Nil, 31}, lower : BOOLEAN]
=============================================================================
