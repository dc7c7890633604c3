------------------------- MODULE MCLocationRegistry -------------------------
EXTENDS LocationRegistry, TLC
CONSTANTS p1, s1, s2, atlas, A
\* Two countries lack an official code, one of them for good; one name has a space,
\* one has aliases, and one outline cannot be parsed.
MCFeatures ==
    [pr \in Providers |->
       << Feature("france", "france", "-99", "fr", "-99", "fra", "MultiPolygon"),
          Feature("n. cyprus", "n.cyprus", "-99", "-99", "", "", "Polygon"),
          Feature("czechia", "czechia", "cz", "cz", "cze", "cze", "Polygon"),
          Feature("united kingdom", "unitedkingdom", "gb", "gb", "gbr", "gbr", "Polygon"),
          Feature("kosovo", "kosovo", "-99", "xk", "", "xkx", "Point") >>]
=============================================================================
