--------------------------- MODULE MCHTTPObserver ---------------------------
EXTENDS HTTPObserver, TLC
CONSTANTS q1, q2, s1, s2
MCUrls ==
    { [user |-> "password", path |-> "token", parses |-> TRUE,
       query |-> [n \in {"PASSWORD", "access_token", "lat"} |-> <<"secret", n>>]],
      [user |-> "password", path |-> "token", parses |-> FALSE,
       query |-> [n \in {"Access_Token"} |-> <<"secret">>]] }
\* The middlewares do not read the registration: requests are followed after a
\* successful one only.
OneOutcome == registerErr # "nil" => \A q \in Requests : pc[q] = "arrives"
Symmetry == Permutations(Requests) \cup Permutations(Starters)
=============================================================================
