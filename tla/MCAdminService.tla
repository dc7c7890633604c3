--------------------------- MODULE MCAdminService ---------------------------
EXTENDS AdminService, TLC
CONSTANTS cache, pool, beta, c1, c2
\* The gateway enforces trust: nothing is set in the environment.
MCEnv == [v \in {} |-> ""]
\* Every key takes "true" only, so that "false" is an invalid config value and a
\* valid flag value.
MCDecode == [p \in Keys \X Raws |-> IF p[2] = "true" THEN "on" ELSE Invalid]
MCDefault == [k \in Keys |-> "off"]
MCFlagDefault == [f \in Known |-> FALSE]
\* The service is deployed with empty tables.
MCInit == Init /\ rows = newOverlay /\ flagRows = [f \in FlagNames |-> NoRow]
MCSpec == MCInit /\ [][Next]_vars
\* A refused request changes nothing: one at a time is enough, beside a write that is
\* not over, and while no late statement is under way; and of those that the middlewares
\* refuse, which look at nothing but the headers, one of each method.
ForAdmins == {h \in HeaderMaps : MiddlewareAnswer([NoRequest EXCEPT !.hdr = h]) = NoAnswer}
Accepted ==
    [method : {"putConfig"}, name : {cache}, body : {"true"}, hdr : ForAdmins]
      \cup [method : {"deleteConfig"}, name : {cache}, body : {"absent"}, hdr : ForAdmins]
      \cup [method : {"toggleFlag"}, name : {cache}, body : Bools, hdr : ForAdmins]
Sampled(r) == r.hdr \in ForAdmins \/ (r.name = cache /\ r.body \in {"absent", "true"})
OneRefusal ==
    \A c \in Clients : stage[c] = "idle" \/ req[c] \in Accepted
        \/ /\ late = {} /\ Sampled(req[c])
           /\ \A d \in Clients \ {c} : stage[d] = "publish"
ClientSymmetry == Permutations(Clients)
=============================================================================
