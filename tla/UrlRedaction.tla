---------------------------- MODULE UrlRedaction ----------------------------
(***************************************************************************)
(* RedactURLWithPath: what of a request's URL reaches the span.  A URL is   *)
(* its userinfo, its path (with a credential as a segment or without) and   *)
(* its query, a function from parameter names to their values; parses tells *)
(* whether url.ParseQuery accepts the raw query.                            *)
(***************************************************************************)
EXTENDS Sequences

\* Some of the table, and names that a request may spell differently.
sensitiveQueryParams == {"access_token", "password", "passkey"}
ParamNames == {"access_token", "Access_Token", "PASSWORD", "lat"}
ToLower(name) ==
    CASE name = "PASSWORD" -> "password" [] name = "Access_Token" -> "access_token"
      [] OTHER -> name

redactedValue == "REDACTED"
NoPart == ""
NoQuery == [n \in {} |-> <<>>]
NoUrl == [user |-> NoPart, path |-> NoPart, query |-> NoQuery, parses |-> TRUE]
IsURL(u) ==
    /\ DOMAIN u = {"user", "path", "query", "parses"}
    /\ u.parses \in BOOLEAN
    /\ DOMAIN u.query \subseteq ParamNames

\* The redactor a service installs masks the credential in its path.
PathRedactor(path) == IF path = "token" THEN redactedValue ELSE path

\* Mutant: the names are looked up as they are spelled.
RedactedQueryCased(query) ==
    [n \in DOMAIN query |->
        IF n \in sensitiveQueryParams THEN <<redactedValue>> ELSE query[n]]

\* values.Set: one value for all the values of a sensitive parameter.
RedactedQuery(query) ==
    [n \in DOMAIN query |->
        IF ToLower(n) \in sensitiveQueryParams THEN <<redactedValue>> ELSE query[n]]

\* A query that does not parse is dropped with everything but the path.
RedactURLWithPath(u, redact) ==
    LET path == IF redact THEN PathRedactor(u.path) ELSE u.path IN
    IF u.parses
      THEN [u EXCEPT !.path = path,
                     !.user = IF @ = "password" THEN redactedValue ELSE @,
                     !.query = RedactedQuery(@)]
      ELSE [NoUrl EXCEPT !.path = path]
=============================================================================
