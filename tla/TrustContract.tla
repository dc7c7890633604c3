--------------------------- MODULE TrustContract ---------------------------
(***************************************************************************)
(* The claims package as pure functions: the trust headers, the            *)
(* environment variables that switch enforcement, and what the two gin     *)
(* middlewares decide about a request.                                     *)
(*                                                                         *)
(* Header "User" stands for User-Email, -Sub, -Tier and -Roles, which are  *)
(* always handled alike, and "Orgs" for User-Orgs and -Teams.              *)
(***************************************************************************)
EXTENDS Naturals, Sequences, FiniteSetsExt

Headers == {"User", "Orgs", "Version", "Admin"}

\* The header map of a request: an absent header reads as the empty string.
Absent == ""
NoHeaders == [h \in Headers |-> Absent]

AllTrustHeaders == {"User", "Orgs", "Version", "Admin"}

\* Mutant: the admin header is replayed between backends.
PropagatedWithAdmin == {"User", "Version", "Admin"}

PropagatedTrustHeaders == {"User", "Version"}

AdminHeaderValue == "1"
CurrentIdentityVersion == "1"

EnvTrustHeaders == "ATMOSOAR_TRUST_GATEWAY_HEADERS"
EnvInsecureAdmin == "ATMOSOAR_INSECURE_ADMIN"
legacyTrustEnvVars ==
    <<"MMA_TRUST_GATEWAY_HEADERS", "RADAR_TRUST_GATEWAY_HEADERS",
      "OBSERVATIONS_TRUST_GATEWAY_HEADERS", "OBSERVATION_TRUST_GATEWAY_HEADERS",
      "METAR_TRUST_GATEWAY_HEADERS", "ELEVATION_TRUST_GATEWAY_HEADERS">>

\* env is the environment: the variables that are set, lower-cased.
IsSet(env, v) == v \in DOMAIN env

\* The variable that decides: the canonical one, else the first legacy one set.
TrustEnabled(env) ==
    LET legacy == {i \in DOMAIN legacyTrustEnvVars : IsSet(env, legacyTrustEnvVars[i])}
    IN  IF IsSet(env, EnvTrustHeaders) THEN env[EnvTrustHeaders] # "false"
        ELSE IF legacy # {} THEN env[legacyTrustEnvVars[Min(legacy)]] # "false"
        ELSE TRUE

insecureAdminEnabled(env) ==
    IsSet(env, EnvInsecureAdmin) /\ env[EnvInsecureAdmin] = "true"

\* The snapshot FromHeader attaches to the request context, headers or not.
captureTrustHeaders(hdr) ==
    [h \in Headers |-> IF h \in PropagatedTrustHeaders THEN hdr[h] ELSE Absent]

\* Mutant: a missing identity version is let through.
FromHeaderStatusLax(env, hdr) ==
    IF TrustEnabled(env) /\ hdr["Version"] \notin {Absent, CurrentIdentityVersion}
      THEN 500 ELSE 0

\* The status FromHeader aborts with, 0 to go on.
FromHeaderStatus(env, hdr) ==
    IF ~TrustEnabled(env) THEN 0
    ELSE IF hdr["Version"] = Absent THEN 401
    ELSE IF hdr["Version"] # CurrentIdentityVersion THEN 500
    ELSE 0

\* The status RequireAdmin aborts with, 0 to go on.
RequireAdminStatus(env, hdr) ==
    IF ~TrustEnabled(env) /\ insecureAdminEnabled(env) THEN 0
    ELSE IF hdr["Admin"] = AdminHeaderValue THEN 0 ELSE 403

\* The identity FromHeader stores on the gin context: none while trust is off.
ClaimsOf(env, hdr) == IF TrustEnabled(env) THEN hdr["User"] ELSE "nil"
=============================================================================
