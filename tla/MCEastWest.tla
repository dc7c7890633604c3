----------------------------- MODULE MCEastWest -----------------------------
(***************************************************************************)
(* Environments: production (nothing set), a canonical value that a legacy *)
(* one contradicts, a leftover legacy switch, and local development.       *)
(***************************************************************************)
EXTENDS EastWest, TLC

CONSTANTS q1, A, B

MCEnvironments ==
    { [v \in {} |-> ""],
      EnvTrustHeaders :> "true" @@ legacyTrustEnvVars[1] :> "false",
      legacyTrustEnvVars[2] :> "false" @@ legacyTrustEnvVars[3] :> "true",
      EnvTrustHeaders :> "false" @@ EnvInsecureAdmin :> "true",
      EnvInsecureAdmin :> "true" }
=============================================================================
