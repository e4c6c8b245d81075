------------------------------- MODULE Services -------------------------------
(***************************************************************************)
(* The services of one server process that keep their state in its memory: *)
(* remote signing, the secrets, feedback and analytics.  They share no     *)
(* state, but they stop together (server.ts).                              *)
(***************************************************************************)
EXTENDS RemoteSigning, Secrets, InsightInvariant

servicesVars == <<signingVars, secretVars, insightVars>>

ServicesInit == SigningInit /\ SecretsInit /\ InsightInit

ServerRestart == SigningRestart /\ SecretsRestart /\ InsightRestart

ServicesNext ==
    \/ SigningService /\ UNCHANGED <<secretVars, insightVars>>
    \/ SecretsService /\ UNCHANGED <<signingVars, insightVars>>
    \/ InsightService /\ UNCHANGED <<signingVars, secretVars>>
    \/ ServerRestart

ServicesSpec == ServicesInit /\ [][ServicesNext]_servicesVars /\ SigningFairness
-----------------------------------------------------------------------------
(* Properties *)

\* The inductive invariants of the three services, which hold together: a stop of the
\* server ends the calls of all of them and keeps what MongoDB holds.
ServicesIInv == SigningInv /\ SecretsInv /\ InsightIInv
=============================================================================
