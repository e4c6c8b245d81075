------------------------------ MODULE MCServices ------------------------------
(***************************************************************************)
(* Model checking of Services.  What one service does is the same whatever *)
(* the others do, so a behaviour moves one of them, chosen at the start,   *)
(* and leaves the others as they are.                                      *)
(***************************************************************************)
EXTENDS Services, TLC

CONSTANTS
    w1, w2,         \* the voters
    OverlapBound    \* calls on feedback and analytics at once

Electorate == (w1 :> [age |-> 17, place |-> "g1", choice |-> "c1"])
                @@ (w2 :> [age |-> 25, place |-> "g2", choice |-> "c2"])

VARIABLE part       \* the service whose behaviour this is

partVars == <<signingVars, secretVars, insightVars, part>>

PartInit == ServicesInit /\ part \in {"signing", "secrets", "insight"}

\* The calls on feedback and analytics that are under way at once.
Overlap ==
    Cardinality({f \in Feedbacks : feedbacks'[f] # Absent})
      + Cardinality({r \in Readings : readings'[r] # Absent}) <= OverlapBound

PartNext ==
    /\ \/ part = "signing" /\ SigningService /\ UNCHANGED <<secretVars, insightVars>>
       \/ part = "secrets" /\ SecretsService /\ UNCHANGED <<signingVars, insightVars>>
       \/ /\ part = "insight" /\ InsightService /\ Overlap
          /\ UNCHANGED <<signingVars, secretVars>>
       \/ ServerRestart
    /\ UNCHANGED part

PartSpec == PartInit /\ [][PartNext]_partVars /\ SigningFairness
=============================================================================
