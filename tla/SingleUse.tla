------------------------------ MODULE SingleUse ------------------------------
(***************************************************************************)
(* What challenges and verification secrets promise: a secret that was     *)
(* issued is accepted at most once, and not any more once it has lapsed or *)
(* a newer one was issued to the same owner.                               *)
(***************************************************************************)
EXTENDS Naturals

CONSTANTS Owners, Secrets, None

VARIABLES
    valid,      \* the secret of an owner that would be accepted, if any
    issued,     \* the secrets issued so far
    accepted    \* how often each secret was accepted

singleVars == <<valid, issued, accepted>>

Issue(o, s) ==
    /\ s \notin issued
    /\ issued' = issued \cup {s}
    /\ valid' = [valid EXCEPT ![o] = s]
    /\ UNCHANGED accepted

Accept(o, s) ==
    /\ valid[o] = s
    /\ valid' = [valid EXCEPT ![o] = None]
    /\ accepted' = [accepted EXCEPT ![s] = @ + 1]
    /\ UNCHANGED issued

\* Secrets expire, and are all forgotten when the process stops.
Lapse ==
    /\ \E O \in SUBSET Owners : valid' = [o \in Owners |-> IF o \in O THEN None ELSE valid[o]]
    /\ UNCHANGED <<issued, accepted>>

Init ==
    /\ valid = [o \in Owners |-> None]
    /\ issued = {}
    /\ accepted = [s \in Secrets |-> 0]

Next ==
    \/ \E o \in Owners, s \in Secrets : Issue(o, s) \/ Accept(o, s)
    \/ Lapse

Spec == Init /\ [][Next]_singleVars
=============================================================================
