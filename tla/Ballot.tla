------------------------------- MODULE Ballot -------------------------------
(***************************************************************************)
(* What the voting chaincode promises, with no keys, transactions or       *)
(* conflicts: every user has at most one choice per election, made in one  *)
(* step while the election is open and the user is an elector, and never   *)
(* changed; a declared result counts the users behind every candidate.     *)
(***************************************************************************)
EXTENDS FiniteSets

CONSTANTS Users, Elections, Candidates, None

VARIABLES
    ballot,         \* the choice of every user in every election
    open,           \* the elections that take votes
    electors,       \* the users who may vote
    declared        \* the last declared result of every election

vars == <<ballot, open, electors, declared>>

Supporters(e, c) == {u \in Users : ballot[u][e] = c}

Init ==
    /\ ballot = [u \in Users |-> [e \in Elections |-> None]]
    /\ open = {}
    /\ electors = {}
    /\ declared = [e \in Elections |-> None]

\* The user chooses, once and for good.
Choose(u, e, c) ==
    /\ e \in open
    /\ u \in electors
    /\ ballot[u][e] = None
    /\ ballot' = [ballot EXCEPT ![u][e] = c]
    /\ UNCHANGED <<open, electors, declared>>

\* Voting opens or closes; nothing but the election concerned changes.
Open(e)  == open' = open \cup {e} /\ UNCHANGED <<ballot, electors, declared>>
Close(e) == open' = open \ {e} /\ UNCHANGED <<ballot, electors, declared>>

\* A user is admitted or barred.  What they chose before stays.
Admit(u) == electors' = electors \cup {u} /\ UNCHANGED <<ballot, open, declared>>
Bar(u)   == electors' = electors \ {u} /\ UNCHANGED <<ballot, open, declared>>

\* A result names the candidates who stood, everyone who got a vote among them.
Declare(e, standing) ==
    /\ \A c \in Candidates \ standing : Supporters(e, c) = {}
    /\ declared' = [declared EXCEPT
                       ![e] = [c \in standing |-> Cardinality(Supporters(e, c))]]
    /\ UNCHANGED <<ballot, open, electors>>

Next ==
    \/ \E e \in Elections :
        \/ \E u \in Users, c \in Candidates : Choose(u, e, c)
        \/ Open(e)
        \/ Close(e)
        \/ \E standing \in SUBSET Candidates : Declare(e, standing)
    \/ \E u \in Users : Admit(u) \/ Bar(u)

Spec == Init /\ [][Next]_vars
=============================================================================
