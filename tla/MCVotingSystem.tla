-------------------------- MODULE MCVotingSystem --------------------------
(***************************************************************************)
(* Model checking of VotingSystem, from a state in which every user is     *)
(* registered as an active voter, every election is live, and the          *)
(* listener is connected.                                                  *)
(***************************************************************************)
EXTENDS Recounts, TLC

Symmetry == Permutations(Txs) \cup Permutations(VoteIds) \cup Permutations(Users)
              \cup Permutations(Candidates) \cup Permutations(Ticks)
              \cup Permutations(Requests) \cup Permutations(Auditors)

Prepared(k) ==
    IF k \in {ElectionKey(e) : e \in Elections}
    THEN [candidates |-> Candidates, eligible |-> Governorates, status |-> "live"]
    ELSE IF k \in {UserKey(u) : u \in Users}
         THEN NewUser(CHOOSE g \in Governorates : TRUE, "voter")
         ELSE Nil

PreparedInit ==
    /\ worldState = [k \in Keys |-> Prepared(k)]
    /\ inflight = [t \in Txs |-> Nil]
    /\ started = Elections
    /\ over = {}
    /\ ticks = [p \in Ticks |-> Nil]
    /\ requests = [r \in Requests |-> Nil]
    /\ tallyDocs = [e \in Elections |-> Nil]
    /\ connected = TRUE
    /\ stream = <<>>
    /\ handler = Nil
    /\ voteDocs = [v \in VoteIds |-> Nil]
    /\ audits = {}
    /\ faulty = FALSE
    /\ recounts = [a \in Auditors |-> Nil]

\* Of the requests of clients, votes remain.
VoterCall(t) ==
    /\ \E u \in Users, v \in VoteIds, e \in Elections, c \in Candidates :
          CastVote(t, u, v, e, c)
    /\ UNCHANGED <<started, over, ticks, requests, tallyDocs>>

\* Of the recounts, those of live elections with which nothing has failed: nothing is said
\* of the others, and the transaction of a request that ends is as good as that of one
\* that goes on.
RecountMatters(a) ==
    recounts[a] # Nil => ~faulty /\ StatusOf(recounts[a].election) = "live"

LiveRecount == \E a \in Auditors, t \in Txs, e \in Elections : AskRecount(a, t, e)

Other ==
    /\ \/ Server
       \/ \E t \in Txs : VoterCall(t)
       \/ \E e \in Elections : TimePasses(e)
    /\ UNCHANGED <<listenerVars, faulty, recounts>>

PreparedNext ==
    /\ Other \/ LiveRecount \/ RecountStep
    /\ \A a \in Auditors : RecountMatters(a)'

PreparedSpec == PreparedInit /\ [][PreparedNext]_recountVars
=============================================================================
