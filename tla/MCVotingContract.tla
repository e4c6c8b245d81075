-------------------------- MODULE MCVotingContract --------------------------
(***************************************************************************)
(* Model checking of VotingContract.  The calls are those of the module    *)
(* with fewer arguments: each run leaves out what its properties do not    *)
(* depend on.                                                              *)
(***************************************************************************)
EXTENDS VotingInvariant, TLC

Symmetry == Permutations(Txs) \cup Permutations(VoteIds) \cup Permutations(Users)
              \cup Permutations(Elections)
              \cup Permutations(Candidates) \cup Permutations(Governorates)

Network == \E t \in Txs : Commit(t) \/ Discard(t)

\* Voters and officials against each other: registration, suspension and votes
\* while elections open and close.  The elections have been created before.  The two roles
\* that may suspend users are treated alike by the contract: one of them stands for both.
VotingCalls(t) ==
    \/ \E e \in Elections, status \in {"live", "ended"} : UpdateElectionStatus(t, e, status)
    \/ \E u \in Users :
        \/ \E g \in Governorates, role \in {"voter", "auditor"} : RegisterUser(t, u, g, role)
        \/ \E caller \in Users, status \in UserStatuses :
              UpdateUserStatus(t, caller, u, status)
        \/ \E v \in VoteIds, e \in Elections, c \in Candidates : CastVote(t, u, v, e, c)

VotingInit ==
    /\ worldState = [k \in Keys |->
          IF k \in {ElectionKey(e) : e \in Elections}
          THEN [candidates |-> Candidates, eligible |-> Governorates, status |-> "scheduled"]
          ELSE Nil]
    /\ inflight = [t \in Txs |-> Nil]

VotingSpec == VotingInit /\ [][Network \/ \E t \in Txs : VotingCalls(t)]_ledgerVars
=============================================================================
