--------------------------- MODULE VotingInvariant ---------------------------
(***************************************************************************)
(* The inductive invariant behind the safety properties of VotingContract. *)
(* It says of every transaction in flight how its writes follow from what  *)
(* it read; with ReadsAreCurrent this becomes a statement about the world  *)
(* state at the moment the transaction commits.                            *)
(***************************************************************************)
EXTENDS VotingContract

ElectionProposal(tx, e) ==
    /\ ElectionKey(e) \in DOMAIN tx.reads
    /\ DOMAIN tx.writes = {ElectionKey(e)}
    /\ LET old == tx.reads[ElectionKey(e)]
           new == tx.writes[ElectionKey(e)]
       IN  old # Nil => new.candidates = old.candidates /\ new.eligible = old.eligible
    /\ tx.result = Nil

TallyProposal(tx, e) ==
    LET election == tx.reads[ElectionKey(e)]
    IN  /\ DOMAIN tx.reads = {ElectionKey(e)} \cup VoteKeys
        /\ election # Nil
        /\ AllVotesOnBallot(tx.reads, e)
        /\ DOMAIN tx.writes \subseteq {TallyKey(e), FinalTallyKey(e)}
        /\ tx.result # Nil
        /\ tx.result.election = e
        /\ tx.result.tallies = CountVotes(tx.reads, e)
        /\ FinalTallyKey(e) \in DOMAIN tx.writes => tx.writes[FinalTallyKey(e)] = tx.result

UserProposal(tx, u) ==
    /\ UserKey(u) \in DOMAIN tx.reads
    /\ UserKey(u) \in DOMAIN tx.writes
    /\ DOMAIN tx.writes \subseteq {UserKey(u), RevocationKey(u)}
    /\ LET old == tx.reads[UserKey(u)]
           new == tx.writes[UserKey(u)]
       IN  /\ IF old = Nil THEN new.voted = {}
              ELSE /\ new.voted = old.voted
                   /\ new.role = old.role
                   /\ new.governorate = old.governorate
           /\ new.status = "suspended" => RevocationKey(u) \in DOMAIN tx.writes
    /\ tx.result = Nil

VoteProposal(tx, u, v, e, c) ==
    LET election == tx.reads[ElectionKey(e)]
        user     == tx.reads[UserKey(u)]
    IN  /\ DOMAIN tx.reads = {ElectionKey(e), UserKey(u)}
        /\ CanVote(election, user, e, c)
        /\ DOMAIN tx.writes = {VoteKey(v), UserKey(u)}
        /\ tx.writes[VoteKey(v)] = [voter |-> u, election |-> e, candidate |-> c]
        /\ tx.writes[UserKey(u)] = [user EXCEPT !.voted = @ \cup {e}]
        /\ tx.result = Nil

Proposal(tx) ==
    \/ \E e \in Elections : ElectionProposal(tx, e) \/ TallyProposal(tx, e)
    \/ \E u \in Users :
        \/ UserProposal(tx, u)
        \/ \E v \in VoteIds, e \in Elections, c \in Candidates : VoteProposal(tx, u, v, e, c)

\* Every transaction in flight was proposed by one of the functions.
AllAreProposals == \A t \in Txs : Pending(t) => Proposal(inflight[t])

\* A vote in flight has an id of its own.
VoteIdsAreFresh ==
    \A t \in Txs, v \in VoteIds :
        Pending(t) /\ VoteKey(v) \in DOMAIN inflight[t].writes =>
            /\ ~Cast(v)
            /\ \A s \in Txs \ {t} :
                  Pending(s) => VoteKey(v) \notin DOMAIN inflight[s].writes

\* No value cannot be taken for a transaction.
NilIsNoTransaction == DOMAIN Nil # {"reads", "writes", "event", "result", "stale"}

IInv ==
    /\ TypeOK
    /\ ReadsAreCurrent
    /\ AllAreProposals
    /\ VoteIdsAreFresh
    /\ VotedMarksMatchVotes
    /\ OneVotePerElection
=============================================================================
