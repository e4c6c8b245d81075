------------------------------- MODULE Answers -------------------------------
(***************************************************************************)
(* What the server answers from the documents of VotingSystem to voters    *)
(* and auditors (vote.controller.ts, election.controller.ts,               *)
(* audits.controller.ts).  These requests read and change nothing: each is *)
(* an operator on the state.                                               *)
(***************************************************************************)
EXTENDS VotingSystem, Functions

NotFound  == [status |-> "not found"]
Forbidden == [status |-> "forbidden"]
Failed    == [status |-> "failed"]

\* getElection and getAllElections: the elections of the ledger, with the filters of
\* the query.
GetElection(e) == worldState[ElectionKey(e)]

GetAllElections(statuses, governorates) ==
    {e \in Elections :
        /\ GetElection(e) # Nil
        /\ GetElection(e).status \in statuses
        /\ \A g \in governorates : g \in GetElection(e).eligible}

\* getVoteTally: the counts of the document, for the candidates of the ballot.
GetVoteTally(e) ==
    IF tallyDocs[e] = Nil THEN NotFound
    ELSE IF GetElection(e) = Nil \/ ~(GetElection(e).candidates \subseteq DOMAIN tallyDocs[e])
         THEN Failed
         ELSE [status |-> "ok",
               counts |-> [c \in GetElection(e).candidates |-> tallyDocs[e][c]]]

-----------------------------------------------------------------------------
(* Votes and receipts: a receipt is known by the id of its vote *)

GetUserVotes(u) == {v \in VoteIds : voteDocs[v] # Nil /\ voteDocs[v].voter = u}

\* What a voter may not ask about others, officials may.
CheckUserVotedInElection(asker, role, u, e) ==
    IF asker # u /\ role \notin {"election_commission", "auditor"}
    THEN Forbidden
    ELSE LET found == {v \in GetUserVotes(u) : voteDocs[v].election = e}
         IN  [status |-> "ok", hasVoted |-> found # {}, receipts |-> found]

\* The name of the candidate is looked up on the ledger.
NameOf(e, c) ==
    IF GetElection(e) # Nil /\ c \in GetElection(e).candidates THEN c ELSE "Unknown"

VerifyVote(v) ==
    IF voteDocs[v] = Nil THEN NotFound
    ELSE [status |-> "ok", receipt |-> v, election |-> voteDocs[v].election]

GetVoteDetailsByReceipt(asker, v) ==
    IF voteDocs[v] = Nil THEN NotFound
    ELSE IF voteDocs[v].voter # asker THEN Forbidden
    ELSE LET vote == voteDocs[v]
         IN  [status |-> "ok", receipt |-> v, election |-> vote.election,
              candidate |-> vote.candidate,
              candidateName |-> NameOf(vote.election, vote.candidate)]

-----------------------------------------------------------------------------
(* Audits *)

\* The details an audit document has of its event.  What is undefined in the payload
\* is left out: the contract sends userId, the handler reads user_id.
Details(event) ==
    CASE event.name = "vote_cast" ->
            [voter_id |-> event.vote.voter, election_id |-> event.vote.election,
             candidate_id |-> event.vote.candidate, vote_id |-> event.id]
      [] event.name = "election_created" -> [election_id |-> event.election]
      [] event.name = "election_status_changed" ->
            [election_id |-> event.election, new_status |-> event.to]
      [] event.name = "tally_computed" -> [election_id |-> event.election]
      [] event.name = "user_registered" -> [user_id |-> event.user]
      [] event.name = "user_status_updated" -> [status |-> event.status]

\* A filter on a field finds the documents that have the field with that value.
AuditsWith(field, value) ==
    {event \in audits : field \in DOMAIN Details(event) /\ Details(event)[field] = value}

\* getChaincodeEvents, without the limits on dates and length; no election in the query
\* means all events.
GetChaincodeEvents(names, elections) ==
    {event \in audits :
        /\ event.name \in names
        /\ elections = {} \/ \E e \in elections : event \in AuditsWith("election_id", e)}

\* Mutant: the audited votes are listed, too.
AllActivity(u) ==
    [votes  |-> GetUserVotes(u),
     events |-> AuditsWith("voter_id", u)]

\* The votes of a voter from their documents, and the other audited events.
GetVoterActivity(u) ==
    [votes  |-> GetUserVotes(u),
     events |-> {event \in AuditsWith("voter_id", u) : event.name # "vote_cast"}]

Total(counts) == FoldFunction(+, 0, counts)

\* The count of a candidate in a document, 0 if it has none.
Stored(doc, c) == IF c \in DOMAIN doc THEN doc[c] ELSE 0

\* recalculateTally, when the tally the ledger computed is compared with the document.
Discrepancy(e, computed) ==
    /\ tallyDocs[e] # Nil
    /\ \/ \E c \in DOMAIN computed : Stored(tallyDocs[e], c) # computed[c]
       \/ Total(tallyDocs[e]) # Total(computed)

-----------------------------------------------------------------------------
(* Properties *)

\* No answer about a vote is ahead of the ledger or in conflict with it: whoever is
\* said to have voted is marked so on the ledger and has one receipt, that receipt
\* leads its owner, and nobody else, to the committed vote, and the activity lists the
\* vote once (vote.controller.ts:216-429, audits.controller.ts:16-66).
AnswersAreBacked ==
    \A u \in Users, e \in Elections :
        LET answer   == CheckUserVotedInElection(u, "voter", u, e)
            activity == GetVoterActivity(u)
        IN  answer.hasVoted =>
              /\ HasVoted(u, e)
              /\ \E v \in VoteIds :
                    /\ answer.receipts = {v}
                    /\ \A w \in Users : w # u => GetVoteDetailsByReceipt(w, v).status = "forbidden"
                    /\ LET details == GetVoteDetailsByReceipt(u, v)
                       IN  /\ details.candidate = worldState[VoteKey(v)].candidate
                           /\ details.candidateName = details.candidate
              /\ Cardinality({v \in activity.votes : voteDocs[v].election = e})
                   + Cardinality(activity.events \cap AuditsWith("election_id", e)) = 1
=============================================================================
