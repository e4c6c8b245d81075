------------------------------ MODULE FaultFree ------------------------------
(***************************************************************************)
(* What VotingSystem promises for as long as nothing fails: what is        *)
(* committed arrives, is counted once and audited once.  The variable      *)
(* remembers whether anything failed so far; it changes no step.           *)
(***************************************************************************)
EXTENDS Answers, MirrorInvariant

VARIABLE faulty     \* has an await failed, the process stopped, the stream broken, or
                    \* a transaction committed while nobody listened?

faultFreeVars == <<systemVars, faulty>>

\* A commit, which is missed if nobody listens.
Witness(t) == SystemCommit(t) /\ faulty' = IF connected THEN faulty ELSE TRUE

\* The listener's steps, and those it sees.
ListenerStep ==
    \/ \E t \in Txs : Witness(t)
    \/ Listen /\ UNCHANGED faulty
    \/ Faults /\ faulty' = TRUE

FaultFreeNext ==
    \/ /\ \/ Server
          \/ \E t \in Txs : ClientCall(t) \/ DiscardTx(t)
          \/ \E e \in Elections : TimePasses(e)
       /\ UNCHANGED listenerVars
       /\ UNCHANGED faulty
    \/ ListenerStep

FaultFreeSpec == SystemInit /\ faulty = FALSE /\ [][FaultFreeNext]_faultFreeVars
-----------------------------------------------------------------------------
(* Properties *)

CaughtUp == ~faulty /\ stream = <<>> /\ handler = Nil

\* As long as nothing failed, whatever is answered once the listener has caught up is
\* what the ledger holds: who has voted, which receipts there are, one audited event per
\* vote, the activity of every voter with all their votes, and, while an election is
\* live, its counts (fabric-event.service.ts:369-589, audits.controller.ts:16-66).
CaughtUpAnswersAreExact ==
    CaughtUp =>
        /\ \A u \in Users, e \in Elections :
              CheckUserVotedInElection(u, "voter", u, e).hasVoted = HasVoted(u, e)
        /\ \A v \in VoteIds :
              /\ (VerifyVote(v).status = "ok") = Cast(v)
              /\ Cast(v) => v \in GetVoterActivity(worldState[VoteKey(v)].voter).votes
        /\ \A e \in Elections :
              Cardinality(GetChaincodeEvents({"vote_cast"}, {e}))
                 = Cardinality({v \in VoteIds : Cast(v) /\ worldState[VoteKey(v)].election = e})
        /\ \A e \in GetAllElections({"live"}, {}) :
              LET counts == CountVotes(worldState, e)
              IN  IF \A c \in DOMAIN counts : counts[c] = 0
                  THEN GetVoteTally(e).status = "not found"
                  ELSE GetVoteTally(e).counts = counts

-----------------------------------------------------------------------------
(* The inductive invariant behind it *)

\* The event of the committed vote v.
EventOf(v) == [name |-> "vote_cast", id |-> v, vote |-> worldState[VoteKey(v)]]

\* The handler is at this step of the event of v.
HandlingVote(v, steps) ==
    handler # Nil /\ handler.event = EventOf(v) /\ handler.step \in steps

\* A committed vote has its document, or its event is on its way to it.
VotesArrive ==
    \A v \in VoteIds : Cast(v) =>
        \/ voteDocs[v] # Nil
        \/ \E i \in 1 .. Len(stream) : stream[i] = EventOf(v)
        \/ HandlingVote(v, {"vote"})

\* A vote with a document is audited, or about to be.
DocumentsAreAudited ==
    \A v \in VoteIds : voteDocs[v] # Nil =>
        EventOf(v) \in audits \/ HandlingVote(v, {"tally", "create", "audit"})

\* Until an election closes, its counts are those of the votes with a document but for
\* the one in hand; there is no document of counts before the first vote is counted.
CountsAreExact ==
    \A e \in Elections : StatusOf(e) \notin {"ended", "published"} =>
        IF tallyDocs[e] = Nil
        THEN \A c \in Candidates :
                Cardinality(MirroredFor(e, c)) = IF BeingCounted(e, c) THEN 1 ELSE 0
        ELSE /\ worldState[ElectionKey(e)] # Nil
             /\ tallyDocs[e] \in [worldState[ElectionKey(e)].candidates -> Nat]
             /\ ~(Handling("create") /\ handler.event.vote.election = e)
             /\ \E c \in DOMAIN tallyDocs[e] : tallyDocs[e][c] # 0
             /\ \A c \in DOMAIN tallyDocs[e] :
                   tallyDocs[e][c] + (IF BeingCounted(e, c) THEN 1 ELSE 0)
                     = Cardinality(MirroredFor(e, c))

\* Who is a candidate when the vote commits stays one.
VotesOnBallot ==
    \A v \in VoteIds : Cast(v) =>
        LET vote == worldState[VoteKey(v)]
        IN  /\ worldState[ElectionKey(vote.election)] # Nil
            /\ vote.candidate \in worldState[ElectionKey(vote.election)].candidates

FaultFreeIInv ==
    /\ SystemIInv
    /\ VotesOnBallot
    /\ ~faulty => VotesArrive /\ DocumentsAreAudited /\ CountsAreExact
=============================================================================
