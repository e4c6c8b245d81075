---------------------------- MODULE Answers_proofs ----------------------------
(***************************************************************************)
(* Proofs about Answers, FaultFree and Recounts: what the server says of a *)
(* vote is never ahead of the ledger, as long as nothing failed it is      *)
(* exactly what the ledger holds once the listener has caught up, and a    *)
(* recount then differs by the votes cast since.                           *)
(***************************************************************************)
EXTENDS Recounts, VotingSystem_proofs

(* Votes and the ballot *)

LEMMA StoredVotes ==
    ASSUME TypeOK, NEW v \in VoteIds, Cast(v)
    PROVE  /\ worldState[VoteKey(v)] \in Vote
           /\ worldState[VoteKey(v)].voter \in Users
           /\ worldState[VoteKey(v)].election \in Elections
           /\ worldState[VoteKey(v)].candidate \in Candidates
<1>1. worldState[VoteKey(v)] \in Vote
  BY KeysTyped DEF TypeOK, WellTyped, Cast
<1>. QED
  BY <1>1 DEF Vote

LEMMA BallotStays ==
    ASSUME IInv, VotesOnBallot, [Next]_ledgerVars
    PROVE  VotesOnBallot'
<1>1. CASE worldState' = worldState
  BY <1>1 DEF VotesOnBallot, Cast
<1>2. CASE worldState' # worldState
  <2>. SUFFICES ASSUME NEW v \in VoteIds, Cast(v)'
                PROVE  LET vote == worldState'[VoteKey(v)]
                       IN  /\ worldState'[ElectionKey(vote.election)] # Nil
                           /\ vote.candidate \in worldState'[ElectionKey(vote.election)].candidates
    BY DEF VotesOnBallot
  <2>1. PICK vote : vote = worldState'[VoteKey(v)]
    OBVIOUS
  <2>2. /\ vote.election \in Elections
        /\ worldState[ElectionKey(vote.election)] # Nil
        /\ vote.candidate \in worldState[ElectionKey(vote.election)].candidates
    <3>1. CASE Cast(v)
      BY <2>1, <3>1, VotesStayStep, StoredVotes DEF VotesOnBallot, IInv
    <3>2. CASE ~Cast(v)
      BY <2>1, <3>2, VotesAllowedStep DEF Admissible, LiveElections
    <3>. QED
      BY <3>1, <3>2
  <2>3. /\ worldState'[ElectionKey(vote.election)] # Nil
        /\ worldState'[ElectionKey(vote.election)].candidates
             = worldState[ElectionKey(vote.election)].candidates
    BY <1>2, <2>2, ElectionStaysStep
  <2>. QED
    BY <2>1, <2>2, <2>3
<1>. QED
  BY <1>1, <1>2

\* A committed vote is for a candidate of its election.
LEMMA VotesAreOnBallot == Spec => []VotesOnBallot
<1>1. Init => VotesOnBallot
  BY KeysTyped DEF Init, VotesOnBallot, Cast
<1>2. IInv /\ VotesOnBallot /\ [Next]_ledgerVars => VotesOnBallot'
  BY BallotStays
<1>. QED
  BY <1>1, <1>2, Invariance, PTL DEF Spec

-----------------------------------------------------------------------------
(* What is said of a vote *)

\* Only the audited votes have a voter.
AuditsAreKnown == \A event \in audits : event.name \in Audited

LEMMA KnownStays ==
    ASSUME SystemTypeOK, AuditsAreKnown, [SystemNext]_systemVars
    PROVE  AuditsAreKnown'
<1>1. CASE CreateAudit
  BY <1>1 DEF CreateAudit, Handling, SystemTypeOK, AuditsAreKnown
<1>2. CASE UNCHANGED audits
  BY <1>2 DEF AuditsAreKnown
<1>3. CASE UNCHANGED systemVars \/ UNCHANGED listenerVars
  BY <1>2, <1>3 DEF systemVars, listenerVars
<1>. QED
  BY <1>1, <1>2, <1>3, SchedulerParts
  DEF SystemCommit, Listen, Faults, Connect, Receive, CreateVote, IncrementTally, CreateTally,
      Disconnect, HandlerFails, AfterError, Restart

LEMMA VotersInDetails ==
    ASSUME NEW event, event.name \in Audited, "voter_id" \in DOMAIN Details(event)
    PROVE  event.name = "vote_cast"
BY DEF Audited, Details

\* The votes of u in e that have a document: the one on the ledger.
LEMMA FoundIsCast ==
    ASSUME IInv, MirrorIInv, NEW u \in Users, NEW e \in Elections,
           NEW v \in VoteIds, voteDocs[v] # Nil, voteDocs[v].voter = u, voteDocs[v].election = e
    PROVE  /\ Cast(v) /\ voteDocs[v] = worldState[VoteKey(v)]
           /\ \A w \in VoteIds : voteDocs[w] # Nil /\ voteDocs[w].voter = u
                                   /\ voteDocs[w].election = e => w = v
<1>1. \A w \in VoteIds : voteDocs[w] # Nil => Cast(w) /\ voteDocs[w] = worldState[VoteKey(w)]
  BY DEF MirrorIInv, MirroredVotesAreCommitted
<1>. QED
  BY <1>1 DEF IInv, OneVotePerElection

LEMMA BackedAnswers ==
    ASSUME IInv, MirrorIInv, VotesOnBallot, AuditsAreKnown
    PROVE  AnswersAreBacked
<1>. SUFFICES ASSUME NEW u \in Users, NEW e \in Elections,
                     CheckUserVotedInElection(u, "voter", u, e).hasVoted
              PROVE  LET answer   == CheckUserVotedInElection(u, "voter", u, e)
                         activity == GetVoterActivity(u)
                     IN  /\ HasVoted(u, e)
                         /\ \E v \in VoteIds :
                               /\ answer.receipts = {v}
                               /\ \A w \in Users : w # u =>
                                     GetVoteDetailsByReceipt(w, v).status = "forbidden"
                               /\ LET details == GetVoteDetailsByReceipt(u, v)
                                  IN  /\ details.candidate = worldState[VoteKey(v)].candidate
                                      /\ details.candidateName = details.candidate
                         /\ Cardinality({v \in activity.votes : voteDocs[v].election = e})
                              + Cardinality(activity.events \cap AuditsWith("election_id", e)) = 1
  BY DEF AnswersAreBacked
<1>. DEFINE found == {v \in GetUserVotes(u) : voteDocs[v].election = e}
<1>1. /\ CheckUserVotedInElection(u, "voter", u, e).receipts = found
      /\ CheckUserVotedInElection(u, "voter", u, e).hasVoted <=> found # {}
  BY DEF CheckUserVotedInElection
<1>2. PICK v \in VoteIds : voteDocs[v] # Nil /\ voteDocs[v].voter = u /\ voteDocs[v].election = e
  BY <1>1 DEF GetUserVotes
<1>3. Cast(v) /\ voteDocs[v] = worldState[VoteKey(v)]
  BY <1>2, FoundIsCast
<1>4. found = {v}
  BY <1>2, FoundIsCast DEF GetUserVotes
<1>5. HasVoted(u, e)
  BY <1>2, <1>3 DEF IInv, VotedMarksMatchVotes
<1>6. \A w \in Users : w # u => GetVoteDetailsByReceipt(w, v).status = "forbidden"
  BY <1>2 DEF GetVoteDetailsByReceipt, Forbidden
<1>7. /\ GetVoteDetailsByReceipt(u, v).candidate = worldState[VoteKey(v)].candidate
      /\ GetVoteDetailsByReceipt(u, v).candidateName = worldState[VoteKey(v)].candidate
  <2>1. /\ worldState[ElectionKey(e)] # Nil
        /\ voteDocs[v].candidate \in worldState[ElectionKey(e)].candidates
    BY <1>2, <1>3 DEF VotesOnBallot
  <2>2. NameOf(e, voteDocs[v].candidate) = voteDocs[v].candidate
    BY <2>1 DEF NameOf, GetElection
  <2>. QED
    BY <1>2, <1>3, <2>2 DEF GetVoteDetailsByReceipt
<1>8. GetVoterActivity(u).events = {}
  <2>1. \A event \in AuditsWith("voter_id", u) : event.name = "vote_cast"
    BY VotersInDetails DEF AuditsWith, AuditsAreKnown
  <2>. QED
    BY <2>1 DEF GetVoterActivity
<1>9. {w \in GetVoterActivity(u).votes : voteDocs[w].election = e} = {v}
  BY <1>4 DEF GetVoterActivity
<1>10. Cardinality({v}) = 1 /\ Cardinality({} \cap AuditsWith("election_id", e)) = 0
  <2>1. {} \cap AuditsWith("election_id", e) = {}
    OBVIOUS
  <2>. QED
    BY <2>1, FS_Singleton, FS_EmptySet
<1>. HIDE DEF found
<1>11. CheckUserVotedInElection(u, "voter", u, e).receipts = {v}
  BY <1>1, <1>4
<1>12. Cardinality({w \in GetVoterActivity(u).votes : voteDocs[w].election = e})
         + Cardinality(GetVoterActivity(u).events \cap AuditsWith("election_id", e)) = 1
  <2>. DEFINE seen == {w \in GetVoterActivity(u).votes : voteDocs[w].election = e}
  <2>1. seen = {v}
    BY <1>9
  <2>. HIDE DEF seen
  <2>2. Cardinality(seen) = 1
    BY <1>10, <2>1
  <2>3. Cardinality(GetVoterActivity(u).events \cap AuditsWith("election_id", e)) = 0
    BY <1>8, <1>10
  <2>4. Cardinality(seen)
          + Cardinality(GetVoterActivity(u).events \cap AuditsWith("election_id", e)) = 1
    BY <2>2, <2>3
  <2>. QED
    BY <2>4 DEF seen
<1>13. \E w \in VoteIds :
          /\ CheckUserVotedInElection(u, "voter", u, e).receipts = {w}
          /\ \A x \in Users : x # u => GetVoteDetailsByReceipt(x, w).status = "forbidden"
          /\ LET details == GetVoteDetailsByReceipt(u, w)
             IN  /\ details.candidate = worldState[VoteKey(w)].candidate
                 /\ details.candidateName = details.candidate
  <2>. WITNESS v \in VoteIds
  <2>1. GetVoteDetailsByReceipt(u, v).candidateName = GetVoteDetailsByReceipt(u, v).candidate
    BY <1>7
  <2>. QED
    BY <1>6, <1>7, <1>11, <2>1
<1>. QED
  BY <1>5, <1>12, <1>13

\* Whoever is told to have voted is marked so on the ledger, has one receipt, which
\* leads to that vote and to nobody else's, and finds the vote in the activity once,
\* whatever fails and wherever the server restarts (vote.controller.ts:216-429,
\* audits.controller.ts:16-66).
THEOREM AnswersBacked == NilIsNoTransaction => (SystemSpec => []AnswersAreBacked)
<1>. SUFFICES ASSUME NilIsNoTransaction PROVE SystemSpec => []AnswersAreBacked
  OBVIOUS
<1>1. SystemSpec => []AuditsAreKnown
  <2>1. SystemInit => AuditsAreKnown
    BY DEF SystemInit, AuditsAreKnown
  <2>2. SystemTypeOK /\ AuditsAreKnown /\ [SystemNext]_systemVars => AuditsAreKnown'
    BY KnownStays
  <2>. QED
    BY <2>1, <2>2, SystemTypeCorrect, PTL DEF SystemSpec
<1>2. IInv /\ MirrorIInv /\ VotesOnBallot /\ AuditsAreKnown => AnswersAreBacked
  BY BackedAnswers
<1>. QED
  BY <1>1, <1>2, SystemImplementsContract, Invariance, MirrorInvariance, VotesAreOnBallot, PTL

-----------------------------------------------------------------------------
(* As long as nothing fails *)

LEMMA FaultFreeSteps ==
    ASSUME [FaultFreeNext]_faultFreeVars
    PROVE  [SystemNext]_systemVars
BY DEF FaultFreeNext, ListenerStep, Witness, faultFreeVars, SystemNext, systemVars

\* Nothing but what is remembered is added to the system.
THEOREM FaultFreeIsSystem == FaultFreeSpec => SystemSpec
<1>1. [FaultFreeNext]_faultFreeVars => [SystemNext]_systemVars
  BY FaultFreeSteps
<1>. QED
  BY <1>1, PTL DEF FaultFreeSpec, SystemSpec

\* A step that is none of the listener's, nor seen by it.
QuietStep == UNCHANGED <<worldState, connected, stream, handler, voteDocs, audits>>

LEMMA QuietSteps ==
    ASSUME TypeOK,
           \/ Server
           \/ \E t \in Txs : ClientCall(t) \/ DiscardTx(t)
           \/ \E e \in Elections : TimePasses(e)
    PROVE  UNCHANGED worldState
<1>1. ASSUME NEW t \in Txs, ElectionCall(t) \/ UserCall(t)
      PROVE  UNCHANGED worldState
  <2>1. \E tx : Submit(t, tx)
    BY <1>1, ElectionCallDescribed, UserCallDescribed
  <2>. QED
    BY <2>1 DEF Submit
<1>2. ASSUME NEW t \in Txs, ClientCall(t) PROVE UNCHANGED worldState
  <2>1. ElectionCall(t) \/ UserCall(t)
    BY <1>2 DEF ClientCall, ElectionCall
  <2>. QED
    BY <1>1, <2>1
<1>3. ASSUME NEW t \in Txs, NEW e, NEW status, UpdateElectionStatus(t, e, status)
      PROVE  UNCHANGED worldState
  BY <1>3 DEF UpdateElectionStatus, Submit
<1>4. ASSUME NEW t \in Txs, NEW e, ComputeVoteTally(t, e)
      PROVE  UNCHANGED worldState
  BY <1>4 DEF ComputeVoteTally, Submit
<1>5. ASSUME Server PROVE UNCHANGED worldState
  <2>1. ASSUME NEW p \in Ticks, ProcessElections(p) PROVE UNCHANGED worldState
    BY <1>3, <1>4, <2>1
    DEF ProcessElections, StartTick, TickUpdates, TickTallies, TickSaves, TickFails
  <2>2. ASSUME NEW r \in Requests, PublishElectionResults(r) PROVE UNCHANGED worldState
    BY <1>3, <2>2 DEF PublishElectionResults, AskPublish, CheckPublish, Publish, EndRequest
  <2>. QED
    BY <1>5, <2>1, <2>2 DEF Server
<1>. QED
  BY <1>2, <1>5 DEF DiscardTx, Discard, TimePasses

\* A step with which nothing has failed.
LEMMA FaultFreeCases ==
    ASSUME TypeOK, [FaultFreeNext]_faultFreeVars, ~faulty'
    PROVE  /\ ~faulty
           /\ \/ QuietStep
              \/ \E t \in Txs : SystemCommit(t) /\ connected
              \/ Listen
<1>1. CASE UNCHANGED faultFreeVars
  BY <1>1 DEF faultFreeVars, systemVars, QuietStep
<1>2. CASE ListenerStep
  BY <1>2 DEF ListenerStep, Witness
<1>3. CASE /\ \/ Server
              \/ \E t \in Txs : ClientCall(t) \/ DiscardTx(t)
              \/ \E e \in Elections : TimePasses(e)
           /\ UNCHANGED listenerVars
           /\ UNCHANGED faulty
  BY <1>3, QuietSteps DEF listenerVars, QuietStep
<1>. QED
  BY <1>1, <1>2, <1>3 DEF FaultFreeNext

\* The event of a committed vote stays what it is.
LEMMA EventOfStays ==
    ASSUME IInv, [Next]_ledgerVars, NEW v \in VoteIds, Cast(v)
    PROVE  EventOf(v)' = EventOf(v)
BY CommittedStays DEF EventOf

\* The event in hand, when it is that of a vote.
LEMMA EventInHand ==
    ASSUME MirrorIInv, handler # Nil, handler.step # "audit" \/ handler.event \in VoteEvent
    PROVE  /\ handler \in [event : Event, step : {"vote", "tally", "create", "audit"}]
           /\ handler.event \in VoteEvent
           /\ handler.event.id \in VoteIds
           /\ Cast(handler.event.id)
           /\ handler.event = EventOf(handler.event.id)
           /\ \A v \in VoteIds : handler.event = EventOf(v) <=> v = handler.event.id
<1>1. /\ handler \in [event : Event, step : {"vote", "tally", "create", "audit"}]
      /\ handler.event \in VoteEvent /\ OfCommitted(handler.event)
  BY DEF MirrorIInv, HandlerIsBacked
<1>2. PICK event : event = handler.event
  OBVIOUS
<1>3. event.id \in VoteIds /\ Cast(event.id) /\ worldState[VoteKey(event.id)] = event.vote
  BY <1>1, <1>2, VoteEventFields DEF OfCommitted
<1>4. event = EventOf(event.id)
  BY <1>1, <1>2, <1>3 DEF EventOf, VoteEvent
<1>5. \A v \in VoteIds : EventOf(v).id = v
  BY DEF EventOf
<1>. QED
  BY <1>1, <1>2, <1>3, <1>4, <1>5

-----------------------------------------------------------------------------
(* Votes arrive *)

LEMMA CommitArrives ==
    ASSUME IInv, MirrorIInv, VotesArrive, NEW t \in Txs, SystemCommit(t), connected
    PROVE  VotesArrive'
<1>1. /\ Commit(t) /\ UNCHANGED <<voteDocs, handler>>
      /\ stream' = Append(stream, inflight[t].event) /\ stream \in Seq(Event)
  BY DEF SystemCommit, CommitTx, MirrorIInv, StreamIsCommitted
<1>2. Next
  BY <1>1 DEF Next
<1>3. PICK event : event = inflight[t].event
  OBVIOUS
<1>4. event \in Event /\ Describes(inflight[t])
  BY <1>1, <1>3 DEF MirrorIInv, EventsDescribeWrites, Describes, Commit
<1>5. /\ Len(stream') = Len(stream) + 1 /\ Len(stream) \in Nat
      /\ \A i \in 1 .. Len(stream) : stream'[i] = stream[i]
      /\ stream'[Len(stream) + 1] = event
  BY <1>1, <1>3, <1>4
<1>. SUFFICES ASSUME NEW v \in VoteIds, Cast(v)'
              PROVE  \/ voteDocs'[v] # Nil
                     \/ \E i \in 1 .. Len(stream') : stream'[i] = EventOf(v)'
                     \/ HandlingVote(v, {"vote"})'
  BY DEF VotesArrive
<1>6. CASE Cast(v)
  <2>1. EventOf(v)' = EventOf(v)
    BY <1>2, <1>6, EventOfStays
  <2>2. \/ voteDocs[v] # Nil
        \/ \E i \in 1 .. Len(stream) : stream[i] = EventOf(v)
        \/ HandlingVote(v, {"vote"})
    BY <1>6 DEF VotesArrive
  <2>3. HandlingVote(v, {"vote"}) => HandlingVote(v, {"vote"})'
    BY <1>1, <2>1 DEF HandlingVote
  <2>. HIDE DEF HandlingVote
  <2>. QED
    BY <1>1, <1>5, <2>1, <2>2, <2>3
<1>7. CASE ~Cast(v)
  <2>1. VoteKey(v) \in DOMAIN inflight[t].writes
    BY <1>1, <1>7, CommitFacts, KeysTyped DEF IInv, Cast
  <2>2. /\ event \in VoteEvent /\ event.id = v
        /\ inflight[t].writes[VoteKey(v)] = event.vote
    BY <1>3, <1>4, <2>1 DEF Describes
  <2>3. worldState'[VoteKey(v)] = event.vote
    BY <1>1, <2>1, <2>2, CommitFacts, KeysTyped DEF IInv
  <2>4. event = EventOf(v)'
    BY <2>2, <2>3 DEF EventOf, VoteEvent
  <2>. QED
    BY <1>5, <2>4
<1>. QED
  BY <1>6, <1>7

LEMMA ReceiveArrives ==
    ASSUME MirrorIInv, VotesArrive, Receive
    PROVE  VotesArrive'
<1>1. /\ UNCHANGED <<worldState, voteDocs>> /\ handler = Nil
      /\ stream \in Seq(Event) /\ stream # <<>> /\ stream' = Tail(stream)
      /\ handler' = IF Head(stream).name \notin Audited THEN Nil
                    ELSE [event |-> Head(stream),
                          step |-> IF Head(stream).name = "vote_cast" THEN "vote" ELSE "audit"]
  BY DEF Receive, schedulerVars, MirrorIInv, StreamIsCommitted
<1>2. /\ Len(stream') = Len(stream) - 1 /\ Len(stream) \in Nat
      /\ \A i \in 2 .. Len(stream) : stream'[i - 1] = stream[i]
      /\ Head(stream) = stream[1]
  BY <1>1
<1>3. \A v \in VoteIds : EventOf(v)' = EventOf(v) /\ Cast(v)' = Cast(v)
  BY <1>1 DEF EventOf, Cast
<1>. SUFFICES ASSUME NEW v \in VoteIds, Cast(v)'
              PROVE  \/ voteDocs'[v] # Nil
                     \/ \E i \in 1 .. Len(stream') : stream'[i] = EventOf(v)'
                     \/ HandlingVote(v, {"vote"})'
  BY DEF VotesArrive
<1>4. \/ voteDocs[v] # Nil
      \/ \E i \in 1 .. Len(stream) : stream[i] = EventOf(v)
  BY <1>1, <1>3 DEF VotesArrive, HandlingVote
<1>5. CASE stream[1] = EventOf(v)
  <2>1. Head(stream) = EventOf(v) /\ EventOf(v).name = "vote_cast"
    BY <1>2, <1>5 DEF EventOf
  <2>2. handler' = [event |-> EventOf(v), step |-> "vote"]
    BY <1>1, <2>1 DEF Audited
  <2>3. handler' # Nil
    <3>1. 1 \in 1 .. Len(stream)
      BY <1>1
    <3>2. EventOf(v) \in Event
      BY <1>1, <1>5, <3>1
    <3>. QED
      BY <2>2, <3>2, NilIsNoHandler
  <2>. QED
    BY <1>3, <2>2, <2>3 DEF HandlingVote
<1>6. ASSUME NEW i \in 2 .. Len(stream), stream[i] = EventOf(v)
      PROVE  \E j \in 1 .. Len(stream') : stream'[j] = EventOf(v)'
  <2>1. i - 1 \in 1 .. Len(stream') /\ stream'[i - 1] = EventOf(v)'
    BY <1>2, <1>3, <1>6
  <2>. QED
    BY <2>1
<1>. QED
  BY <1>1, <1>2, <1>4, <1>5, <1>6

LEMMA CreateVoteArrives ==
    ASSUME MirrorIInv, VotesArrive, CreateVote
    PROVE  VotesArrive'
<1>1. /\ UNCHANGED <<worldState, stream>> /\ handler # Nil /\ handler.step = "vote"
  BY DEF CreateVote, Handling, schedulerVars
<1>2. PICK event : event = handler.event
  OBVIOUS
<1>3. /\ event \in VoteEvent /\ event.id \in VoteIds
      /\ \A v \in VoteIds : event = EventOf(v) <=> v = event.id
  BY <1>1, <1>2, EventInHand
<1>4. event.vote # Nil
  BY <1>3, VoteEventFields
<1>5. /\ voteDocs'[event.id] # Nil
      /\ \A v \in VoteIds : voteDocs[v] # Nil => voteDocs'[v] # Nil
  BY <1>2, <1>3, <1>4 DEF CreateVote, MirrorIInv
<1>6. \A v \in VoteIds : EventOf(v)' = EventOf(v) /\ Cast(v)' = Cast(v)
  BY <1>1 DEF EventOf, Cast
<1>7. ASSUME NEW v \in VoteIds, Cast(v)'
      PROVE  \/ voteDocs'[v] # Nil
             \/ \E i \in 1 .. Len(stream') : stream'[i] = EventOf(v)'
  BY <1>1, <1>2, <1>3, <1>5, <1>6, <1>7 DEF VotesArrive, HandlingVote
<1>. QED
  BY <1>7 DEF VotesArrive

LEMMA VotesArriveStays ==
    ASSUME IInv, MirrorIInv, VotesArrive,
           \/ QuietStep
           \/ \E t \in Txs : SystemCommit(t) /\ connected
           \/ Listen
    PROVE  VotesArrive'
<1>1. CASE QuietStep \/ Connect
  BY <1>1 DEF QuietStep, Connect, schedulerVars, VotesArrive, Cast, EventOf, HandlingVote
<1>2. CASE \E t \in Txs : SystemCommit(t) /\ connected
  BY <1>2, CommitArrives
<1>3. CASE IncrementTally \/ CreateTally \/ CreateAudit
  <2>1. /\ UNCHANGED <<worldState, stream, voteDocs>>
        /\ handler.step \in {"tally", "create", "audit"}
    BY <1>3 DEF IncrementTally, CreateTally, CreateAudit, Handling, schedulerVars
  <2>2. \A v \in VoteIds : ~HandlingVote(v, {"vote"})
    BY <2>1 DEF HandlingVote
  <2>. QED
    BY <2>1, <2>2 DEF VotesArrive, Cast, EventOf
<1>. QED
  BY <1>1, <1>2, <1>3, ReceiveArrives, CreateVoteArrives DEF Listen

-----------------------------------------------------------------------------
(* Votes with a document are audited *)

LEMMA DocumentsAreAuditedStays ==
    ASSUME IInv, MirrorIInv, DocumentsAreAudited,
           \/ QuietStep
           \/ \E t \in Txs : SystemCommit(t) /\ connected
           \/ Listen
    PROVE  DocumentsAreAudited'
<1>. DEFINE Audit == {"tally", "create", "audit"}
<1>1. CASE QuietStep \/ Connect
  BY <1>1 DEF QuietStep, Connect, schedulerVars, DocumentsAreAudited, EventOf, HandlingVote
<1>2. ASSUME NEW t \in Txs, SystemCommit(t)
      PROVE  DocumentsAreAudited'
  <2>1. UNCHANGED <<voteDocs, handler, audits>> /\ [Next]_ledgerVars
    BY <1>2 DEF SystemCommit, CommitTx, Next
  <2>2. \A v \in VoteIds : voteDocs[v] # Nil => EventOf(v)' = EventOf(v)
    BY <2>1, EventOfStays DEF MirrorIInv, MirroredVotesAreCommitted
  <2>. QED
    BY <2>1, <2>2 DEF DocumentsAreAudited, HandlingVote
<1>3. CASE Receive
  <2>1. UNCHANGED <<worldState, voteDocs, audits>> /\ handler = Nil
    BY <1>3 DEF Receive, schedulerVars
  <2>2. \A v \in VoteIds : voteDocs'[v] # Nil => EventOf(v)' \in audits'
    BY <2>1 DEF DocumentsAreAudited, HandlingVote, EventOf
  <2>. QED
    BY <2>2 DEF DocumentsAreAudited
<1>4. CASE CreateVote
  <2>1. /\ UNCHANGED <<worldState, audits>> /\ handler # Nil /\ handler.step = "vote"
    BY <1>4 DEF CreateVote, Handling, schedulerVars
  <2>2. PICK event : event = handler.event
    OBVIOUS
  <2>3. /\ handler \in [event : Event, step : {"vote", "tally", "create", "audit"}]
        /\ event.id \in VoteIds /\ event = EventOf(event.id)
    BY <2>1, <2>2, EventInHand
  <2>4. \A v \in VoteIds : EventOf(v)' = EventOf(v)
    BY <2>1 DEF EventOf
  <2>5. \A v \in VoteIds : voteDocs[v] # Nil => EventOf(v)' \in audits'
    BY <2>1, <2>4 DEF DocumentsAreAudited, HandlingVote
  <2>6. CASE voteDocs[event.id] # Nil
    <3>1. UNCHANGED voteDocs
      BY <1>4, <2>2, <2>6 DEF CreateVote
    <3>. QED
      BY <2>5, <3>1 DEF DocumentsAreAudited
  <2>7. CASE voteDocs[event.id] = Nil
    <3>1. /\ voteDocs' = [voteDocs EXCEPT ![event.id] = event.vote]
          /\ handler' = [handler EXCEPT !.step = "tally"]
      BY <1>4, <2>2, <2>7 DEF CreateVote
    <3>2. \A v \in VoteIds : voteDocs'[v] # Nil => voteDocs[v] # Nil \/ v = event.id
      BY <3>1 DEF MirrorIInv
    <3>3. /\ handler'.event = event /\ handler'.step = "tally"
          /\ handler' \in [event : Event, step : {"vote", "tally", "create", "audit"}]
      BY <2>2, <2>3, <3>1
    <3>4. HandlingVote(event.id, Audit)'
      BY <2>3, <2>4, <3>3, NilIsNoHandler DEF HandlingVote
    <3>. QED
      BY <2>5, <3>2, <3>4 DEF DocumentsAreAudited
  <2>. QED
    BY <2>6, <2>7
<1>5. CASE IncrementTally \/ CreateTally
  <2>1. /\ UNCHANGED <<worldState, voteDocs, audits>>
        /\ handler # Nil /\ handler.step \in {"tally", "create"}
        /\ \/ handler' = [handler EXCEPT !.step = "create"]
           \/ handler' = [handler EXCEPT !.step = "audit"]
    BY <1>5 DEF IncrementTally, CreateTally, Handling
  <2>2. handler \in [event : Event, step : {"vote", "tally", "create", "audit"}]
    BY <2>1, EventInHand
  <2>3. /\ handler'.event = handler.event /\ handler'.step \in Audit
        /\ handler' \in [event : Event, step : {"vote", "tally", "create", "audit"}]
    BY <2>1, <2>2
  <2>4. \A v \in VoteIds : HandlingVote(v, Audit) => HandlingVote(v, Audit)'
    BY <2>1, <2>3, NilIsNoHandler DEF HandlingVote, EventOf
  <2>5. \A v \in VoteIds : EventOf(v)' = EventOf(v)
    BY <2>1 DEF EventOf
  <2>. QED
    BY <2>1, <2>4, <2>5 DEF DocumentsAreAudited
<1>6. CASE CreateAudit
  <2>1. /\ UNCHANGED <<worldState, voteDocs>> /\ audits' = audits \cup {handler.event}
    BY <1>6 DEF CreateAudit, schedulerVars
  <2>2. \A v \in VoteIds : EventOf(v)' = EventOf(v)
    BY <2>1 DEF EventOf
  <2>3. \A v \in VoteIds : voteDocs'[v] # Nil => EventOf(v)' \in audits'
    BY <2>1, <2>2 DEF DocumentsAreAudited, HandlingVote
  <2>. QED
    BY <2>3 DEF DocumentsAreAudited
<1>. QED
  BY <1>1, <1>2, <1>3, <1>4, <1>5, <1>6 DEF Listen

-----------------------------------------------------------------------------
(* Votes are counted once *)

\* An election that takes votes, or may.
IsOpen(e) == StatusOf(e) \notin {"ended", "published"}

\* The vote in hand is the first of e.
CountsFirst(e) == Handling("create") /\ handler.event.vote.election = e

\* A step that counts nothing and makes no document of a vote.
LEMMA ExactCountsStay ==
    ASSUME CountsAreExact, UNCHANGED voteDocs,
           \A e \in Elections : IsOpen(e)' =>
               /\ IsOpen(e) /\ tallyDocs'[e] = tallyDocs[e]
               /\ tallyDocs[e] # Nil => ~CountsFirst(e)'
               /\ worldState[ElectionKey(e)] # Nil =>
                     /\ worldState'[ElectionKey(e)] # Nil
                     /\ worldState'[ElectionKey(e)].candidates
                          = worldState[ElectionKey(e)].candidates,
           \A e, c : BeingCounted(e, c)' <=> BeingCounted(e, c)
    PROVE  CountsAreExact'
<1>. SUFFICES ASSUME NEW e \in Elections, IsOpen(e)'
              PROVE  IF tallyDocs'[e] = Nil
                     THEN \A c \in Candidates :
                             Cardinality(MirroredFor(e, c)')
                               = IF BeingCounted(e, c)' THEN 1 ELSE 0
                     ELSE /\ worldState'[ElectionKey(e)] # Nil
                          /\ tallyDocs'[e] \in [worldState'[ElectionKey(e)].candidates -> Nat]
                          /\ ~CountsFirst(e)'
                          /\ \E c \in DOMAIN tallyDocs'[e] : tallyDocs'[e][c] # 0
                          /\ \A c \in DOMAIN tallyDocs'[e] :
                                tallyDocs'[e][c] + (IF BeingCounted(e, c)' THEN 1 ELSE 0)
                                  = Cardinality(MirroredFor(e, c)')
  BY DEF CountsAreExact, IsOpen, CountsFirst
<1>1. IsOpen(e) /\ tallyDocs'[e] = tallyDocs[e]
  OBVIOUS
<1>2. \A c : MirroredFor(e, c)' = MirroredFor(e, c)
  BY DEF MirroredFor
<1>3. \A c : BeingCounted(e, c)' <=> BeingCounted(e, c)
  OBVIOUS
<1>4. CASE tallyDocs[e] = Nil
  <2>1. \A c \in Candidates :
           Cardinality(MirroredFor(e, c)) = IF BeingCounted(e, c) THEN 1 ELSE 0
    BY <1>1, <1>4 DEF CountsAreExact, IsOpen
  <2>. QED
    BY <1>1, <1>2, <1>3, <1>4, <2>1
<1>5. CASE tallyDocs[e] # Nil
  <2>1. /\ worldState[ElectionKey(e)] # Nil
        /\ tallyDocs[e] \in [worldState[ElectionKey(e)].candidates -> Nat]
        /\ \E c \in DOMAIN tallyDocs[e] : tallyDocs[e][c] # 0
        /\ \A c \in DOMAIN tallyDocs[e] :
              tallyDocs[e][c] + (IF BeingCounted(e, c) THEN 1 ELSE 0)
                = Cardinality(MirroredFor(e, c))
    BY <1>1, <1>5 DEF CountsAreExact, IsOpen
  <2>2. /\ worldState'[ElectionKey(e)] # Nil /\ ~CountsFirst(e)'
        /\ worldState'[ElectionKey(e)].candidates = worldState[ElectionKey(e)].candidates
    BY <1>5, <2>1
  <2>. QED
    BY <1>1, <1>2, <1>3, <1>5, <2>1, <2>2
<1>. QED
  BY <1>4, <1>5

\* The document of a vote comes before its count.
LEMMA CreateVoteExact ==
    ASSUME MirrorIInv, CountsAreExact, CreateVote
    PROVE  CountsAreExact'
<1>1. /\ UNCHANGED worldState /\ UNCHANGED tallyDocs
      /\ handler # Nil /\ handler.step = "vote"
  BY DEF CreateVote, Handling, schedulerVars
<1>2. PICK event : event = handler.event
  OBVIOUS
<1>3. /\ handler \in [event : Event, step : {"vote", "tally", "create", "audit"}]
      /\ event \in VoteEvent /\ event.id \in VoteIds
  BY <1>1, <1>2, EventInHand
<1>4. event.vote # Nil
  BY <1>3, VoteEventFields
<1>5. \A e, c : ~BeingCounted(e, c)
  BY <1>1 DEF BeingCounted
<1>6. \A e : (IsOpen(e)' <=> IsOpen(e))
  BY <1>1 DEF IsOpen, StatusOf
<1>7. CASE voteDocs[event.id] # Nil
  <2>1. handler' = Nil /\ UNCHANGED voteDocs
    BY <1>2, <1>7 DEF CreateVote
  <2>2. \A e, c : ~BeingCounted(e, c)' /\ ~CountsFirst(e)'
    BY <2>1 DEF BeingCounted, CountsFirst, Handling
  <2>. QED
    BY <1>1, <1>5, <1>6, <2>1, <2>2, ExactCountsStay
<1>8. CASE voteDocs[event.id] = Nil
  <2>1. /\ voteDocs' = [voteDocs EXCEPT ![event.id] = event.vote]
        /\ handler' = [handler EXCEPT !.step = "tally"]
    BY <1>2, <1>8 DEF CreateVote
  <2>2. /\ voteDocs'[event.id] = event.vote
        /\ \A v \in VoteIds \ {event.id} : voteDocs'[v] = voteDocs[v]
    BY <1>3, <2>1 DEF MirrorIInv
  <2>3. /\ handler'.event = event /\ handler'.step = "tally"
        /\ handler' \in [event : Event, step : {"vote", "tally", "create", "audit"}]
    BY <1>2, <1>3, <2>1
  <2>4. \A e, c : BeingCounted(e, c)' <=> event.vote.election = e /\ event.vote.candidate = c
    BY <2>3, NilIsNoHandler DEF BeingCounted
  <2>5. \A e : ~CountsFirst(e)'
    BY <2>3 DEF CountsFirst, Handling
  <2>6. ASSUME NEW e, NEW c
        PROVE  Cardinality(MirroredFor(e, c)')
                 = Cardinality(MirroredFor(e, c)) + (IF BeingCounted(e, c)' THEN 1 ELSE 0)
    <3>1. CASE BeingCounted(e, c)'
      <4>1. MirroredFor(e, c)' = MirroredFor(e, c) \cup {event.id}
              /\ event.id \notin MirroredFor(e, c)
        BY <1>3, <1>4, <1>8, <2>2, <2>4, <3>1 DEF MirroredFor
      <4>. QED
        BY <3>1, <4>1, MirroredFinite, FS_AddElement
    <3>2. CASE ~BeingCounted(e, c)'
      <4>1. MirroredFor(e, c)' = MirroredFor(e, c)
        BY <1>8, <2>2, <2>4, <3>2 DEF MirroredFor
      <4>. QED
        BY <3>2, <4>1, MirroredFinite
    <3>. QED
      BY <3>1, <3>2
  <2>. SUFFICES ASSUME NEW e \in Elections, IsOpen(e)
                PROVE  IF tallyDocs[e] = Nil
                       THEN \A c \in Candidates :
                               Cardinality(MirroredFor(e, c)')
                                 = IF BeingCounted(e, c)' THEN 1 ELSE 0
                       ELSE /\ worldState[ElectionKey(e)] # Nil
                            /\ tallyDocs[e] \in [worldState[ElectionKey(e)].candidates -> Nat]
                            /\ ~CountsFirst(e)'
                            /\ \E c \in DOMAIN tallyDocs[e] : tallyDocs[e][c] # 0
                            /\ \A c \in DOMAIN tallyDocs[e] :
                                  tallyDocs[e][c] + (IF BeingCounted(e, c)' THEN 1 ELSE 0)
                                    = Cardinality(MirroredFor(e, c)')
    BY <1>1, <1>6 DEF CountsAreExact, IsOpen, CountsFirst
  <2>7. CASE tallyDocs[e] = Nil
    <3>1. \A c \in Candidates : Cardinality(MirroredFor(e, c)) = 0
      BY <1>5, <2>7 DEF CountsAreExact, IsOpen
    <3>. QED
      BY <2>6, <2>7, <3>1
  <2>8. CASE tallyDocs[e] # Nil
    <3>1. /\ worldState[ElectionKey(e)] # Nil
          /\ tallyDocs[e] \in [worldState[ElectionKey(e)].candidates -> Nat]
          /\ \E c \in DOMAIN tallyDocs[e] : tallyDocs[e][c] # 0
          /\ \A c \in DOMAIN tallyDocs[e] :
                tallyDocs[e][c] + 0 = Cardinality(MirroredFor(e, c))
      BY <1>5, <2>8 DEF CountsAreExact, IsOpen
    <3>. QED
      BY <2>5, <2>6, <2>8, <3>1
  <2>. QED
    BY <2>7, <2>8
<1>. QED
  BY <1>7, <1>8

LEMMA IncrementedCounts ==
    ASSUME NEW names, NEW doc \in [names -> Nat], NEW c
    PROVE  /\ Incremented(doc, c) \in [names -> Nat]
           /\ \A x \in names :
                 Incremented(doc, c)[x] = IF x = c THEN doc[x] + 1 ELSE doc[x]
<1>1. /\ DOMAIN Incremented(doc, c) = names
      /\ Incremented(doc, c) = [x \in names |-> Incremented(doc, c)[x]]
  BY DEF Incremented
<1>2. ASSUME NEW x \in names
      PROVE  /\ Incremented(doc, c)[x] = IF x = c THEN doc[x] + 1 ELSE doc[x]
             /\ Incremented(doc, c)[x] \in Nat
  BY DEF Incremented
<1>. QED
  BY <1>1, <1>2

\* The vote in hand is counted, and is not in hand any more.
LEMMA CountExact ==
    ASSUME TypeOK, MirrorIInv, VotesOnBallot, DOMAIN tallyDocs = Elections, CountsAreExact,
           IncrementTally \/ CreateTally
    PROVE  CountsAreExact'
<1>1. /\ UNCHANGED worldState /\ UNCHANGED voteDocs
      /\ handler # Nil /\ handler.step \in {"tally", "create"}
  BY DEF IncrementTally, CreateTally, Handling
<1>2. PICK event : event = handler.event
  OBVIOUS
<1>3. /\ handler \in [event : Event, step : {"vote", "tally", "create", "audit"}]
      /\ event \in VoteEvent /\ event.id \in VoteIds /\ Cast(event.id)
      /\ event = EventOf(event.id)
  BY <1>1, <1>2, EventInHand
<1>4. PICK f, d : f = event.vote.election /\ d = event.vote.candidate
  OBVIOUS
<1>5. /\ f \in Elections /\ worldState[ElectionKey(f)] # Nil
      /\ d \in worldState[ElectionKey(f)].candidates
      /\ worldState[ElectionKey(f)].candidates \subseteq Candidates
  <2>1. event.vote = worldState[VoteKey(event.id)]
    BY <1>3 DEF EventOf
  <2>2. /\ f \in Elections /\ worldState[ElectionKey(f)] # Nil
        /\ d \in worldState[ElectionKey(f)].candidates
    BY <1>3, <1>4, <2>1, StoredVotes DEF VotesOnBallot
  <2>3. worldState[ElectionKey(f)] \in Election
    BY <2>2, KeysTyped DEF TypeOK, WellTyped
  <2>. QED
    BY <2>2, <2>3 DEF Election
<1>6. \A e, c : BeingCounted(e, c) <=> e = f /\ c = d
  BY <1>1, <1>2, <1>4 DEF BeingCounted
<1>7. \A e : (IsOpen(e)' <=> IsOpen(e))
  BY <1>1 DEF IsOpen, StatusOf
<1>8. \A e, c : MirroredFor(e, c)' = MirroredFor(e, c)
  BY <1>1 DEF MirroredFor
<1>9. CASE tallyDocs' = tallyDocs /\ handler' = [handler EXCEPT !.step = "create"]
  <2>1. tallyDocs[f] = Nil
    BY <1>2, <1>3, <1>4, <1>5, <1>9 DEF IncrementTally, CreateTally
  <2>2. /\ handler'.event = event /\ handler'.step = "create"
        /\ handler' \in [event : Event, step : {"vote", "tally", "create", "audit"}]
    BY <1>2, <1>3, <1>9
  <2>3. /\ \A e, c : BeingCounted(e, c)' <=> BeingCounted(e, c)
        /\ \A e : CountsFirst(e)' => e = f
    BY <1>4, <1>6, <2>2, NilIsNoHandler DEF BeingCounted, CountsFirst, Handling
  <2>. QED
    BY <1>1, <1>7, <1>9, <2>1, <2>3, ExactCountsStay
<1>10. CASE ~(tallyDocs' = tallyDocs /\ handler' = [handler EXCEPT !.step = "create"])
  <2>1. handler' = [handler EXCEPT !.step = "audit"]
    BY <1>10 DEF IncrementTally, CreateTally
  <2>2. handler'.step = "audit"
    BY <1>3, <2>1
  <2>3. \A e, c : ~BeingCounted(e, c)' /\ ~CountsFirst(e)'
    BY <2>2 DEF BeingCounted, CountsFirst, Handling
  <2>4. \A e \in Elections \ {f} : tallyDocs'[e] = tallyDocs[e]
    BY <1>2, <1>4 DEF IncrementTally, CreateTally
  <2>. SUFFICES ASSUME NEW e \in Elections, IsOpen(e)
                PROVE  IF tallyDocs'[e] = Nil
                       THEN \A c \in Candidates : Cardinality(MirroredFor(e, c)) = 0
                       ELSE /\ worldState[ElectionKey(e)] # Nil
                            /\ tallyDocs'[e] \in [worldState[ElectionKey(e)].candidates -> Nat]
                            /\ \E c \in DOMAIN tallyDocs'[e] : tallyDocs'[e][c] # 0
                            /\ \A c \in DOMAIN tallyDocs'[e] :
                                  tallyDocs'[e][c] + 0 = Cardinality(MirroredFor(e, c))
    BY <1>1, <1>7, <1>8, <2>3 DEF CountsAreExact, IsOpen, CountsFirst
  <2>5. CASE e # f
    <3>1. tallyDocs'[e] = tallyDocs[e] /\ \A c : ~BeingCounted(e, c)
      BY <1>6, <2>4, <2>5
    <3>. QED
      BY <3>1 DEF CountsAreExact, IsOpen
  <2>6. CASE e = f /\ tallyDocs[f] # Nil
    <3>1. /\ tallyDocs[f] \in [worldState[ElectionKey(f)].candidates -> Nat]
          /\ ~CountsFirst(f)
          /\ \E c \in DOMAIN tallyDocs[f] : tallyDocs[f][c] # 0
          /\ \A c \in DOMAIN tallyDocs[f] :
                tallyDocs[f][c] + (IF BeingCounted(f, c) THEN 1 ELSE 0)
                  = Cardinality(MirroredFor(f, c))
      BY <2>6 DEF CountsAreExact, IsOpen, CountsFirst
    <3>2. ~CreateTally
      BY <1>2, <1>4, <3>1 DEF CreateTally, CountsFirst
    <3>3. tallyDocs'[f] = Incremented(tallyDocs[f], d)
      BY <1>2, <1>4, <1>5, <2>6, <3>2 DEF IncrementTally
    <3>4. /\ tallyDocs'[f] \in [worldState[ElectionKey(f)].candidates -> Nat]
          /\ \A c \in worldState[ElectionKey(f)].candidates :
                tallyDocs'[f][c] = IF c = d THEN tallyDocs[f][c] + 1 ELSE tallyDocs[f][c]
      BY <3>1, <3>3, IncrementedCounts
    <3>5. tallyDocs'[f] # Nil
      BY <1>5, <3>4, NilIsNoTally
    <3>6. tallyDocs'[f][d] # 0
      BY <1>5, <3>1, <3>4
    <3>. QED
      BY <1>5, <1>6, <2>6, <3>1, <3>4, <3>5, <3>6
  <2>7. CASE e = f /\ tallyDocs[f] = Nil
    <3>1. tallyDocs'[f] = [c \in worldState[ElectionKey(f)].candidates |-> IF c = d THEN 1 ELSE 0]
      <4>1. CASE IncrementTally
        BY <1>2, <1>4, <1>10, <2>7, <4>1 DEF IncrementTally
      <4>2. CASE CreateTally
        BY <1>2, <1>4, <1>5, <2>7, <4>2 DEF CreateTally
      <4>. QED
        BY <4>1, <4>2
    <3>2. \A c \in Candidates :
             Cardinality(MirroredFor(f, c)) = IF BeingCounted(f, c) THEN 1 ELSE 0
      BY <2>7 DEF CountsAreExact, IsOpen
    <3>3. /\ tallyDocs'[f] \in [worldState[ElectionKey(f)].candidates -> Nat]
          /\ tallyDocs'[f][d] = 1
          /\ \A c \in DOMAIN tallyDocs'[f] :
                c \in Candidates /\ tallyDocs'[f][c] = IF c = d THEN 1 ELSE 0
      BY <1>5, <3>1
    <3>4. tallyDocs'[f] # Nil
      BY <1>5, <3>3, NilIsNoTally
    <3>. QED
      BY <1>5, <1>6, <2>7, <3>2, <3>3, <3>4
  <2>. QED
    BY <2>5, <2>6, <2>7
<1>. QED
  BY <1>9, <1>10

LEMMA CountsAreExactStays ==
    ASSUME NilIsNoTransaction, OneAtATime, IInv, SystemIInv, VotesOnBallot, CountsAreExact,
           [SystemNext]_systemVars,
           \/ QuietStep
           \/ \E t \in Txs : SystemCommit(t) /\ connected
           \/ Listen
    PROVE  CountsAreExact'
<1>1. /\ MirrorIInv /\ CallsTypeOK /\ CountingIsFinal /\ TypeOK
      /\ DOMAIN tallyDocs = Elections
  BY DEF SystemIInv, CountsAreBacked, IInv
<1>2. \A e \in Elections : IsOpen(e)' => IsOpen(e)
  BY SchedulerBeside DEF SystemIInv, IsOpen
<1>3. [Next]_ledgerVars
  BY <1>1, SystemSteps DEF CallsTypeOK
<1>4. \A e \in Elections : worldState[ElectionKey(e)] # Nil =>
          /\ worldState'[ElectionKey(e)] # Nil
          /\ worldState'[ElectionKey(e)].candidates = worldState[ElectionKey(e)].candidates
  <2>1. CASE worldState' = worldState
    BY <2>1
  <2>2. CASE worldState' # worldState
    BY <1>3, <2>2, ElectionStaysStep
  <2>. QED
    BY <2>1, <2>2
<1>5. ASSUME UNCHANGED <<voteDocs, handler>>
      PROVE  \A e \in Elections : IsOpen(e)' => tallyDocs'[e] = tallyDocs[e]
  <2>1. CASE tallyDocs' = tallyDocs
    BY <2>1
  <2>2. ASSUME NEW p \in Ticks, TickSaves(p)
        PROVE  \A e \in Elections : IsOpen(e)' => tallyDocs'[e] = tallyDocs[e]
    <3>1. /\ ticks[p] # Nil /\ ticks[p].step = "save"
          /\ tallyDocs' = [tallyDocs EXCEPT ![ticks[p].at[1]] = ticks[p].tally]
      BY <2>2 DEF TickSaves
    <3>2. \A e \in Elections : ticks[p].at[1] = e => ~IsOpen(e)
      BY <1>1, <3>1 DEF CountingIsFinal, IsOpen
    <3>. QED
      BY <1>1, <1>2, <3>1, <3>2
  <2>3. \/ tallyDocs' = tallyDocs
        \/ \E p \in Ticks : TickSaves(p)
        \/ IncrementTally \/ CreateTally
    <3>1. CASE UNCHANGED systemVars
      BY <3>1 DEF systemVars
    <3>2. CASE SchedulerNext
      BY <3>2, DocumentSteps
    <3>3. CASE Listen \/ Faults
      BY <3>3 DEF Listen, Faults, Connect, Receive, CreateVote, CreateAudit, Disconnect,
                  HandlerFails, AfterError, Restart, schedulerVars
    <3>. QED
      BY <3>1, <3>2, <3>3, SchedulerParts
  <2>4. ASSUME IncrementTally \/ CreateTally PROVE FALSE
    <3>1. /\ handler # Nil /\ handler.step \in {"tally", "create"}
          /\ \/ IncrementTally /\ handler.step = "tally"
             \/ CreateTally /\ handler.step = "create"
      BY <2>4 DEF IncrementTally, CreateTally, Handling
    <3>2. handler \in [event : Event, step : {"vote", "tally", "create", "audit"}]
      BY <1>1, <3>1, EventInHand
    <3>3. \/ handler' = [handler EXCEPT !.step = "audit"]
          \/ handler.step = "tally" /\ handler' = [handler EXCEPT !.step = "create"]
      BY <3>1 DEF IncrementTally, CreateTally
    <3>4. handler'.step # handler.step
      BY <3>1, <3>2, <3>3
    <3>. QED
      BY <1>5, <3>4
  <2>. QED
    BY <2>1, <2>2, <2>3, <2>4
<1>6. ASSUME UNCHANGED <<voteDocs, handler>> PROVE CountsAreExact'
  <2>1. \A e \in Elections : IsOpen(e)' => tallyDocs'[e] = tallyDocs[e]
    BY <1>5, <1>6
  <2>2. \A e \in Elections : IsOpen(e) /\ tallyDocs[e] # Nil => ~CountsFirst(e)
    BY DEF CountsAreExact, IsOpen, CountsFirst
  <2>3. /\ \A e, c : BeingCounted(e, c)' <=> BeingCounted(e, c)
        /\ \A e : CountsFirst(e)' <=> CountsFirst(e)
    BY <1>6 DEF BeingCounted, CountsFirst, Handling
  <2>. QED
    BY <1>2, <1>4, <1>6, <2>1, <2>2, <2>3, ExactCountsStay
<1>7. CASE Receive \/ CreateAudit
  <2>1. /\ UNCHANGED <<worldState, voteDocs, tallyDocs>>
        /\ handler = Nil \/ handler.step = "audit"
        /\ handler' = Nil \/ handler'.step \in {"vote", "audit"}
    BY <1>7 DEF Receive, CreateAudit, Handling, schedulerVars
  <2>2. /\ \A e, c : BeingCounted(e, c)' <=> BeingCounted(e, c)
        /\ \A e : ~CountsFirst(e)'
    BY <2>1 DEF BeingCounted, CountsFirst, Handling
  <2>. QED
    BY <1>2, <1>4, <2>1, <2>2, ExactCountsStay
<1>8. CASE QuietStep \/ Connect \/ \E t \in Txs : SystemCommit(t)
  BY <1>6, <1>8 DEF QuietStep, Connect, SystemCommit, schedulerVars
<1>9. CASE CreateVote
  BY <1>1, <1>9, CreateVoteExact
<1>10. CASE IncrementTally \/ CreateTally
  BY <1>1, <1>10, CountExact
<1>. QED
  BY <1>7, <1>8, <1>9, <1>10 DEF Listen

-----------------------------------------------------------------------------
(* What is answered when the listener has caught up *)

\* The inductive invariant of a server with which nothing has failed.
THEOREM FaultFreeInvariance ==
    NilIsNoTransaction /\ OneAtATime => (FaultFreeSpec => []FaultFreeIInv)
<1>. SUFFICES ASSUME NilIsNoTransaction, OneAtATime PROVE FaultFreeSpec => []FaultFreeIInv
  OBVIOUS
<1>1. SystemInit => VotesArrive /\ DocumentsAreAudited /\ CountsAreExact
  <2>. SUFFICES ASSUME SystemInit
                PROVE  VotesArrive /\ DocumentsAreAudited /\ CountsAreExact
    OBVIOUS
  <2>1. /\ \A v \in VoteIds : ~Cast(v) /\ voteDocs[v] = Nil
        /\ \A e \in Elections : tallyDocs[e] = Nil
        /\ handler = Nil
    BY KeysTyped DEF SystemInit, SchedulerInit, Init, Cast
  <2>2. \A e, c : MirroredFor(e, c) = {} /\ ~BeingCounted(e, c)
    BY <2>1 DEF MirroredFor, BeingCounted
  <2>. QED
    BY <2>1, <2>2, FS_EmptySet DEF VotesArrive, DocumentsAreAudited, CountsAreExact
<1>2. IInv /\ SystemIInv /\ VotesOnBallot
        /\ (~faulty => VotesArrive /\ DocumentsAreAudited /\ CountsAreExact)
        /\ [FaultFreeNext]_faultFreeVars
        => (~faulty => VotesArrive /\ DocumentsAreAudited /\ CountsAreExact)'
  <2>. SUFFICES ASSUME IInv, SystemIInv, VotesOnBallot,
                       ~faulty => VotesArrive /\ DocumentsAreAudited /\ CountsAreExact,
                       [FaultFreeNext]_faultFreeVars, ~faulty'
                PROVE  VotesArrive' /\ DocumentsAreAudited' /\ CountsAreExact'
    OBVIOUS
  <2>1. /\ ~faulty
        /\ \/ QuietStep
           \/ \E t \in Txs : SystemCommit(t) /\ connected
           \/ Listen
    BY FaultFreeCases DEF IInv
  <2>2. [SystemNext]_systemVars /\ MirrorIInv
    BY FaultFreeSteps DEF SystemIInv
  <2>. QED
    BY <2>1, <2>2, VotesArriveStays, DocumentsAreAuditedStays, CountsAreExactStays
<1>3. FaultFreeSpec => [](~faulty => VotesArrive /\ DocumentsAreAudited /\ CountsAreExact)
  BY <1>1, <1>2, FaultFreeIsSystem, SystemImplementsContract, Invariance, SystemInvariance,
     VotesAreOnBallot, PTL DEF FaultFreeSpec
<1>. QED
  BY <1>3, FaultFreeIsSystem, SystemImplementsContract, SystemInvariance, VotesAreOnBallot, PTL
     DEF FaultFreeIInv

\* The documents when the listener has caught up: the votes of the ledger.
LEMMA DocumentsAreTheVotes ==
    ASSUME FaultFreeIInv, CaughtUp
    PROVE  /\ \A v \in VoteIds : voteDocs[v] # Nil <=> Cast(v)
           /\ \A v \in VoteIds : Cast(v) => /\ voteDocs[v] = worldState[VoteKey(v)]
                                            /\ EventOf(v) \in audits
           /\ \A e, c : MirroredFor(e, c) = VotesFor(worldState, e, c)
<1>1. /\ VotesArrive /\ DocumentsAreAudited /\ MirroredVotesAreCommitted
      /\ stream = <<>> /\ handler = Nil
  BY DEF FaultFreeIInv, CaughtUp, SystemIInv, MirrorIInv
<1>2. \A v \in VoteIds : ~HandlingVote(v, {"vote"})
                           /\ ~HandlingVote(v, {"tally", "create", "audit"})
  BY <1>1 DEF HandlingVote
<1>3. 1 .. Len(stream) = {}
  BY <1>1
<1>4. \A v \in VoteIds : voteDocs[v] # Nil <=> Cast(v)
  BY <1>1, <1>2, <1>3 DEF VotesArrive, MirroredVotesAreCommitted
<1>5. \A v \in VoteIds : Cast(v) => /\ voteDocs[v] = worldState[VoteKey(v)]
                                    /\ EventOf(v) \in audits
  BY <1>1, <1>2, <1>4 DEF MirroredVotesAreCommitted, DocumentsAreAudited
<1>6. \A e, c : MirroredFor(e, c) = VotesFor(worldState, e, c)
  BY <1>4, <1>5 DEF MirroredFor, VotesFor, Cast
<1>. QED
  BY <1>4, <1>5, <1>6

\* One audited event per vote of an election.
LEMMA OneEventPerVote ==
    ASSUME FaultFreeIInv, CaughtUp, NEW e \in Elections
    PROVE  Cardinality(GetChaincodeEvents({"vote_cast"}, {e}))
             = Cardinality({v \in VoteIds : Cast(v) /\ worldState[VoteKey(v)].election = e})
<1>. DEFINE votes == {v \in VoteIds : Cast(v) /\ worldState[VoteKey(v)].election = e}
            events == GetChaincodeEvents({"vote_cast"}, {e})
            eventOf == [v \in votes |-> EventOf(v)]
<1>1. AuditsAreBacked
  BY DEF FaultFreeIInv, SystemIInv, MirrorIInv
<1>2. ASSUME NEW event \in events
      PROVE  event.id \in votes /\ event = EventOf(event.id)
  <2>1. /\ event \in audits /\ event.name = "vote_cast"
        /\ Details(event)["election_id"] = e
    BY <1>2 DEF GetChaincodeEvents, AuditsWith
  <2>2. event \in VoteEvent /\ OfCommitted(event)
    BY <1>1, <2>1, VoteEvents DEF AuditsAreBacked
  <2>3. event.vote.election = e
    BY <2>1 DEF Details
  <2>4. /\ event.id \in VoteIds /\ Cast(event.id)
        /\ worldState[VoteKey(event.id)] = event.vote
    BY <2>2, VoteEventFields DEF OfCommitted
  <2>. QED
    BY <2>2, <2>3, <2>4 DEF EventOf, VoteEvent
<1>3. ASSUME NEW v \in votes
      PROVE  EventOf(v) \in events /\ EventOf(v).id = v
  <2>1. EventOf(v) \in audits
    BY DocumentsAreTheVotes
  <2>2. EventOf(v).name = "vote_cast" /\ EventOf(v).vote = worldState[VoteKey(v)]
          /\ EventOf(v).id = v
    BY DEF EventOf
  <2>3. /\ "election_id" \in DOMAIN Details(EventOf(v))
        /\ Details(EventOf(v))["election_id"] = e
    BY <2>2 DEF Details
  <2>. QED
    BY <2>1, <2>2, <2>3 DEF GetChaincodeEvents, AuditsWith
<1>. HIDE DEF votes, events
<1>4. eventOf \in Bijection(votes, events)
  <2>1. eventOf \in [votes -> events]
    BY <1>3
  <2>2. \A v, w \in votes : eventOf[v] = eventOf[w] => v = w
    BY <1>3
  <2>3. \A event \in events : \E v \in votes : eventOf[v] = event
    BY <1>2
  <2>. QED
    BY <2>1, <2>2, <2>3 DEF Bijection, Injection, Surjection, IsInjective
<1>5. IsFiniteSet(votes)
  BY FiniteVotes, FS_Subset DEF votes
<1>6. Cardinality(events) = Cardinality(votes)
  BY <1>4, <1>5, FS_Bijection DEF ExistsBijection
<1>. QED
  BY <1>6 DEF votes, events

\* The counts shown are those of the ledger.
LEMMA ShownCountsAreExact ==
    ASSUME TypeOK, FaultFreeIInv, CaughtUp, NEW e \in GetAllElections({"live"}, {})
    PROVE  LET counts == CountVotes(worldState, e)
           IN  IF \A c \in DOMAIN counts : counts[c] = 0
               THEN GetVoteTally(e).status = "not found"
               ELSE GetVoteTally(e).counts = counts
<1>. DEFINE counts == CountVotes(worldState, e)
            names == worldState[ElectionKey(e)].candidates
<1>1. /\ e \in Elections /\ worldState[ElectionKey(e)] # Nil /\ IsOpen(e)
  BY DEF GetAllElections, GetElection, IsOpen, StatusOf
<1>2. names \subseteq Candidates
  BY <1>1, KeysTyped DEF TypeOK, WellTyped, Election
<1>3. /\ CountsAreExact /\ handler = Nil
      /\ \A c : MirroredFor(e, c) = VotesFor(worldState, e, c)
  BY DocumentsAreTheVotes DEF FaultFreeIInv, CaughtUp
<1>4. \A c : ~BeingCounted(e, c)
  BY <1>3 DEF BeingCounted
<1>5. /\ DOMAIN counts = names
      /\ counts = [c \in names |-> Cardinality(MirroredFor(e, c))]
  BY <1>3 DEF CountVotes
<1>. HIDE DEF counts, names
<1>6. CASE tallyDocs[e] = Nil
  <2>1. \A c \in Candidates : Cardinality(MirroredFor(e, c)) = 0
    BY <1>1, <1>3, <1>4, <1>6 DEF CountsAreExact, IsOpen
  <2>2. \A c \in DOMAIN counts : counts[c] = 0
    BY <1>2, <1>5, <2>1
  <2>3. GetVoteTally(e).status = "not found"
    BY <1>6 DEF GetVoteTally, NotFound
  <2>. QED
    BY <2>2, <2>3 DEF counts
<1>7. CASE tallyDocs[e] # Nil
  <2>1. /\ tallyDocs[e] \in [names -> Nat]
        /\ \E c \in DOMAIN tallyDocs[e] : tallyDocs[e][c] # 0
        /\ \A c \in DOMAIN tallyDocs[e] :
              tallyDocs[e][c] + 0 = Cardinality(MirroredFor(e, c))
    BY <1>1, <1>3, <1>4, <1>7 DEF CountsAreExact, IsOpen, names
  <2>2. \A c \in names : tallyDocs[e][c] = Cardinality(MirroredFor(e, c))
    BY <2>1
  <2>3. tallyDocs[e] = counts
    BY <1>5, <2>1, <2>2
  <2>4. ~(\A c \in DOMAIN counts : counts[c] = 0)
    BY <2>1, <2>3
  <2>5. GetVoteTally(e).counts = counts
    <3>1. GetElection(e) # Nil /\ GetElection(e).candidates = names
      BY <1>1 DEF GetElection, names
    <3>2. GetVoteTally(e).counts = [c \in names |-> tallyDocs[e][c]]
      BY <1>7, <2>1, <3>1 DEF GetVoteTally
    <3>. QED
      BY <1>5, <2>2, <3>2
  <2>. QED
    BY <2>4, <2>5 DEF counts
<1>. QED
  BY <1>6, <1>7

\* As long as nothing failed, whatever is answered once the listener has caught up is
\* what the ledger holds (fabric-event.service.ts:369-589).
THEOREM CaughtUpAnswers ==
    NilIsNoTransaction /\ OneAtATime => (FaultFreeSpec => []CaughtUpAnswersAreExact)
<1>. SUFFICES ASSUME NilIsNoTransaction, OneAtATime
              PROVE  FaultFreeSpec => []CaughtUpAnswersAreExact
  OBVIOUS
<1>1. IInv /\ FaultFreeIInv => CaughtUpAnswersAreExact
  <2>. SUFFICES ASSUME IInv, FaultFreeIInv, CaughtUp PROVE CaughtUpAnswersAreExact
    BY DEF CaughtUpAnswersAreExact
  <2>1. ASSUME NEW u \in Users, NEW e \in Elections
        PROVE  CheckUserVotedInElection(u, "voter", u, e).hasVoted = HasVoted(u, e)
    <3>. DEFINE found == {v \in GetUserVotes(u) : voteDocs[v].election = e}
    <3>1. CheckUserVotedInElection(u, "voter", u, e).hasVoted = (found # {})
      BY DEF CheckUserVotedInElection
    <3>2. found # {} <=> \E v \in VoteIds : /\ Cast(v)
                                            /\ worldState[VoteKey(v)].voter = u
                                            /\ worldState[VoteKey(v)].election = e
      BY DocumentsAreTheVotes DEF GetUserVotes
    <3>3. HasVoted(u, e) <=> \E v \in VoteIds : /\ Cast(v)
                                                /\ worldState[VoteKey(v)].voter = u
                                                /\ worldState[VoteKey(v)].election = e
      BY DEF IInv, VotedMarksMatchVotes
    <3>4. HasVoted(u, e) \in BOOLEAN
      BY DEF HasVoted
    <3>. HIDE DEF found
    <3>. QED
      BY <3>1, <3>2, <3>3, <3>4
  <2>2. ASSUME NEW v \in VoteIds
        PROVE  /\ (VerifyVote(v).status = "ok") = Cast(v)
               /\ Cast(v) => v \in GetVoterActivity(worldState[VoteKey(v)].voter).votes
    <3>1. (VerifyVote(v).status = "ok") <=> Cast(v)
      BY DocumentsAreTheVotes DEF VerifyVote, NotFound
    <3>2. Cast(v) => v \in GetUserVotes(worldState[VoteKey(v)].voter)
      BY DocumentsAreTheVotes DEF GetUserVotes
    <3>. QED
      BY <3>1, <3>2 DEF Cast, GetVoterActivity
  <2>3. IInv => TypeOK
    BY DEF IInv
  <2>. QED
    BY <2>1, <2>2, <2>3, OneEventPerVote, ShownCountsAreExact DEF CaughtUpAnswersAreExact
<1>. QED
  BY <1>1, FaultFreeInvariance, FaultFreeIsSystem, SystemImplementsContract, Invariance, PTL
-----------------------------------------------------------------------------
(* Recounts *)

LEMMA RecountSteps ==
    ASSUME [RecountNext]_recountVars
    PROVE  [FaultFreeNext]_faultFreeVars
<1>1. ASSUME NEW a \in Auditors, NEW t \in Txs, NEW e \in Elections, AskRecount(a, t, e)
      PROVE  FaultFreeNext
  <2>1. ClientCall(t)
    BY <1>1 DEF AskRecount, ClientCall
  <2>. QED
    BY <1>1, <2>1 DEF AskRecount, FaultFreeNext
<1>2. CASE RecountStep
  BY <1>2 DEF RecountStep, EndRecount, FaultFreeNext, ListenerStep, Faults
<1>3. CASE UNCHANGED recountVars
  BY <1>3 DEF recountVars
<1>. QED
  BY <1>1, <1>2, <1>3 DEF RecountNext, FaultFreeNext

\* Auditors are clients like others, so every theorem about the system holds beside them.
THEOREM RecountsAreFaultFree == RecountSpec => FaultFreeSpec
<1>1. [RecountNext]_recountVars => [FaultFreeNext]_faultFreeVars
  BY RecountSteps
<1>. QED
  BY <1>1, PTL DEF RecountSpec, FaultFreeSpec

\* The transaction of a request stays until it commits or is discarded.
LEMMA TallyStaysAwaited ==
    ASSUME NilIsNoTransaction, TypeOK, NEW recount, AwaitsTally(recount),
           \/ inflight' = inflight
           \/ \E t \in Txs : \E tx : Submit(t, tx)
           \/ \E t \in Txs : recount.tx # t /\ (Commit(t) \/ Discard(t))
    PROVE  AwaitsTally(recount)'
<1>. DEFINE s == recount.tx
<1>1. s \in Txs /\ inflight[s] # Nil
  BY DEF AwaitsTally
<1>2. SUFFICES inflight'[s] # Nil /\ inflight'[s].result = inflight[s].result
  BY DEF AwaitsTally
<1>3. ASSUME NEW t \in Txs, NEW tx, Submit(t, tx) PROVE inflight'[s] = inflight[s]
  BY <1>1, <1>3 DEF Submit, TypeOK
<1>4. ASSUME NEW t \in Txs, s # t, Discard(t) PROVE inflight'[s] = inflight[s]
  BY <1>1, <1>4 DEF Discard, TypeOK
<1>5. ASSUME NEW t \in Txs, s # t, Commit(t)
      PROVE  inflight'[s] # Nil /\ inflight'[s].result = inflight[s].result
  <2>. DEFINE clash == DOMAIN inflight[s].reads \cap DOMAIN inflight[t].writes # {}
  <2>1. inflight'[s] = [inflight[s] EXCEPT !.stale = @ \/ clash]
    BY <1>1, <1>5 DEF Commit, AfterCommit, Pending
  <2>2. WellFormed(inflight[s])
    BY <1>1 DEF TypeOK, Pending
  <2>. HIDE DEF clash
  <2>3. DOMAIN inflight'[s] = {"reads", "writes", "event", "result", "stale"}
    BY <2>1, <2>2 DEF WellFormed
  <2>4. inflight'[s] # Nil
    BY <2>3 DEF NilIsNoTransaction
  <2>. QED
    BY <1>1, <1>5, <2>4, CommitFacts DEF Pending
<1>. QED
  BY <1>1, <1>3, <1>4, <1>5

\* A request that waits, or has its counts, stays as it should be.
LEMMA RecountStays ==
    ASSUME NilIsNoTransaction, IInv, [Next]_ledgerVars, NEW recount, RecountOK(recount),
           \/ inflight' = inflight
           \/ \E t \in Txs : \E tx : Submit(t, tx)
           \/ \E t \in Txs : recount.tx # t /\ (Commit(t) \/ Discard(t))
    PROVE  RecountOK(recount)'
<1>. DEFINE e == recount.election
<1>1. /\ e \in Elections
      /\ worldState'[ElectionKey(e)] # Nil
      /\ worldState'[ElectionKey(e)].candidates = worldState[ElectionKey(e)].candidates
  <2>1. CASE worldState' = worldState
    BY <2>1 DEF RecountOK
  <2>2. CASE worldState' # worldState
    BY <2>2, ElectionStaysStep DEF RecountOK
  <2>. QED
    BY <2>1, <2>2
<1>2. CASE recount.step = "tally"
  BY <1>1, <1>2, TallyStaysAwaited DEF RecountOK, IInv
<1>3. CASE recount.step = "compare"
  <2>1. CountedThen(recount)
    BY <1>3 DEF RecountOK
  <2>2. \A v \in recount.counted : /\ v \in VoteIds /\ Cast(v) /\ Cast(v)'
                                   /\ worldState'[VoteKey(v)] = worldState[VoteKey(v)]
    BY <2>1, CommittedStays DEF CountedThen
  <2>3. ASSUME NEW c
        PROVE  VotesFor(worldState', e, c) \cap recount.counted
                 = VotesFor(worldState, e, c) \cap recount.counted
    BY <2>2 DEF VotesFor
  <2>4. CountedThen(recount)'
    BY <1>1, <2>1, <2>2, <2>3 DEF CountedThen
  <2>. QED
    BY <1>1, <1>3, <2>4 DEF RecountOK
<1>. QED
  BY <1>2, <1>3 DEF RecountOK

\* What a request has when its count commits.
LEMMA RecountCommits ==
    ASSUME IInv, NEW t \in Txs, Commit(t), NEW recount, RecountOK(recount), recount.tx = t
    PROVE  RecountOK([recount EXCEPT !.step = "compare", !.tx = Nil,
                                     !.counts = inflight[t].result.tallies,
                                     !.counted = {v \in VoteIds : Cast(v)}])
<1>. DEFINE e   == recount.election
            new == [recount EXCEPT !.step = "compare", !.tx = Nil,
                                   !.counts = inflight[t].result.tallies,
                                   !.counted = {v \in VoteIds : Cast(v)}]
<1>1. /\ e \in Elections /\ worldState[ElectionKey(e)] # Nil
      /\ inflight[t].result \in Tally /\ inflight[t].result.election = e
  BY NilIsNoPlace DEF RecountOK, CountedThen, AwaitsTally
<1>2. inflight[t].result.tallies = CountVotes(worldState, e)
  BY <1>1, CommittedTally
<1>3. /\ DOMAIN new = {"step", "election", "tx", "counts", "counted"}
      /\ new.step = "compare" /\ new.tx = Nil /\ new.election = e
      /\ new.counts = CountVotes(worldState, e)
      /\ new.counted = {v \in VoteIds : Cast(v)}
  BY <1>2 DEF RecountOK
<1>. HIDE DEF new
<1>4. \A c : VotesFor(worldState, e, c) \cap new.counted = VotesFor(worldState, e, c)
  BY <1>3 DEF VotesFor, Cast
<1>5. CountedThen(new)
  <2>1. CountVotes(worldState, e) =
           [c \in worldState[ElectionKey(e)].candidates |->
               Cardinality(VotesFor(worldState, e, c) \cap new.counted)]
    BY <1>4 DEF CountVotes
  <2>. QED
    BY <1>3, <2>1 DEF CountedThen
<1>6. RecountOK(new)
  BY <1>1, <1>3, <1>5 DEF RecountOK
<1>. QED
  BY <1>6 DEF new

LEMMA RecountsStay ==
    ASSUME NilIsNoTransaction, IInv, ServerTypeOK, RecountsInv, [RecountNext]_recountVars
    PROVE  RecountsInv'
<1>1. [Next]_ledgerVars
  BY RecountSteps, FaultFreeSteps, SystemSteps
<1>2. ASSUME NEW a \in Auditors, recounts[a] # Nil, recounts'[a] = recounts[a],
             \/ inflight' = inflight
             \/ \E t \in Txs : \E tx : Submit(t, tx)
             \/ \E t \in Txs : recounts[a].tx # t /\ (Commit(t) \/ Discard(t))
      PROVE  RecountOK(recounts[a])'
  <2>1. PICK recount : recount = recounts[a]
    OBVIOUS
  <2>2. RecountOK(recount)
    BY <1>2, <2>1 DEF RecountsInv
  <2>3. RecountOK(recount)'
    BY <1>1, <1>2, <2>1, <2>2, RecountStays
  <2>. QED
    BY <1>2, <2>1, <2>3
<1>3. CASE UNCHANGED recounts /\ (inflight' = inflight \/ \E t \in Txs : \E tx : Submit(t, tx))
  BY <1>2, <1>3 DEF RecountsInv
<1>4. CASE /\ \/ Server
              \/ \E t \in Txs : ClientCall(t)
              \/ \E e \in Elections : TimePasses(e)
           /\ UNCHANGED recounts
  BY <1>3, <1>4, CallsSubmit
<1>5. ASSUME NEW a \in Auditors, NEW t \in Txs, NEW e \in Elections, AskRecount(a, t, e)
      PROVE  RecountsInv'
  <2>. DEFINE new == [step |-> "tally", election |-> e, tx |-> t, counts |-> Nil, counted |-> {}]
  <2>1. /\ ComputeVoteTally(t, e) /\ recounts[a] = Nil
        /\ recounts' = [recounts EXCEPT ![a] = new]
    BY <1>5 DEF AskRecount
  <2>2. \E tx : Submit(t, tx)
    BY <2>1 DEF ComputeVoteTally
  <2>3. RecountOK(new)'
    <3>1. AwaitsTally(new)'
      BY <2>1, TallyIsAwaited DEF IInv, AwaitsTally
    <3>2. worldState'[ElectionKey(e)] # Nil
      BY <2>1, KeysTyped DEF ComputeVoteTally, TallyReads, Read, Submit
    <3>. QED
      BY <3>1, <3>2 DEF RecountOK
  <2>4. DOMAIN recounts' = Auditors /\ recounts'[a] = new
    BY <2>1 DEF RecountsInv
  <2>5. ASSUME NEW b \in Auditors, b # a, recounts'[b] # Nil
        PROVE  RecountOK(recounts[b])' /\ recounts'[b] = recounts[b]
    <3>1. recounts'[b] = recounts[b]
      BY <2>1, <2>5 DEF RecountsInv
    <3>. QED
      BY <1>2, <2>2, <2>5, <3>1
  <2>. HIDE DEF new
  <2>. QED
    BY <2>3, <2>4, <2>5 DEF RecountsInv
<1>6. CASE \E a \in Auditors : EndRecount(a)
  <2>1. PICK a \in Auditors : EndRecount(a)
    BY <1>6
  <2>2. /\ recounts' = [recounts EXCEPT ![a] = Nil] /\ inflight' = inflight
        /\ DOMAIN recounts = Auditors
    BY <2>1 DEF EndRecount, faultFreeVars, systemVars, RecountsInv
  <2>3. \A b \in Auditors : recounts'[b] # Nil => recounts'[b] = recounts[b]
    BY <2>2
  <2>. QED
    BY <1>2, <2>2, <2>3 DEF RecountsInv
<1>7. ASSUME NEW t \in Txs, Witness(t), RecountAnswered(t)
      PROVE  RecountsInv'
  <2>1. Commit(t) /\ DOMAIN recounts' = Auditors
    BY <1>7 DEF Witness, SystemCommit, CommitTx, RecountAnswered
  <2>2. ASSUME NEW a \in Auditors, recounts[a] # Nil, recounts[a].tx = t
        PROVE  RecountOK(recounts[a])'
    <3>1. PICK recount : recount = recounts[a]
      OBVIOUS
    <3>. DEFINE new == [recount EXCEPT !.step = "compare", !.tx = Nil,
                                       !.counts = inflight[t].result.tallies,
                                       !.counted = {v \in VoteIds : Cast(v)}]
    <3>2. PICK answered : answered = new
      OBVIOUS
    <3>3. recounts'[a] = answered
      BY <1>7, <2>2, <3>1, <3>2 DEF RecountAnswered, WaitsFor
    <3>4. RecountOK(recount)
      BY <2>2, <3>1 DEF RecountsInv
    <3>5. RecountOK(answered)
      BY <2>1, <2>2, <3>1, <3>2, <3>4, RecountCommits
    <3>6. answered.step = "compare" /\ answered.tx = Nil
      BY <3>2, <3>4 DEF RecountOK
    <3>7. CountedThen(answered)
      BY <3>5, <3>6, NilIsNoPlace DEF RecountOK
    <3>. QED
      BY <1>1, <2>1, <3>3, <3>5, <3>6, NilIsNoPlace, RecountStays
  <2>3. ASSUME NEW a \in Auditors, recounts[a] # Nil, recounts[a].tx # t
        PROVE  RecountOK(recounts[a])' /\ recounts'[a] = recounts[a]
    BY <1>2, <1>7, <2>1, <2>3 DEF RecountAnswered, WaitsFor
  <2>4. \A a \in Auditors : recounts[a] = Nil => recounts'[a] = Nil
    BY <1>7 DEF RecountAnswered, WaitsFor
  <2>. QED
    BY <2>1, <2>2, <2>3, <2>4 DEF RecountsInv
<1>8. ASSUME NEW t \in Txs, DiscardTx(t), RecountRefused(t)
      PROVE  RecountsInv'
  <2>1. Discard(t) /\ DOMAIN recounts' = Auditors
    BY <1>8 DEF DiscardTx, RecountRefused
  <2>2. \A a \in Auditors : recounts'[a] # Nil =>
           recounts'[a] = recounts[a] /\ recounts[a].tx # t
    BY <1>8 DEF RecountRefused, WaitsFor
  <2>. QED
    BY <1>2, <2>1, <2>2 DEF RecountsInv
<1>9. CASE (Listen \/ Disconnect \/ HandlerFails) /\ UNCHANGED recounts
  BY <1>3, <1>9, ListenerSteps DEF Faults, ledgerVars
<1>10. CASE recounts' = [a \in Auditors |-> Nil]
  BY <1>10 DEF RecountsInv
<1>11. CASE UNCHANGED recountVars
  BY <1>3, <1>11 DEF recountVars, faultFreeVars, systemVars
<1>12. CASE RecountStep
  BY <1>6, <1>7, <1>8, <1>9, <1>10, <1>12 DEF RecountStep
<1>. QED
  BY <1>4, <1>5, <1>11, <1>12 DEF RecountNext

\* What a request finds when the listener has caught up.
LEMMA RecountsCompare ==
    ASSUME IInv, FaultFreeIInv, RecountsInv
    PROVE  DiscrepanciesAreNewVotes
<1>. SUFFICES ASSUME NEW a \in Auditors, recounts[a] # Nil, recounts[a].step = "compare", CaughtUp,
                     StatusOf(recounts[a].election) = "live"
              PROVE  LET e      == recounts[a].election
                         counts == recounts[a].counts
                         doc    == IF tallyDocs[e] = Nil THEN <<>> ELSE tallyDocs[e]
                     IN  /\ \A c \in DOMAIN counts :
                               Stored(doc, c) = counts[c] + Cardinality(NewVotes(a, e, c))
                         /\ Discrepancy(e, counts) <=>
                               \E c \in DOMAIN counts : NewVotes(a, e, c) # {}
  BY DEF DiscrepanciesAreNewVotes
<1>. DEFINE e       == recounts[a].election
            counts  == recounts[a].counts
            counted == recounts[a].counted
            names   == worldState[ElectionKey(e)].candidates
            doc     == IF tallyDocs[e] = Nil THEN <<>> ELSE tallyDocs[e]
            Votes(c) == VotesFor(worldState, e, c)
<1>1. /\ e \in Elections /\ worldState[ElectionKey(e)] # Nil /\ IsOpen(e)
      /\ counts = [c \in names |-> Cardinality(Votes(c) \cap counted)]
      /\ \A c : NewVotes(a, e, c) = Votes(c) \ counted
  <2>1. RecountOK(recounts[a])
    BY DEF RecountsInv
  <2>. QED
    BY <2>1 DEF RecountOK, CountedThen, IsOpen, NewVotes
<1>2. /\ names \subseteq Candidates
      /\ CountsAreExact /\ handler = Nil
      /\ \A c : MirroredFor(e, c) = Votes(c) /\ ~BeingCounted(e, c)
  BY <1>1, KeysTyped, DocumentsAreTheVotes
  DEF IInv, TypeOK, WellTyped, Election, FaultFreeIInv, CaughtUp, BeingCounted
<1>. DEFINE all(c)  == Cardinality(Votes(c))
            then(c) == Cardinality(Votes(c) \cap counted)
            late(c) == Cardinality(NewVotes(a, e, c))
<1>3. ASSUME NEW c
      PROVE  /\ all(c) \in Nat /\ then(c) \in Nat /\ late(c) \in Nat
             /\ all(c) = then(c) + late(c)
             /\ late(c) = 0 <=> NewVotes(a, e, c) = {}
  <2>1. IsFiniteSet(Votes(c))
    BY FiniteVotes, FS_Subset DEF VotesFor
  <2>2. IsFiniteSet(Votes(c) \cap counted)
    BY <2>1, FS_Subset
  <2>3. /\ IsFiniteSet(Votes(c) \ counted)
        /\ Cardinality(Votes(c) \ counted) = all(c) - then(c)
    BY <2>1, FS_Difference
  <2>4. NewVotes(a, e, c) = Votes(c) \ counted
    BY <1>1
  <2>5. all(c) \in Nat
    BY <2>1, FS_CardinalityType
  <2>6. then(c) \in Nat
    BY <2>2, FS_CardinalityType
  <2>7. late(c) \in Nat
    BY <2>3, <2>4, FS_CardinalityType
  <2>8. late(c) = 0 <=> NewVotes(a, e, c) = {}
    BY <2>3, <2>4, FS_EmptySet
  <2>9. late(c) = all(c) - then(c)
    BY <2>3, <2>4
  <2>. HIDE DEF all, then, late, e
  <2>. QED
    BY <2>5, <2>6, <2>7, <2>8, <2>9
<1>4. \A c \in names : Stored(doc, c) = all(c)
  <2>1. CASE tallyDocs[e] = Nil
    <3>1. \A c \in Candidates : all(c) = 0
      BY <1>1, <1>2, <2>1 DEF CountsAreExact, IsOpen
    <3>2. \A c : Stored(doc, c) = 0
      BY <2>1 DEF Stored
    <3>. QED
      BY <1>2, <3>1, <3>2
  <2>2. CASE tallyDocs[e] # Nil
    <3>1. /\ tallyDocs[e] \in [names -> Nat]
          /\ \A c \in DOMAIN tallyDocs[e] : tallyDocs[e][c] + 0 = all(c)
      BY <1>1, <1>2, <2>2 DEF CountsAreExact, IsOpen
    <3>2. \A c \in names : tallyDocs[e][c] = all(c)
      BY <3>1
    <3>. QED
      BY <2>2, <3>1, <3>2 DEF Stored
  <2>. QED
    BY <2>1, <2>2
<1>5. /\ DOMAIN counts = names
      /\ \A c \in names : counts[c] = then(c)
  BY <1>1
<1>6. tallyDocs[e] # Nil => tallyDocs[e] \in [names -> Nat] /\ doc = tallyDocs[e]
  BY <1>1, <1>2 DEF CountsAreExact, IsOpen
<1>7. tallyDocs[e] = Nil => \A c \in names : all(c) = 0
  BY <1>1, <1>2 DEF CountsAreExact, IsOpen
<1>8. counts = [c \in names |-> then(c)]
  BY <1>1
<1>. HIDE DEF all, then, late, names, Votes, counted, doc, counts, e
<1>9. \A c \in names : Stored(doc, c) = counts[c] + late(c)
  BY <1>3, <1>4, <1>5
<1>10. Discrepancy(e, counts) <=> \E c \in names : NewVotes(a, e, c) # {}
  <2>1. CASE tallyDocs[e] = Nil
    <3>1. \A c \in names : late(c) = 0
      BY <1>3, <1>7, <2>1
    <3>2. \A c \in names : NewVotes(a, e, c) = {}
      BY <1>3, <3>1
    <3>. QED
      BY <2>1, <3>2 DEF Discrepancy
  <2>2. CASE tallyDocs[e] # Nil
    <3>1. ASSUME NEW c \in names, NewVotes(a, e, c) # {} PROVE Discrepancy(e, counts)
      <4>1. then(c) \in Nat /\ late(c) \in Nat /\ late(c) # 0
        BY <1>3, <3>1
      <4>2. Stored(doc, c) = counts[c] + late(c) /\ counts[c] = then(c)
        BY <1>5, <1>9
      <4>3. Stored(doc, c) # counts[c]
        BY <4>1, <4>2
      <4>. QED
        BY <1>5, <1>6, <2>2, <4>3 DEF Discrepancy
    <3>2. ASSUME \A c \in names : NewVotes(a, e, c) = {} PROVE ~Discrepancy(e, counts)
      <4>1. \A c \in names : late(c) = 0 /\ then(c) \in Nat
        BY <1>3, <3>2
      <4>2. \A c \in names : Stored(doc, c) = counts[c]
        BY <1>5, <1>9, <4>1
      <4>3. \A c \in names : doc[c] = counts[c]
        BY <1>6, <2>2, <4>2 DEF Stored
      <4>4. doc = counts
        BY <1>5, <1>6, <1>8, <2>2, <4>3
      <4>. QED
        BY <1>5, <1>6, <2>2, <4>2, <4>4 DEF Discrepancy
    <3>. QED
      BY <3>1, <3>2
  <2>. QED
    BY <2>1, <2>2
<1>11. /\ \A c \in DOMAIN counts : Stored(doc, c) = counts[c] + Cardinality(NewVotes(a, e, c))
       /\ Discrepancy(e, counts) <=> \E c \in DOMAIN counts : NewVotes(a, e, c) # {}
  BY <1>5, <1>9, <1>10 DEF late
<1>. QED
  BY <1>11 DEF counts, doc, e

\* The inductive invariant of a server whose auditors recount.
THEOREM RecountInvariance ==
    NilIsNoTransaction /\ OneAtATime => (RecountSpec => []RecountIInv)
<1>. SUFFICES ASSUME NilIsNoTransaction, OneAtATime PROVE RecountSpec => []RecountIInv
  OBVIOUS
<1>1. recounts = [a \in Auditors |-> Nil] => RecountsInv
  BY DEF RecountsInv
<1>2. IInv /\ ServerTypeOK /\ RecountsInv /\ [RecountNext]_recountVars => RecountsInv'
  BY RecountsStay
<1>. QED
  BY <1>1, <1>2, RecountsAreFaultFree, FaultFreeIsSystem, SystemServerTypes,
     SystemImplementsContract, Invariance, FaultFreeInvariance, PTL
     DEF RecountSpec, RecountIInv

\* A recount of a live election that is compared with an up-to-date document reports
\* the votes cast since it was counted, and nothing else (audits.controller.ts:136-167).
THEOREM RecountsReportNewVotes ==
    NilIsNoTransaction /\ OneAtATime => (RecountSpec => []DiscrepanciesAreNewVotes)
<1>. SUFFICES ASSUME NilIsNoTransaction, OneAtATime
              PROVE  RecountSpec => []DiscrepanciesAreNewVotes
  OBVIOUS
<1>1. IInv /\ RecountIInv => DiscrepanciesAreNewVotes
  BY RecountsCompare DEF RecountIInv
<1>. QED
  BY <1>1, RecountInvariance, RecountsAreFaultFree, FaultFreeIsSystem,
     SystemImplementsContract, Invariance, PTL
=============================================================================
