------------------------- MODULE VotingSystem_proofs -------------------------
(***************************************************************************)
(* Theorems about VotingSystem, for every number of users, elections,      *)
(* votes, calls, transactions in flight and events under way.              *)
(***************************************************************************)
EXTENDS MirrorInvariant, ElectionScheduler_proofs, Ballot_proofs

(* Events *)

LEMMA VoteEvents ==
    ASSUME NEW event \in Event
    PROVE  event.name = "vote_cast" <=> event \in VoteEvent
BY DEF Event, VoteEvent

LEMMA VoteEventFields ==
    ASSUME NEW event \in VoteEvent
    PROVE  event \in Event /\ event.id \in VoteIds /\ event.vote \in Vote /\ event.vote # Nil
BY NilIsNoRecord DEF Event, VoteEvent

\* The parts of a transaction.
LEMMA TransactionParts ==
    ASSUME NEW reads, NEW writes, NEW event, NEW result
    PROVE  LET tx == Transaction(reads, writes, event, result)
           IN  tx.event = event /\ tx.writes = writes
BY DEF Transaction

\* An event that is not about a vote describes a transaction that writes none.
LEMMA OtherEvents ==
    ASSUME NEW reads, NEW writes, NEW event \in Event, NEW result,
           event.name # "vote_cast", \A v \in VoteIds : VoteKey(v) \notin DOMAIN writes
    PROVE  Describes(Transaction(reads, writes, event, result))
BY TransactionParts, VoteEvents DEF Describes

\* The keys of the other records are no vote keys.
LEMMA OtherKeys ==
    ASSUME NEW v, NEW x
    PROVE  /\ VoteKey(v) # ElectionKey(x) /\ VoteKey(v) # UserKey(x)
           /\ VoteKey(v) # TallyKey(x) /\ VoteKey(v) # FinalTallyKey(x)
           /\ VoteKey(v) # RevocationKey(x)
BY DEF VoteKey, ElectionKey, UserKey, TallyKey, FinalTallyKey, RevocationKey

LEMMA ElectionEvents ==
    ASSUME NEW e \in Elections,
           NEW name \in {"election_created", "tally_computed", "final_tally_computed"}
    PROVE  LET event == [name |-> name, election |-> e]
           IN  event \in Event /\ event.name # "vote_cast"
BY DEF Event

LEMMA ElectionCallDescribed ==
    ASSUME TypeOK, NEW t \in Txs, ElectionCall(t)
    PROVE  \E tx : Submit(t, tx) /\ Describes(tx)
<1>1. PICK e \in Elections :
        \/ \E candidates \in SUBSET Candidates, eligible \in SUBSET Governorates :
              CreateElection(t, e, candidates, eligible)
        \/ \E status \in Statuses : UpdateElectionStatus(t, e, status)
        \/ ComputeVoteTally(t, e)
        \/ ComputeFinalTally(t, e)
  BY DEF ElectionCall
<1>2. ASSUME NEW candidates, NEW eligible, CreateElection(t, e, candidates, eligible)
      PROVE  \E tx : Submit(t, tx) /\ Describes(tx)
  BY <1>2, OtherEvents, OtherKeys, ElectionEvents DEF CreateElection
<1>3. ASSUME NEW status \in Statuses, UpdateElectionStatus(t, e, status)
      PROVE  \E tx : Submit(t, tx) /\ Describes(tx)
  <2>. DEFINE reads == Read({ElectionKey(e)})
              old == reads[ElectionKey(e)]
              writes == [k \in {ElectionKey(e)} |-> [old EXCEPT !.status = status]]
              event == [name |-> "election_status_changed", election |-> e,
                        from |-> old.status, to |-> status]
  <2>1. old # Nil /\ Submit(t, Transaction(reads, writes, event, Nil))
    BY <1>3 DEF UpdateElectionStatus
  <2>2. old = worldState[ElectionKey(e)]
    BY DEF Read
  <2>3. \A v \in VoteIds : VoteKey(v) \notin DOMAIN writes
    BY OtherKeys
  <2>. HIDE DEF reads, writes
  <2>4. old \in Election
    BY <2>1, <2>2, KeysTyped DEF TypeOK, WellTyped
  <2>5. event \in Event /\ event.name # "vote_cast"
    BY <2>4 DEF Event, Election
  <2>. QED
    BY <2>1, <2>3, <2>5, OtherEvents
<1>4. ASSUME ComputeVoteTally(t, e)
      PROVE  \E tx : Submit(t, tx) /\ Describes(tx)
  BY <1>4, OtherEvents, OtherKeys, ElectionEvents DEF ComputeVoteTally
<1>5. ASSUME ComputeFinalTally(t, e)
      PROVE  \E tx : Submit(t, tx) /\ Describes(tx)
  BY <1>5, OtherEvents, OtherKeys, ElectionEvents DEF ComputeFinalTally
<1>. QED
  BY <1>1, <1>2, <1>3, <1>4, <1>5

LEMMA UserCallDescribed ==
    ASSUME TypeOK, NEW t \in Txs, UserCall(t)
    PROVE  \E tx : Submit(t, tx) /\ Describes(tx)
<1>1. PICK u \in Users :
        \/ \E g \in Governorates, role \in Roles : RegisterUser(t, u, g, role)
        \/ \E caller \in Users, status \in UserStatuses : UpdateUserStatus(t, caller, u, status)
        \/ \E v \in VoteIds, e \in Elections, c \in Candidates : CastVote(t, u, v, e, c)
  BY DEF UserCall
<1>2. ASSUME NEW g, NEW role, RegisterUser(t, u, g, role)
      PROVE  \E tx : Submit(t, tx) /\ Describes(tx)
  <2>1. LET event == [name |-> "user_registered", user |-> u]
        IN  event \in Event /\ event.name # "vote_cast"
    BY DEF Event
  <2>. QED
    BY <1>2, <2>1, OtherEvents, OtherKeys DEF RegisterUser
<1>3. ASSUME NEW caller \in Users, NEW status \in UserStatuses,
             UpdateUserStatus(t, caller, u, status)
      PROVE  \E tx : Submit(t, tx) /\ Describes(tx)
  <2>1. LET event == [name |-> "user_status_updated", userId |-> u, status |-> status,
                      updatedBy |-> caller]
        IN  event \in Event /\ event.name # "vote_cast"
    BY DEF Event
  <2>. QED
    BY <1>3, <2>1, OtherEvents, OtherKeys DEF UpdateUserStatus, StatusWrites
<1>4. ASSUME NEW v \in VoteIds, NEW e \in Elections, NEW c \in Candidates,
             CastVote(t, u, v, e, c)
      PROVE  \E tx : Submit(t, tx) /\ Describes(tx)
  <2>. DEFINE reads == CastVoteReads(u, e)
              vote == [voter |-> u, election |-> e, candidate |-> c]
              user == MarkVoted(reads[UserKey(u)], e)
              writes == [k \in {VoteKey(v), UserKey(u)} |-> IF k = VoteKey(v) THEN vote ELSE user]
              event == [name |-> "vote_cast", id |-> v, vote |-> vote]
  <2>1. Submit(t, Transaction(reads, writes, event, Nil))
    BY <1>4 DEF CastVote
  <2>2. event \in VoteEvent /\ event.id = v /\ event.vote = vote
    BY DEF VoteEvent, Vote
  <2>. HIDE DEF reads, user, vote
  <2>3. /\ VoteKey(v) \in DOMAIN writes /\ writes[VoteKey(v)] = vote
        /\ \A w \in VoteIds : VoteKey(w) \in DOMAIN writes => w = v
    BY OtherKeys DEF VoteKey
  <2>. HIDE DEF event, writes
  <2>4. Describes(Transaction(reads, writes, event, Nil))
    BY <2>2, <2>3, VoteEventFields, TransactionParts DEF Describes
  <2>. QED
    BY <2>1, <2>4
<1>. QED
  BY <1>1, <1>2, <1>3, <1>4

\* What a transaction in flight describes stays when another one commits.
LEMMA CommitKeepsEvents ==
    ASSUME TypeOK, NEW t \in Txs, Commit(t), NEW s \in Txs, Pending(s)'
    PROVE  s # t /\ Pending(s) /\ inflight'[s].event = inflight[s].event
           /\ inflight'[s].writes = inflight[s].writes
<1>. DEFINE stale == inflight[s].stale \/
                     DOMAIN inflight[s].reads \cap DOMAIN inflight[t].writes # {}
<1>1. s # t /\ Pending(s) /\ inflight'[s].writes = inflight[s].writes
  BY CommitFacts
<1>2. DOMAIN inflight[s] = {"reads", "writes", "event", "result", "stale"}
  BY <1>1 DEF TypeOK, WellFormed
<1>3. inflight' = AfterCommit(t, DOMAIN inflight[t].writes)
  BY DEF Commit
<1>4. inflight'[s] = [inflight[s] EXCEPT !.stale = stale]
  BY <1>1, <1>3 DEF AfterCommit
<1>. HIDE DEF stale
<1>5. inflight'[s].event = inflight[s].event
  BY <1>2, <1>4
<1>. QED
  BY <1>1, <1>5

LEMMA EventsStay ==
    ASSUME TypeOK, EventsDescribeWrites, [Next]_ledgerVars
    PROVE  EventsDescribeWrites'
<1>1. CASE UNCHANGED ledgerVars
  BY <1>1 DEF ledgerVars, EventsDescribeWrites, Pending, Describes
<1>2. ASSUME NEW t \in Txs, NEW tx, Submit(t, tx), Describes(tx)
      PROVE  EventsDescribeWrites'
  <2>1. inflight'[t] = tx /\ \A s \in Txs \ {t} : inflight'[s] = inflight[s]
    BY <1>2 DEF Submit, TypeOK
  <2>2. ASSUME NEW s \in Txs, Pending(s)' PROVE Describes(inflight'[s])
    BY <1>2, <2>1, <2>2 DEF EventsDescribeWrites, Pending
  <2>. QED
    BY <2>2 DEF EventsDescribeWrites, Describes
<1>3. ASSUME NEW t \in Txs, Commit(t) PROVE EventsDescribeWrites'
  <2>1. ASSUME NEW s \in Txs, Pending(s)' PROVE Describes(inflight'[s])
    <3>1. /\ Pending(s) /\ inflight'[s].event = inflight[s].event
          /\ inflight'[s].writes = inflight[s].writes
      BY <1>3, <2>1, CommitKeepsEvents
    <3>. QED
      BY <3>1 DEF EventsDescribeWrites, Describes
  <2>. QED
    BY <2>1 DEF EventsDescribeWrites, Describes
<1>4. ASSUME NEW t \in Txs, Discard(t) PROVE EventsDescribeWrites'
  <2>1. inflight'[t] = Nil /\ \A s \in Txs \ {t} : inflight'[s] = inflight[s]
    BY <1>4 DEF Discard, TypeOK
  <2>. QED
    BY <2>1 DEF EventsDescribeWrites, Pending, Describes
<1>. QED
  BY <1>1, <1>2, <1>3, <1>4, ElectionCallDescribed, UserCallDescribed DEF Next

-----------------------------------------------------------------------------
(* The invariant *)

\* What was committed of a vote stays.
LEMMA CommittedStays ==
    ASSUME IInv, [Next]_ledgerVars
    PROVE  /\ \A event : OfCommitted(event) => OfCommitted(event)'
           /\ \A v \in VoteIds : Cast(v) => Cast(v)' /\ worldState'[VoteKey(v)] = worldState[VoteKey(v)]
<1>1. \A v \in VoteIds : Cast(v) => worldState'[VoteKey(v)] = worldState[VoteKey(v)]
  BY VotesStayStep
<1>2. \A v \in VoteIds : Cast(v) => Cast(v)' /\ worldState'[VoteKey(v)] = worldState[VoteKey(v)]
  BY <1>1 DEF Cast
<1>3. ASSUME NEW event, OfCommitted(event) PROVE OfCommitted(event)'
  BY <1>2, <1>3, VoteEventFields DEF OfCommitted
<1>. QED
  BY <1>2, <1>3

\* A step that leaves the documents, the audits and the handler alone.
LEMMA DocumentsStay ==
    ASSUME IInv, MirrorIInv, [Next]_ledgerVars, UNCHANGED <<voteDocs, handler, audits>>
    PROVE  /\ voteDocs' \in [VoteIds -> Vote \cup {Nil}]
           /\ MirroredVotesAreCommitted' /\ HandlerIsBacked' /\ AuditsAreBacked'
<1>1. \A event : OfCommitted(event) => OfCommitted(event)'
  BY CommittedStays
<1>2. \A event : HasDocument(event) => HasDocument(event)'
  BY DEF HasDocument
<1>3. MirroredVotesAreCommitted'
  BY CommittedStays DEF MirrorIInv, MirroredVotesAreCommitted
<1>4. HandlerIsBacked'
  <2>. SUFFICES ASSUME handler # Nil PROVE HandlerIsBacked'
    BY DEF HandlerIsBacked
  <2>1. PICK event : event = handler.event
    OBVIOUS
  <2>2. /\ OfCommitted(event)
        /\ handler.step # "vote" => HasDocument(event)
    BY <2>1 DEF MirrorIInv, HandlerIsBacked
  <2>3. OfCommitted(event)' /\ (handler.step # "vote" => HasDocument(event)')
    BY <1>1, <1>2, <2>2
  <2>4. OfCommitted(handler.event)' /\ (handler.step # "vote" => HasDocument(handler.event))'
    BY <2>1, <2>3 DEF OfCommitted, HasDocument
  <2>. QED
    BY <2>4 DEF MirrorIInv, HandlerIsBacked
<1>5. AuditsAreBacked'
  BY <1>1, <1>2 DEF MirrorIInv, AuditsAreBacked
<1>. QED
  BY <1>3, <1>4, <1>5 DEF MirrorIInv

LEMMA StreamStays ==
    ASSUME IInv, StreamIsCommitted, [Next]_ledgerVars, UNCHANGED stream
    PROVE  StreamIsCommitted'
<1>1. ASSUME NEW i \in 1..Len(stream) PROVE OfCommitted(stream[i])'
  <2>1. PICK event : event = stream[i]
    OBVIOUS
  <2>2. OfCommitted(event)'
    BY <2>1, CommittedStays DEF StreamIsCommitted
  <2>. QED
    BY <2>1, <2>2 DEF OfCommitted
<1>. QED
  BY <1>1 DEF StreamIsCommitted

LEMMA EmptyStream ==
    ASSUME stream' = <<>>
    PROVE  StreamIsCommitted'
BY DEF StreamIsCommitted

\* An event is sent when what it describes has just been committed.
LEMMA CommitMirror ==
    ASSUME IInv, MirrorIInv, NEW t \in Txs, SystemCommit(t)
    PROVE  MirrorIInv'
<1>1. Commit(t) /\ UNCHANGED <<voteDocs, handler, audits>>
  BY DEF SystemCommit, CommitTx
<1>2. Next
  BY <1>1 DEF Next
<1>3. EventsDescribeWrites'
  BY <1>2, EventsStay DEF IInv, MirrorIInv
<1>4. PICK event : event = inflight[t].event
  OBVIOUS
<1>5. event \in Event /\ OfCommitted(event)'
  <2>1. /\ event \in Event
        /\ event \in VoteEvent =>
             /\ VoteKey(event.id) \in DOMAIN inflight[t].writes
             /\ inflight[t].writes[VoteKey(event.id)] = event.vote
    BY <1>1, <1>4 DEF MirrorIInv, EventsDescribeWrites, Describes, Commit
  <2>2. ASSUME event \in VoteEvent
        PROVE  worldState'[VoteKey(event.id)] = event.vote /\ event.vote # Nil
    BY <1>1, <2>1, <2>2, VoteEventFields, KeysTyped, CommitFacts DEF IInv
  <2>. QED
    BY <2>1, <2>2 DEF OfCommitted, Cast
<1>6. StreamIsCommitted'
  <2>1. CASE stream' = stream
    BY <1>2, <2>1, StreamStays DEF MirrorIInv
  <2>2. CASE stream' = Append(stream, event)
    <3>1. stream \in Seq(Event) /\ \A i \in 1..Len(stream) : OfCommitted(stream[i])
      BY DEF MirrorIInv, StreamIsCommitted
    <3>2. /\ stream' \in Seq(Event) /\ Len(stream') = Len(stream) + 1
          /\ \A i \in 1..Len(stream) : stream'[i] = stream[i]
          /\ stream'[Len(stream) + 1] = event
      BY <1>5, <2>2, <3>1
    <3>3. ASSUME NEW i \in 1..Len(stream') PROVE OfCommitted(stream[i])'
      <4>1. PICK new : new = stream'[i]
        OBVIOUS
      <4>2. OfCommitted(new)'
        BY <1>2, <1>5, <3>1, <3>2, <4>1, CommittedStays
      <4>. QED
        BY <4>1, <4>2 DEF OfCommitted
    <3>. QED
      BY <3>2, <3>3 DEF StreamIsCommitted
  <2>. QED
    BY <1>4, <2>1, <2>2 DEF SystemCommit
<1>. QED
  BY <1>1, <1>2, <1>3, <1>6, DocumentsStay DEF MirrorIInv

LEMMA ReceiveMirror ==
    ASSUME IInv, MirrorIInv, Receive
    PROVE  MirrorIInv'
<1>1. UNCHANGED ledgerVars /\ UNCHANGED <<voteDocs, audits>>
  BY DEF Receive, schedulerVars, ledgerVars
<1>2. /\ stream \in Seq(Event) /\ stream # <<>> /\ stream' = Tail(stream)
      /\ \A i \in 1..Len(stream) : OfCommitted(stream[i])
  BY DEF Receive, MirrorIInv, StreamIsCommitted
<1>3. EventsDescribeWrites'
  BY <1>1, EventsStay DEF IInv, MirrorIInv
<1>4. \A event : OfCommitted(event) => OfCommitted(event)'
  BY <1>1, CommittedStays
<1>5. StreamIsCommitted'
  <2>1. /\ stream' \in Seq(Event) /\ Len(stream') = Len(stream) - 1
        /\ \A i \in 1..Len(stream') : stream'[i] = stream[i + 1] /\ i + 1 \in 1..Len(stream)
    BY <1>2
  <2>2. ASSUME NEW i \in 1..Len(stream') PROVE OfCommitted(stream[i])'
    <3>1. PICK event : event = stream'[i]
      OBVIOUS
    <3>2. OfCommitted(event)'
      BY <1>2, <1>4, <2>1, <3>1
    <3>. QED
      BY <3>1, <3>2 DEF OfCommitted
  <2>. QED
    BY <2>1, <2>2 DEF StreamIsCommitted
<1>6. HandlerIsBacked'
  <2>. SUFFICES ASSUME handler' # Nil PROVE HandlerIsBacked'
    BY DEF HandlerIsBacked
  <2>1. PICK event : event = Head(stream)
    OBVIOUS
  <2>2. event \in Event /\ OfCommitted(event)
    <3>1. event = stream[1] /\ 1 \in 1..Len(stream)
      BY <1>2, <2>1
    <3>. QED
      BY <1>2, <3>1
  <2>3. handler' = [event |-> event, step |-> IF event.name = "vote_cast" THEN "vote" ELSE "audit"]
    BY <2>1 DEF Receive
  <2>4. event.name = "vote_cast" <=> event \in VoteEvent
    BY <2>2, VoteEvents
  <2>5. /\ handler' \in [event : Event, step : {"vote", "tally", "create", "audit"}]
        /\ handler'.event = event
        /\ handler'.step = IF event \in VoteEvent THEN "vote" ELSE "audit"
    BY <2>2, <2>3, <2>4
  <2>6. OfCommitted(event)' /\ (event \notin VoteEvent => HasDocument(event)')
    BY <1>4, <2>2 DEF HasDocument
  <2>. QED
    BY <2>5, <2>6 DEF HandlerIsBacked, OfCommitted, HasDocument
<1>7. MirroredVotesAreCommitted' /\ AuditsAreBacked'
  BY <1>1 DEF MirrorIInv, MirroredVotesAreCommitted, AuditsAreBacked, OfCommitted, HasDocument,
              Cast, ledgerVars
<1>. QED
  BY <1>1, <1>3, <1>5, <1>6, <1>7 DEF MirrorIInv

\* The other awaits of a handler: the ledger and the stream stay.
LEMMA CreateVoteMirror ==
    ASSUME IInv, MirrorIInv, CreateVote
    PROVE  MirrorIInv'
<1>1. /\ UNCHANGED ledgerVars /\ UNCHANGED <<stream, audits>>
      /\ handler # Nil /\ handler.step = "vote"
  BY DEF CreateVote, Handling, schedulerVars, ledgerVars
<1>2. EventsDescribeWrites' /\ StreamIsCommitted'
  BY <1>1, EventsStay, StreamStays DEF IInv, MirrorIInv
<1>3. PICK event : event = handler.event
  OBVIOUS
<1>4. /\ handler \in [event : Event, step : {"vote", "tally", "create", "audit"}]
      /\ event \in VoteEvent /\ OfCommitted(event)
  BY <1>1, <1>3 DEF MirrorIInv, HandlerIsBacked
<1>5. /\ event.id \in VoteIds /\ event.vote \in Vote /\ event.vote # Nil
      /\ Cast(event.id) /\ worldState[VoteKey(event.id)] = event.vote
  BY <1>4, VoteEventFields DEF OfCommitted
<1>6. CASE voteDocs[event.id] = Nil
  <2>1. /\ voteDocs' = [voteDocs EXCEPT ![event.id] = event.vote]
        /\ handler' = [handler EXCEPT !.step = "tally"]
    BY <1>3, <1>6 DEF CreateVote
  <2>2. /\ voteDocs' \in [VoteIds -> Vote \cup {Nil}]
        /\ voteDocs'[event.id] = event.vote
        /\ \A v \in VoteIds : voteDocs[v] # Nil => voteDocs'[v] = voteDocs[v]
        /\ \A v \in VoteIds \ {event.id} : voteDocs'[v] = voteDocs[v]
    BY <1>5, <1>6, <2>1 DEF MirrorIInv
  <2>3. MirroredVotesAreCommitted'
    BY <1>1, <1>5, <2>2 DEF MirrorIInv, MirroredVotesAreCommitted, Cast, ledgerVars
  <2>4. /\ handler' \in [event : Event, step : {"vote", "tally", "create", "audit"}]
        /\ handler'.event = event /\ handler'.step = "tally"
    BY <1>3, <1>4, <2>1
  <2>5. HandlerIsBacked'
    BY <1>1, <1>4, <2>2, <2>4 DEF HandlerIsBacked, OfCommitted, HasDocument, Cast, ledgerVars
  <2>6. AuditsAreBacked'
    <3>1. ASSUME NEW a \in audits PROVE OfCommitted(a)' /\ HasDocument(a)'
      <4>1. OfCommitted(a) /\ HasDocument(a)
        BY DEF MirrorIInv, AuditsAreBacked
      <4>. QED
        BY <1>1, <2>2, <4>1, VoteEventFields DEF OfCommitted, HasDocument, Cast, ledgerVars
    <3>. QED
      BY <1>1, <3>1 DEF MirrorIInv, AuditsAreBacked
  <2>. QED
    BY <1>2, <2>2, <2>3, <2>5, <2>6 DEF MirrorIInv
<1>7. CASE voteDocs[event.id] # Nil
  <2>1. handler' = Nil /\ UNCHANGED voteDocs
    BY <1>3, <1>7 DEF CreateVote
  <2>. QED
    BY <1>1, <1>2, <2>1 DEF MirrorIInv, MirroredVotesAreCommitted, HandlerIsBacked,
       AuditsAreBacked, OfCommitted, HasDocument, Cast, ledgerVars
<1>. QED
  BY <1>6, <1>7

\* A handler that goes on, or ends, without a change of the vote documents.
LEMMA HandlerMoves ==
    ASSUME IInv, MirrorIInv, handler # Nil, UNCHANGED <<ledgerVars, stream, voteDocs>>,
           \/ handler' = Nil
           \/ /\ handler.step \in {"tally", "create"}
              /\ \E step \in {"create", "audit"} : handler' = [handler EXCEPT !.step = step],
           \/ audits' = audits
           \/ handler.step # "vote" /\ audits' = audits \cup {handler.event}
    PROVE  MirrorIInv'
<1>1. UNCHANGED ledgerVars
  OBVIOUS
<1>2. EventsDescribeWrites' /\ StreamIsCommitted'
  BY EventsStay, StreamStays DEF IInv, MirrorIInv
<1>3. MirroredVotesAreCommitted'
  BY DEF MirrorIInv, MirroredVotesAreCommitted, Cast, ledgerVars
<1>4. PICK event : event = handler.event
  OBVIOUS
<1>5. /\ handler \in [event : Event, step : {"vote", "tally", "create", "audit"}]
      /\ event \in Event /\ OfCommitted(event)
      /\ handler.step # "audit" => event \in VoteEvent
      /\ handler.step # "vote" => HasDocument(event)
  BY <1>4 DEF MirrorIInv, HandlerIsBacked
<1>6. HandlerIsBacked'
  <2>. SUFFICES ASSUME handler' # Nil PROVE HandlerIsBacked'
    BY DEF HandlerIsBacked
  <2>1. PICK step \in {"create", "audit"} : handler' = [handler EXCEPT !.step = step]
    OBVIOUS
  <2>2. /\ handler' \in [event : Event, step : {"vote", "tally", "create", "audit"}]
        /\ handler'.event = event /\ handler'.step = step
    BY <1>4, <1>5, <2>1
  <2>3. event \in VoteEvent /\ HasDocument(event) /\ OfCommitted(event)
    BY <1>5
  <2>. QED
    BY <2>2, <2>3 DEF HandlerIsBacked, OfCommitted, HasDocument, Cast, ledgerVars
<1>7. AuditsAreBacked'
  <2>1. \A a \in audits' : a \in Event /\ OfCommitted(a) /\ HasDocument(a)
    BY <1>4, <1>5 DEF MirrorIInv, AuditsAreBacked
  <2>. QED
    BY <2>1 DEF AuditsAreBacked, OfCommitted, HasDocument, Cast, ledgerVars
<1>. QED
  BY <1>2, <1>3, <1>6, <1>7 DEF MirrorIInv

\* The other awaits of handleVoteCast and of the audit.
LEMMA OtherAwaitsMirror ==
    ASSUME IInv, MirrorIInv, IncrementTally \/ CreateTally \/ CreateAudit \/ HandlerFails
    PROVE  MirrorIInv'
<1>1. CASE IncrementTally
  <2>1. handler # Nil /\ handler.step = "tally"
    BY <1>1 DEF IncrementTally, Handling
  <2>2. \E step \in {"create", "audit"} : handler' = [handler EXCEPT !.step = step]
    BY <1>1 DEF IncrementTally
  <2>3. UNCHANGED <<ledgerVars, stream, voteDocs>> /\ audits' = audits
    BY <1>1 DEF IncrementTally, ledgerVars
  <2>. QED
    BY <2>1, <2>2, <2>3, HandlerMoves
<1>2. CASE CreateTally
  <2>1. handler # Nil /\ handler.step = "create"
    BY <1>2 DEF CreateTally, Handling
  <2>2. \E step \in {"create", "audit"} : handler' = [handler EXCEPT !.step = step]
    BY <1>2 DEF CreateTally
  <2>3. UNCHANGED <<ledgerVars, stream, voteDocs>> /\ audits' = audits
    BY <1>2 DEF CreateTally, ledgerVars
  <2>. QED
    BY <2>1, <2>2, <2>3, HandlerMoves
<1>3. CASE CreateAudit
  <2>1. handler # Nil /\ handler.step # "vote" /\ handler' = Nil
    BY <1>3 DEF CreateAudit, Handling
  <2>2. UNCHANGED <<ledgerVars, stream, voteDocs>> /\ audits' = audits \cup {handler.event}
    BY <1>3 DEF CreateAudit, schedulerVars, ledgerVars
  <2>. QED
    BY <2>1, <2>2, HandlerMoves
<1>4. CASE HandlerFails
  <2>1. handler # Nil
    BY <1>4 DEF HandlerFails, AfterError
  <2>2. \/ handler' = Nil
        \/ /\ handler.step \in {"tally", "create"}
           /\ \E step \in {"create", "audit"} : handler' = [handler EXCEPT !.step = step]
    BY <1>4 DEF HandlerFails, AfterError
  <2>3. UNCHANGED <<ledgerVars, stream, voteDocs>> /\ audits' = audits
    BY <1>4 DEF HandlerFails, AfterError, schedulerVars, ledgerVars
  <2>. QED
    BY <2>1, <2>2, <2>3, HandlerMoves
<1>. QED
  BY <1>1, <1>2, <1>3, <1>4

\* A step that leaves the listener alone, or in which it loses its stream and its handler.
LEMMA OtherStepsMirror ==
    ASSUME IInv, MirrorIInv, [Next]_ledgerVars, UNCHANGED <<voteDocs, audits>>,
           stream' = stream \/ stream' = <<>>,
           handler' = handler \/ handler' = Nil
    PROVE  MirrorIInv'
<1>1. EventsDescribeWrites' /\ StreamIsCommitted'
  BY EventsStay, StreamStays, EmptyStream DEF IInv, MirrorIInv
<1>2. CASE handler' = handler
  BY <1>1, <1>2, DocumentsStay DEF MirrorIInv
<1>3. CASE handler' = Nil
  <2>1. MirroredVotesAreCommitted'
    BY CommittedStays DEF MirrorIInv, MirroredVotesAreCommitted
  <2>2. \A a \in audits : OfCommitted(a)' /\ HasDocument(a)'
    BY CommittedStays DEF MirrorIInv, AuditsAreBacked, HasDocument
  <2>3. AuditsAreBacked'
    BY <2>2 DEF MirrorIInv, AuditsAreBacked
  <2>. QED
    BY <1>1, <1>3, <2>1, <2>3 DEF MirrorIInv, HandlerIsBacked
<1>. QED
  BY <1>2, <1>3

-----------------------------------------------------------------------------
(* The steps of the server *)

\* The listener and a restart leave the ledger alone.
LEMMA ListenerSteps ==
    ASSUME Listen \/ Faults
    PROVE  /\ UNCHANGED ledgerVars /\ UNCHANGED <<started, over>>
           /\ \/ UNCHANGED serverVars
              \/ ticks' = [p \in Ticks |-> Nil] /\ requests' = [r \in Requests |-> Nil]
<1>1. CASE Listen
  BY <1>1 DEF Listen, Connect, Receive, CreateVote, IncrementTally, CreateTally, CreateAudit,
              schedulerVars, serverVars, ledgerVars
<1>2. CASE Faults
  BY <1>2 DEF Faults, Disconnect, HandlerFails, AfterError, Restart, schedulerVars, serverVars, ledgerVars
<1>. QED
  BY <1>1, <1>2

\* Every other step is one of the scheduler's.
LEMMA SchedulerParts ==
    ASSUME SystemNext
    PROVE  \/ SchedulerNext /\ UNCHANGED listenerVars
           \/ \E t \in Txs : SystemCommit(t) /\ SchedulerNext
           \/ Listen
           \/ Faults
BY DEF SystemNext, SystemCommit, SchedulerNext

LEMMA SystemSteps ==
    ASSUME ServerTypeOK, [SystemNext]_systemVars
    PROVE  [Next]_ledgerVars /\ ServerTypeOK'
<1>1. CASE UNCHANGED systemVars
  BY <1>1 DEF systemVars, ledgerVars, ServerTypeOK
<1>2. CASE SchedulerNext
  BY <1>2, SchedulerSteps, ServerTypesStay
<1>3. CASE Listen \/ Faults
  BY <1>3, ListenerSteps DEF ServerTypeOK, serverVars
<1>. QED
  BY <1>1, <1>2, <1>3, SchedulerParts

LEMMA MirrorStays ==
    ASSUME IInv, ServerTypeOK, MirrorIInv, [SystemNext]_systemVars
    PROVE  MirrorIInv'
<1>1. [Next]_ledgerVars
  BY SystemSteps
<1>2. CASE UNCHANGED systemVars \/ UNCHANGED listenerVars
  BY <1>1, <1>2, OtherStepsMirror DEF systemVars, listenerVars
<1>3. CASE \E t \in Txs : SystemCommit(t)
  BY <1>3, CommitMirror
<1>4. CASE Connect \/ Disconnect \/ Restart
  BY <1>1, <1>4, OtherStepsMirror DEF Connect, Disconnect, Restart
<1>5. CASE Receive
  BY <1>5, ReceiveMirror
<1>6. CASE CreateVote
  BY <1>6, CreateVoteMirror
<1>7. CASE IncrementTally \/ CreateTally \/ CreateAudit \/ HandlerFails
  BY <1>7, OtherAwaitsMirror
<1>. QED
  BY <1>2, <1>3, <1>4, <1>5, <1>6, <1>7, SchedulerParts DEF Listen, Faults

LEMMA InitMirror == SystemInit => MirrorIInv
BY DEF SystemInit, SchedulerInit, Init, MirrorIInv, MirroredVotesAreCommitted,
       EventsDescribeWrites, Pending, StreamIsCommitted, HandlerIsBacked, AuditsAreBacked

LEMMA SystemServerTypes == SystemSpec => []ServerTypeOK
<1>1. SystemInit => ServerTypeOK
  BY InitServerTypes DEF SystemInit
<1>2. ServerTypeOK /\ [SystemNext]_systemVars => ServerTypeOK'
  BY SystemSteps
<1>. QED
  BY <1>1, <1>2, PTL DEF SystemSpec

-----------------------------------------------------------------------------
(* Shapes *)

LEMMA CallsBeside ==
    ASSUME NilIsNoTransaction, TypeOK, CallsTypeOK, [SystemNext]_systemVars
    PROVE  CallsTypeOK'
<1>1. CASE SchedulerNext
  BY <1>1, CallsTypesStay
<1>2. CASE UNCHANGED <<worldState, inflight, started, over, ticks, requests>>
  BY <1>2 DEF CallsTypeOK, ServerTypeOK
<1>3. CASE Listen \/ Faults
  <2>1. UNCHANGED <<inflight, started, over>>
    BY <1>3, ListenerSteps DEF ledgerVars
  <2>2. CASE UNCHANGED serverVars
    BY <2>1, <2>2 DEF CallsTypeOK, ServerTypeOK, serverVars
  <2>3. CASE ticks' = [p \in Ticks |-> Nil] /\ requests' = [r \in Requests |-> Nil]
    BY <2>1, <2>3 DEF CallsTypeOK, ServerTypeOK
  <2>. QED
    BY <1>3, <2>2, <2>3, ListenerSteps
<1>. QED
  BY <1>1, <1>2, <1>3, SchedulerParts DEF systemVars

\* Every count in the documents is a number.
LEMMA DocumentsTyped ==
    ASSUME SystemTypeOK, MirrorIInv, CallsTypeOK, [SystemNext]_systemVars
    PROVE  /\ DOMAIN tallyDocs' = Elections
           /\ \A e \in Elections : tallyDocs'[e] # Nil =>
                 \A c \in DOMAIN tallyDocs'[e] : tallyDocs'[e][c] \in Nat
<1>1. CASE UNCHANGED tallyDocs
  BY <1>1 DEF SystemTypeOK
<1>2. ASSUME NEW p \in Ticks, TickSaves(p)
      PROVE  /\ DOMAIN tallyDocs' = Elections
             /\ \A e \in Elections : tallyDocs'[e] # Nil =>
                   \A c \in DOMAIN tallyDocs'[e] : tallyDocs'[e][c] \in Nat
  <2>1. ticks[p].tally \in Tallies
    BY <1>2 DEF TickSaves, CallsTypeOK
  <2>2. \A c \in DOMAIN ticks[p].tally : ticks[p].tally[c] \in Nat
    BY <2>1 DEF Tallies
  <2>. QED
    BY <1>2, <2>2 DEF TickSaves, SystemTypeOK
<1>3. CASE IncrementTally
  <2>. DEFINE f == handler.event.vote.election
              d == handler.event.vote.candidate
  <2>1. \/ tallyDocs' = tallyDocs
        \/ /\ tallyDocs[f] # Nil
           /\ tallyDocs' = [tallyDocs EXCEPT ![f] = Incremented(tallyDocs[f], d)]
    BY <1>3 DEF IncrementTally
  <2>. HIDE DEF f, d
  <2>. QED
    BY <2>1 DEF SystemTypeOK, Incremented
<1>4. CASE CreateTally
  <2>. DEFINE f == handler.event.vote.election
              d == handler.event.vote.candidate
  <2>1. \/ tallyDocs' = tallyDocs
        \/ \E names : tallyDocs' = [tallyDocs EXCEPT ![f] =
                                       [c \in names |-> IF c = d THEN 1 ELSE 0]]
    BY <1>4 DEF CreateTally
  <2>. HIDE DEF f, d
  <2>. QED
    BY <2>1 DEF SystemTypeOK
<1>5. CASE (\E t \in Txs : SystemCommit(t)) \/ UNCHANGED systemVars
  BY <1>1, <1>5 DEF SystemCommit, CommitTx, systemVars
<1>6. CASE Connect \/ Receive \/ CreateVote \/ CreateAudit \/ Faults
  BY <1>1, <1>6 DEF Connect, Receive, CreateVote, CreateAudit, Faults, Disconnect,
                    HandlerFails, AfterError, Restart, schedulerVars
<1>. QED
  BY <1>1, <1>2, <1>3, <1>4, <1>5, <1>6, SchedulerParts, DocumentSteps DEF Listen

\* The handler works on an event that has one, and counts votes only.
LEMMA HandlerTyped ==
    ASSUME SystemTypeOK, MirrorIInv, [SystemNext]_systemVars, handler' # Nil
    PROVE  /\ handler'.event.name \in Audited
           /\ handler'.step \in {"vote", "tally", "create", "audit"}
           /\ handler'.step # "audit" => handler'.event.name = "vote_cast"
<1>1. CASE handler' = handler
  BY <1>1 DEF SystemTypeOK
<1>2. CASE Receive
  BY <1>2 DEF Receive
<1>3. ASSUME handler # Nil,
             \E step \in {"tally", "create", "audit"} :
                /\ handler' = [handler EXCEPT !.step = step]
                /\ step # "audit" => handler.step # "audit"
      PROVE  /\ handler'.event.name \in Audited
             /\ handler'.step \in {"vote", "tally", "create", "audit"}
             /\ handler'.step # "audit" => handler'.event.name = "vote_cast"
  <2>1. handler \in [event : Event, step : {"vote", "tally", "create", "audit"}]
    BY <1>3 DEF MirrorIInv, HandlerIsBacked
  <2>. QED
    BY <1>3, <2>1 DEF SystemTypeOK
<1>4. CASE CreateVote \/ IncrementTally \/ CreateTally \/ HandlerFails
  <2>1. CASE CreateVote
    BY <1>3, <2>1 DEF CreateVote, Handling
  <2>2. CASE IncrementTally \/ CreateTally
    <3>1. /\ handler # Nil /\ handler.step # "audit"
          /\ \/ handler' = [handler EXCEPT !.step = "audit"]
             \/ handler' = [handler EXCEPT !.step = "create"]
      BY <2>2 DEF IncrementTally, CreateTally, Handling
    <3>. QED
      BY <1>3, <3>1
  <2>3. CASE HandlerFails
    BY <1>3, <2>3 DEF HandlerFails, AfterError
  <2>. QED
    BY <1>4, <2>1, <2>2, <2>3
<1>5. CASE (\E t \in Txs : SystemCommit(t)) \/ UNCHANGED listenerVars \/ UNCHANGED systemVars
  BY <1>1, <1>5 DEF SystemCommit, listenerVars, systemVars
<1>6. CASE Connect \/ CreateAudit \/ Disconnect \/ Restart
  BY <1>1, <1>6 DEF Connect, CreateAudit, Disconnect, Restart
<1>. QED
  BY <1>2, <1>4, <1>5, <1>6, SchedulerParts DEF Listen, Faults

\* Without a connection nothing is under way to the listener.
LEMMA StreamTyped ==
    ASSUME SystemTypeOK, StreamIsCommitted, [SystemNext]_systemVars
    PROVE  /\ connected' \in BOOLEAN /\ (~connected' => stream' = <<>>)
           /\ Len(stream') <= StreamBound
<1>. stream \in Seq(Event) /\ Len(stream) \in Nat
  BY DEF StreamIsCommitted
<1>1. CASE UNCHANGED <<connected, stream>>
  BY <1>1 DEF SystemTypeOK
<1>2. ASSUME NEW t \in Txs, SystemCommit(t)
      PROVE  /\ connected' \in BOOLEAN /\ (~connected' => stream' = <<>>)
             /\ Len(stream') <= StreamBound
  <2>1. PICK event : event = inflight[t].event
    OBVIOUS
  <2>2. Len(Append(stream, event)) = Len(stream) + 1
    <3>1. stream \in Seq(Event \cup {event}) /\ event \in Event \cup {event}
      OBVIOUS
    <3>. QED
      BY <3>1
  <2>. QED
    BY <1>2, <2>1, <2>2, StreamIsBounded DEF SystemCommit, SystemTypeOK
<1>3. CASE Receive
  <2>1. stream # <<>> /\ stream' = Tail(stream) /\ connected' = connected
    BY <1>3 DEF Receive
  <2>2. Len(Tail(stream)) = Len(stream) - 1
    BY <2>1
  <2>. QED
    BY <2>1, <2>2, StreamIsBounded DEF SystemTypeOK
<1>4. CASE Connect \/ Disconnect \/ Restart
  <2>1. \/ connected' = TRUE /\ stream' = stream
        \/ connected' = FALSE /\ stream' = <<>>
    BY <1>4 DEF Connect, Disconnect, Restart
  <2>2. Len(<<>>) <= StreamBound
    BY StreamIsBounded
  <2>. QED
    BY <2>1, <2>2 DEF SystemTypeOK
<1>5. CASE CreateVote \/ IncrementTally \/ CreateTally \/ CreateAudit \/ HandlerFails
  BY <1>1, <1>5 DEF CreateVote, IncrementTally, CreateTally, CreateAudit, HandlerFails, AfterError
<1>6. CASE UNCHANGED listenerVars \/ UNCHANGED systemVars
  BY <1>1, <1>6 DEF listenerVars, systemVars
<1>. QED
  BY <1>2, <1>3, <1>4, <1>5, <1>6, SchedulerParts DEF Listen, Faults

-----------------------------------------------------------------------------
(* The counts while an election is open *)

\* The scheduler beside the listener: what it does to elections stays in order, and what
\* it counts is final, whatever happens to the listener and wherever the server restarts.
LEMMA SchedulerBeside ==
    ASSUME NilIsNoTransaction, OneAtATime, IInv, CallsTypeOK, ClosingInv, CountingIsFinal,
           [SystemNext]_systemVars
    PROVE  /\ CallsTypeOK' /\ ClosingInv' /\ CountingIsFinal'
           /\ \A e \in Elections : StatusOf(e) \in {"ended", "published"} =>
                                       StatusOf(e)' \in {"ended", "published"}
<1>1. ServerTypeOK /\ TypeOK /\ CallsTypeOK'
  BY CallsBeside DEF CallsTypeOK, IInv
<1>2. CASE SchedulerNext
  BY <1>1, <1>2, ClosingInvStays, CountingIsFinalStays, ClosedCountsStay
<1>3. CASE UNCHANGED <<worldState, inflight, started, over, ticks, requests>>
  <2>1. ClosingInv'
    BY <1>3 DEF ClosingInv, WritesMoveOn, TasksMoveOn, RequestsAreForClosed, ToDo, Writes,
                Pending, StatusOf, Before
  <2>2. CountingIsFinal'
    BY <1>3 DEF CountingIsFinal, FinalCount, StatusOf
  <2>. QED
    BY <1>1, <1>3, <2>1, <2>2 DEF StatusOf
<1>4. CASE Restart
  <2>1. /\ UNCHANGED <<worldState, inflight, started, over>>
        /\ DOMAIN ticks' = Ticks /\ \A p \in Ticks : ticks'[p] = Nil
        /\ DOMAIN requests' = Requests /\ \A r \in Requests : requests'[r] = Nil
    BY <1>4 DEF Restart
  <2>2. ClosingInv'
    BY <2>1 DEF ClosingInv, WritesMoveOn, TasksMoveOn, RequestsAreForClosed, ToDo, Writes,
                Pending, StatusOf, Before
  <2>3. CountingIsFinal'
    BY <2>1 DEF CountingIsFinal
  <2>. QED
    BY <1>1, <2>1, <2>2, <2>3 DEF StatusOf
<1>5. CASE Listen \/ Disconnect \/ HandlerFails
  BY <1>3, <1>5 DEF Listen, Connect, Receive, CreateVote, IncrementTally, CreateTally,
                    CreateAudit, Disconnect, HandlerFails, AfterError, schedulerVars
<1>6. CASE UNCHANGED systemVars
  BY <1>3, <1>6 DEF systemVars
<1>. QED
  BY <1>2, <1>4, <1>5, <1>6, SchedulerParts DEF Faults

LEMMA MirroredFinite ==
    ASSUME NEW e, NEW c
    PROVE  IsFiniteSet(MirroredFor(e, c)) /\ Cardinality(MirroredFor(e, c)) \in Nat
<1>1. MirroredFor(e, c) \subseteq VoteIds
  BY DEF MirroredFor
<1>. QED
  BY <1>1, FiniteVotes, FS_Subset, FS_CardinalityType

\* A step that counts nothing and makes no document.
LEMMA CountsStay ==
    ASSUME CountsAreBacked, UNCHANGED voteDocs,
           \A e \in Elections : StatusOf(e) \in {"ended", "published"} =>
                                    StatusOf(e)' \in {"ended", "published"},
           DOMAIN tallyDocs' = Elections,
           \A e \in Elections : tallyDocs'[e] = tallyDocs[e]
                                  \/ StatusOf(e)' \in {"ended", "published"},
           \A e, c : BeingCounted(e, c)' => BeingCounted(e, c)
    PROVE  CountsAreBacked'
<1>. SUFFICES ASSUME NEW e \in Elections, StatusOf(e)' \notin {"ended", "published"},
                     tallyDocs'[e] # Nil, NEW c \in DOMAIN tallyDocs'[e]
              PROVE  /\ tallyDocs'[e][c] \in Nat
                     /\ tallyDocs'[e][c] + (IF BeingCounted(e, c)' THEN 1 ELSE 0)
                          <= Cardinality(MirroredFor(e, c)')
  BY DEF CountsAreBacked
<1>1. /\ tallyDocs[e][c] \in Nat /\ tallyDocs'[e][c] = tallyDocs[e][c]
      /\ tallyDocs[e][c] + (IF BeingCounted(e, c) THEN 1 ELSE 0)
           <= Cardinality(MirroredFor(e, c))
  BY DEF CountsAreBacked
<1>2. MirroredFor(e, c)' = MirroredFor(e, c)
  BY DEF MirroredFor
<1>3. BeingCounted(e, c)' => BeingCounted(e, c)
  OBVIOUS
<1>. QED
  BY <1>1, <1>2, <1>3, MirroredFinite

\* The document of a vote comes before its count.
LEMMA CreateVoteCounts ==
    ASSUME MirrorIInv, CountsAreBacked, CreateVote
    PROVE  CountsAreBacked'
<1>1. /\ UNCHANGED worldState /\ UNCHANGED tallyDocs
      /\ handler # Nil /\ handler.step = "vote"
  BY DEF CreateVote, Handling, schedulerVars
<1>2. /\ handler \in [event : Event, step : {"vote", "tally", "create", "audit"}]
      /\ handler.event \in VoteEvent
  BY <1>1 DEF MirrorIInv, HandlerIsBacked
<1>. DEFINE id == handler.event.id
            vote == handler.event.vote
<1>3. id \in VoteIds /\ vote # Nil
  BY <1>2, VoteEventFields
<1>4. \A e, c : ~BeingCounted(e, c)
  BY <1>1 DEF BeingCounted
<1>5. CASE voteDocs[id] # Nil
  <2>1. handler' = Nil /\ UNCHANGED voteDocs
    BY <1>5 DEF CreateVote
  <2>2. /\ DOMAIN tallyDocs' = Elections
        /\ \A e \in Elections : tallyDocs'[e] = tallyDocs[e] /\ StatusOf(e)' = StatusOf(e)
    BY <1>1 DEF CountsAreBacked, StatusOf
  <2>3. \A e, c : ~BeingCounted(e, c)'
    BY <2>1 DEF BeingCounted
  <2>. QED
    BY <2>1, <2>2, <2>3, CountsStay
<1>6. CASE voteDocs[id] = Nil
  <2>1. /\ voteDocs' = [voteDocs EXCEPT ![id] = vote]
        /\ handler' = [handler EXCEPT !.step = "tally"]
    BY <1>6 DEF CreateVote
  <2>2. /\ voteDocs'[id] = vote
        /\ \A v \in VoteIds \ {id} : voteDocs'[v] = voteDocs[v]
    BY <1>3, <2>1 DEF MirrorIInv
  <2>3. handler'.event = handler.event /\ handler'.step = "tally"
    BY <1>2, <2>1
  <2>. HIDE DEF id
  <2>. SUFFICES ASSUME NEW e \in Elections, StatusOf(e)' \notin {"ended", "published"},
                       tallyDocs'[e] # Nil, NEW c \in DOMAIN tallyDocs'[e]
                PROVE  /\ tallyDocs'[e][c] \in Nat
                       /\ tallyDocs'[e][c] + (IF BeingCounted(e, c)' THEN 1 ELSE 0)
                            <= Cardinality(MirroredFor(e, c)')
    BY <1>1 DEF CountsAreBacked
  <2>4. /\ tallyDocs'[e][c] = tallyDocs[e][c] /\ tallyDocs[e][c] \in Nat
        /\ tallyDocs[e][c] <= Cardinality(MirroredFor(e, c))
    BY <1>1, <1>4 DEF CountsAreBacked, StatusOf
  <2>5. CASE vote.election = e /\ vote.candidate = c
    <3>1. MirroredFor(e, c)' = MirroredFor(e, c) \cup {id} /\ id \notin MirroredFor(e, c)
      BY <1>3, <1>6, <2>2, <2>5 DEF MirroredFor
    <3>2. Cardinality(MirroredFor(e, c)') = Cardinality(MirroredFor(e, c)) + 1
      BY <3>1, MirroredFinite, FS_AddElement
    <3>. QED
      BY <2>4, <3>2, MirroredFinite
  <2>6. CASE ~(vote.election = e /\ vote.candidate = c)
    <3>1. MirroredFor(e, c)' = MirroredFor(e, c)
      BY <1>6, <2>2, <2>6 DEF MirroredFor
    <3>2. ~BeingCounted(e, c)'
      BY <2>3, <2>6 DEF BeingCounted
    <3>. QED
      BY <2>4, <3>1, <3>2
  <2>. QED
    BY <2>5, <2>6
<1>. QED
  BY <1>5, <1>6

\* The vote in hand is counted, and is not in hand any more.
LEMMA CountCounts ==
    ASSUME MirrorIInv, CountsAreBacked, IncrementTally \/ CreateTally
    PROVE  CountsAreBacked'
<1>1. /\ UNCHANGED worldState /\ UNCHANGED voteDocs
      /\ handler # Nil /\ handler.step \in {"tally", "create"}
  BY DEF IncrementTally, CreateTally, Handling
<1>2. /\ handler \in [event : Event, step : {"vote", "tally", "create", "audit"}]
      /\ handler.event \in VoteEvent /\ HasDocument(handler.event)
  BY <1>1 DEF MirrorIInv, HandlerIsBacked
<1>. DEFINE id == handler.event.id
            vote == handler.event.vote
            f == vote.election
            d == vote.candidate
<1>3. /\ id \in VoteIds /\ vote \in Vote /\ vote # Nil /\ voteDocs[id] = vote
      /\ f \in Elections
  BY <1>2, VoteEventFields DEF HasDocument, Vote
<1>4. BeingCounted(f, d)
  BY <1>1 DEF BeingCounted
<1>5. id \in MirroredFor(f, d)
  BY <1>3 DEF MirroredFor
<1>6. Cardinality(MirroredFor(f, d)) >= 1
  BY <1>5, MirroredFinite, FS_EmptySet
<1>7. \A e, c : MirroredFor(e, c)' = MirroredFor(e, c)
  BY <1>1 DEF MirroredFor
<1>8. \A e, c : e # f \/ c # d => ~BeingCounted(e, c)
  BY DEF BeingCounted
<1>9. \A e, c : BeingCounted(e, c)' => BeingCounted(e, c)
  <2>1. \/ handler' = [handler EXCEPT !.step = "audit"]
        \/ handler' = [handler EXCEPT !.step = "create"]
    BY DEF IncrementTally, CreateTally
  <2>2. handler'.event = handler.event
    BY <1>2, <2>1
  <2>. QED
    BY <1>1, <2>2 DEF BeingCounted
<1>10. CASE tallyDocs' = tallyDocs
  BY <1>1, <1>9, <1>10, CountsStay DEF CountsAreBacked, StatusOf
<1>11. CASE tallyDocs' # tallyDocs
  <2>1. /\ handler' = [handler EXCEPT !.step = "audit"]
        /\ DOMAIN tallyDocs' = Elections
        /\ \A e \in Elections \ {f} : tallyDocs'[e] = tallyDocs[e]
        /\ \/ tallyDocs[f] # Nil /\ tallyDocs'[f] = Incremented(tallyDocs[f], d)
           \/ \E names : tallyDocs'[f] = [c \in names |-> IF c = d THEN 1 ELSE 0]
    BY <1>3, <1>11 DEF IncrementTally, CreateTally, CountsAreBacked
  <2>2. \A e, c : ~BeingCounted(e, c)'
    <3>1. handler'.step = "audit"
      BY <1>2, <2>1
    <3>. QED
      BY <3>1 DEF BeingCounted
  <2>. HIDE DEF id, vote, f, d
  <2>. SUFFICES ASSUME NEW e \in Elections, StatusOf(e)' \notin {"ended", "published"},
                       tallyDocs'[e] # Nil, NEW c \in DOMAIN tallyDocs'[e]
                PROVE  /\ tallyDocs'[e][c] \in Nat
                       /\ tallyDocs'[e][c] <= Cardinality(MirroredFor(e, c))
    BY <1>7, <2>1, <2>2 DEF CountsAreBacked
  <2>3. StatusOf(e) \notin {"ended", "published"}
    BY <1>1 DEF StatusOf
  <2>4. CASE e # f
    <3>1. tallyDocs'[e] = tallyDocs[e]
      BY <2>1, <2>4
    <3>. QED
      BY <1>8, <2>3, <2>4, <3>1 DEF CountsAreBacked
  <2>5. CASE e = f /\ tallyDocs[f] # Nil /\ tallyDocs'[f] = Incremented(tallyDocs[f], d)
    <3>1. /\ c \in DOMAIN tallyDocs[f]
          /\ tallyDocs'[f][c] = IF c = d THEN tallyDocs[f][c] + 1 ELSE tallyDocs[f][c]
      BY <2>5 DEF Incremented
    <3>2. /\ tallyDocs[f][c] \in Nat
          /\ tallyDocs[f][c] + (IF BeingCounted(f, c) THEN 1 ELSE 0)
               <= Cardinality(MirroredFor(f, c))
      BY <2>3, <2>5, <3>1 DEF CountsAreBacked
    <3>. QED
      BY <1>4, <1>8, <2>5, <3>1, <3>2, MirroredFinite
  <2>6. ASSUME e = f, NEW names, tallyDocs'[f] = [x \in names |-> IF x = d THEN 1 ELSE 0]
        PROVE  /\ tallyDocs'[e][c] \in Nat
               /\ tallyDocs'[e][c] <= Cardinality(MirroredFor(e, c))
    BY <1>6, <2>6, MirroredFinite
  <2>. QED
    BY <2>1, <2>4, <2>5, <2>6
<1>. QED
  BY <1>10, <1>11

LEMMA CountsAreBackedStays ==
    ASSUME MirrorIInv, CallsTypeOK, CountingIsFinal, CountsAreBacked,
           \A e \in Elections : StatusOf(e) \in {"ended", "published"} =>
                                    StatusOf(e)' \in {"ended", "published"},
           [SystemNext]_systemVars
    PROVE  CountsAreBacked'
<1>1. CASE CreateVote
  BY <1>1, CreateVoteCounts
<1>2. CASE IncrementTally \/ CreateTally
  BY <1>2, CountCounts
<1>3. ASSUME NEW p \in Ticks, TickSaves(p), UNCHANGED listenerVars
      PROVE  CountsAreBacked'
  <2>1. /\ ticks[p] # Nil /\ ticks[p].step = "save"
        /\ tallyDocs' = [tallyDocs EXCEPT ![ticks[p].at[1]] = ticks[p].tally]
    BY <1>3 DEF TickSaves
  <2>2. \A e \in Elections : ticks[p].at[1] = e => StatusOf(e) \in {"ended", "published"}
    BY <2>1 DEF CountingIsFinal
  <2>3. /\ DOMAIN tallyDocs' = Elections
        /\ \A e \in Elections : tallyDocs'[e] = tallyDocs[e]
                                  \/ StatusOf(e)' \in {"ended", "published"}
    BY <2>1, <2>2 DEF CountsAreBacked
  <2>. QED
    BY <1>3, <2>3, CountsStay DEF listenerVars, BeingCounted
<1>4. CASE UNCHANGED <<tallyDocs, voteDocs>> /\ (handler' = handler \/ handler' = Nil)
  BY <1>4, CountsStay DEF CountsAreBacked, BeingCounted
<1>5. CASE \/ UNCHANGED systemVars
           \/ SchedulerNext /\ UNCHANGED listenerVars
           \/ \E t \in Txs : SystemCommit(t)
  <2>1. CASE UNCHANGED systemVars
    BY <1>4, <2>1 DEF systemVars
  <2>2. CASE SchedulerNext /\ UNCHANGED listenerVars
    BY <1>3, <1>4, <2>2, DocumentSteps DEF listenerVars
  <2>3. CASE \E t \in Txs : SystemCommit(t)
    BY <1>4, <2>3 DEF SystemCommit, CommitTx
  <2>. QED
    BY <1>5, <2>1, <2>2, <2>3
<1>6. CASE Connect \/ Disconnect \/ Restart \/ CreateAudit
  BY <1>4, <1>6 DEF Connect, Disconnect, Restart, CreateAudit, schedulerVars
<1>7. CASE Receive \/ HandlerFails
  <2>1. UNCHANGED <<tallyDocs, voteDocs>>
    BY <1>7 DEF Receive, HandlerFails, AfterError, schedulerVars
  <2>2. CASE Receive
    <3>1. handler' = Nil \/ handler'.step \in {"vote", "audit"}
      BY <2>2 DEF Receive
    <3>. QED
      BY <2>1, <3>1, CountsStay DEF CountsAreBacked, BeingCounted
  <2>3. CASE HandlerFails
    <3>1. handler' = Nil \/ handler' = [handler EXCEPT !.step = "audit"]
      BY <2>3 DEF HandlerFails, AfterError
    <3>2. handler # Nil /\ handler \in [event : Event, step : {"vote", "tally", "create", "audit"}]
      BY <2>3 DEF HandlerFails, AfterError, MirrorIInv, HandlerIsBacked
    <3>3. handler' = Nil \/ handler'.step = "audit"
      BY <3>1, <3>2
    <3>. QED
      BY <2>1, <3>3, CountsStay DEF CountsAreBacked, BeingCounted
  <2>. QED
    BY <1>7, <2>2, <2>3
<1>. QED
  BY <1>1, <1>2, <1>5, <1>6, <1>7, SchedulerParts DEF Listen, Faults

LEMMA SystemInvStays ==
    ASSUME NilIsNoTransaction, OneAtATime, IInv, SystemIInv, [SystemNext]_systemVars
    PROVE  SystemIInv'
<1>1. MirrorIInv'
  BY MirrorStays DEF SystemIInv, CallsTypeOK
<1>2. /\ CallsTypeOK' /\ ClosingInv' /\ CountingIsFinal'
      /\ \A e \in Elections : StatusOf(e) \in {"ended", "published"} =>
                                  StatusOf(e)' \in {"ended", "published"}
  BY SchedulerBeside DEF SystemIInv
<1>3. CountsAreBacked'
  BY <1>2, CountsAreBackedStays DEF SystemIInv
<1>. QED
  BY <1>1, <1>2, <1>3 DEF SystemIInv

-----------------------------------------------------------------------------
(* The theorems *)

\* The listener, its faults and the restarts of the server are no steps of the ledger:
\* what is proved of Spec holds of SystemSpec.
THEOREM SystemImplementsContract == SystemSpec => Spec
<1>1. SystemInit => Init
  BY DEF SystemInit, SchedulerInit
<1>2. ServerTypeOK /\ [SystemNext]_systemVars => [Next]_ledgerVars
  BY SystemSteps
<1>. QED
  BY <1>1, <1>2, SystemServerTypes, PTL DEF SystemSpec, Spec

\* What is under way to the listener and in its hands describes committed votes.
THEOREM MirrorInvariance == SystemSpec => []MirrorIInv
<1>1. IInv /\ ServerTypeOK /\ MirrorIInv /\ [SystemNext]_systemVars => MirrorIInv'
  BY MirrorStays
<1>. QED
  BY <1>1, InitMirror, SystemServerTypes, SystemImplementsContract, Invariance, PTL
     DEF SystemSpec

\* A vote document is a copy of the committed vote with its id.
THEOREM MirrorIsFaithful == SystemSpec => []MirroredVotesAreCommitted
<1>1. MirrorIInv => MirroredVotesAreCommitted
  BY DEF MirrorIInv
<1>. QED
  BY <1>1, MirrorInvariance, PTL

\* A vote that was audited was mirrored before.
THEOREM AuditsAreMirrored == SystemSpec => []AuditedVotesAreMirrored
<1>1. MirrorIInv => AuditedVotesAreMirrored
  BY VoteEvents DEF MirrorIInv, AuditsAreBacked, HasDocument, AuditedVotesAreMirrored
<1>. QED
  BY <1>1, MirrorInvariance, PTL

\* Events, handlers and counts have their shapes, and nothing is under way to a listener
\* without a connection.
THEOREM SystemTypeCorrect == NilIsNoTransaction => (SystemSpec => []SystemTypeOK)
<1>. SUFFICES ASSUME NilIsNoTransaction PROVE SystemSpec => []SystemTypeOK
  OBVIOUS
<1>1. SystemInit => SystemTypeOK /\ CallsTypeOK
  <2>1. SystemInit => CallsTypeOK
    BY InitServerTypes DEF SystemInit, SchedulerInit, CallsTypeOK
  <2>2. Len(<<>>) <= StreamBound
    BY StreamIsBounded
  <2>3. SystemInit => SystemTypeOK
    BY <2>2 DEF SystemInit, SchedulerInit, SystemTypeOK
  <2>. QED
    BY <2>1, <2>3
<1>2. IInv /\ MirrorIInv /\ SystemTypeOK /\ CallsTypeOK /\ [SystemNext]_systemVars
        => SystemTypeOK' /\ CallsTypeOK'
  <2>. SUFFICES ASSUME IInv, MirrorIInv, SystemTypeOK, CallsTypeOK, [SystemNext]_systemVars
                PROVE  SystemTypeOK' /\ CallsTypeOK'
    OBVIOUS
  <2>1. StreamIsCommitted /\ TypeOK
    BY DEF MirrorIInv, IInv
  <2>. QED
    BY <2>1, CallsBeside, DocumentsTyped, HandlerTyped, StreamTyped DEF SystemTypeOK
<1>. QED
  BY <1>1, <1>2, MirrorInvariance, SystemImplementsContract, Invariance, PTL DEF SystemSpec

\* What clients were promised holds with the listener, its faults and restarts as well.
THEOREM SystemIsBallotBox == SystemSpec => ImplementsBallot
BY SystemImplementsContract, ContractIsBallotBox, PTL

\* The inductive invariant of the server, for one call of processElections at a time.
THEOREM SystemInvariance ==
    NilIsNoTransaction /\ OneAtATime => (SystemSpec => []SystemIInv)
<1>. SUFFICES ASSUME NilIsNoTransaction, OneAtATime PROVE SystemSpec => []SystemIInv
  OBVIOUS
<1>1. SystemInit => SystemIInv
  <2>1. SystemInit => CallsTypeOK
    BY InitServerTypes DEF SystemInit, SchedulerInit, CallsTypeOK
  <2>2. SystemInit => CountingIsFinal /\ CountsAreBacked
    BY DEF SystemInit, SchedulerInit, CountingIsFinal, CountsAreBacked
  <2>. QED
    BY <2>1, <2>2, InitMirror, InitClosing DEF SystemInit, SystemIInv
<1>2. IInv /\ SystemIInv /\ [SystemNext]_systemVars => SystemIInv'
  BY SystemInvStays
<1>. QED
  BY <1>1, <1>2, SystemImplementsContract, Invariance, PTL DEF SystemSpec

\* While an election takes votes, no count exceeds the votes that have a document.
THEOREM LiveCountsAreBacked ==
    NilIsNoTransaction /\ OneAtATime => (SystemSpec => []LiveTallyNeverOvercounts)
<1>. SUFFICES ASSUME NilIsNoTransaction, OneAtATime
              PROVE  SystemSpec => []LiveTallyNeverOvercounts
  OBVIOUS
<1>1. SystemIInv => LiveTallyNeverOvercounts
  <2>. SUFFICES ASSUME CountsAreBacked, NEW e \in Elections,
                       StatusOf(e) = "live", tallyDocs[e] # Nil,
                       NEW c \in DOMAIN tallyDocs[e]
                PROVE  tallyDocs[e][c] <= Cardinality(MirroredFor(e, c))
    BY DEF SystemIInv, LiveTallyNeverOvercounts
  <2>1. /\ tallyDocs[e][c] \in Nat
        /\ tallyDocs[e][c] + (IF BeingCounted(e, c) THEN 1 ELSE 0)
             <= Cardinality(MirroredFor(e, c))
    BY DEF CountsAreBacked
  <2>. QED
    BY <2>1, MirroredFinite
<1>. QED
  BY <1>1, SystemInvariance, PTL

-----------------------------------------------------------------------------
(* What was shown of the scheduler alone holds with the restarts as well *)

LEMMA DecidedOnTimeBeside ==
    ASSUME IInv, ServerTypeOK, DecidedOnTime, [SystemNext]_systemVars
    PROVE  DecidedOnTime'
<1>1. CASE SchedulerNext
  BY <1>1, DecidedOnTimeStays
<1>2. CASE UNCHANGED <<inflight, started, over, ticks>>
  BY <1>2 DEF DecidedOnTime, ToDo, Writes, Pending
<1>3. CASE Restart
  <2>1. UNCHANGED <<inflight, started, over>> /\ \A p \in Ticks : ticks'[p] = Nil
    BY <1>3 DEF Restart
  <2>. QED
    BY <2>1 DEF DecidedOnTime, ToDo, Writes, Pending
<1>4. CASE Listen \/ Disconnect \/ HandlerFails \/ UNCHANGED systemVars
  BY <1>2, <1>4 DEF Listen, Connect, Receive, CreateVote, IncrementTally, CreateTally,
                    CreateAudit, Disconnect, HandlerFails, AfterError, schedulerVars, systemVars
<1>. QED
  BY <1>1, <1>3, <1>4, SchedulerParts DEF Faults

\* No election turns live before its start time or ended before its end time, wherever
\* the server stops and starts again.
THEOREM SystemIsOnTime == SystemSpec => OnTime
<1>. DEFINE Timely ==
              \A e \in Elections : StatusOf(e)' # StatusOf(e) =>
                /\ StatusOf(e)' = "live" => e \in started
                /\ StatusOf(e)' = "ended" => e \in over
<1>1. SystemInit => DecidedOnTime
  BY DEF SystemInit, SchedulerInit, Init, DecidedOnTime, ToDo, Writes, Pending
<1>2. IInv /\ ServerTypeOK /\ DecidedOnTime /\ [SystemNext]_systemVars => DecidedOnTime'
  BY DecidedOnTimeBeside
<1>3. IInv /\ ServerTypeOK /\ DecidedOnTime /\ [SystemNext]_systemVars
        => [Timely]_schedulerVars
  <2>. SUFFICES ASSUME IInv, ServerTypeOK, DecidedOnTime, [SystemNext]_systemVars,
                       NEW e \in Elections, StatusOf(e)' # StatusOf(e)
                PROVE  /\ StatusOf(e)' = "live" => e \in started
                       /\ StatusOf(e)' = "ended" => e \in over
    OBVIOUS
  <2>1. PICK t \in Txs : Writes(t, e, StatusOf(e)')
    BY SystemSteps, StatusChanges
  <2>. QED
    BY <2>1 DEF DecidedOnTime
<1>. QED
  BY <1>1, <1>2, <1>3, SystemImplementsContract, Invariance, SystemServerTypes, PTL
     DEF SystemSpec, OnTime

\* As long as calls of processElections do not overlap, an election that has ended
\* never takes votes again, although a restart forgets the calls whose transactions
\* are still with the orderer.
THEOREM SystemStaysClosed ==
    NilIsNoTransaction /\ OneAtATime => (SystemSpec => ClosedForGood)
<1>. SUFFICES ASSUME NilIsNoTransaction, OneAtATime PROVE SystemSpec => ClosedForGood
  OBVIOUS
<1>. DEFINE StaysClosed ==
              \A e \in Elections :
                StatusOf(e) \in {"ended", "published"} =>
                    StatusOf(e)' \in {"ended", "published"}
<1>1. IInv /\ SystemIInv /\ [SystemNext]_systemVars => [StaysClosed]_schedulerVars
  BY SchedulerBeside DEF SystemIInv
<1>. QED
  BY <1>1, SystemInvariance, SystemImplementsContract, Invariance, PTL
     DEF SystemSpec, ClosedForGood

\* Under the same condition an election is published only after it has ended.
THEOREM SystemPublishesEnded ==
    NilIsNoTransaction /\ OneAtATime => (SystemSpec => PublishedFromEnded)
<1>. SUFFICES ASSUME NilIsNoTransaction, OneAtATime PROVE SystemSpec => PublishedFromEnded
  OBVIOUS
<1>. DEFINE FromEnded ==
              \A e \in Elections :
                StatusOf(e)' = "published" => StatusOf(e) \in {"ended", "published"}
<1>1. IInv /\ SystemIInv /\ [SystemNext]_systemVars => [FromEnded]_schedulerVars
  <2>. SUFFICES ASSUME IInv, SystemIInv, [SystemNext]_systemVars,
                       NEW e \in Elections, StatusOf(e)' = "published"
                PROVE  StatusOf(e) \in {"ended", "published"}
    OBVIOUS
  <2>1. [Next]_ledgerVars /\ ClosingInv
    BY SystemSteps DEF SystemIInv, CallsTypeOK
  <2>2. StatusOf(e)' = StatusOf(e) \/ Before(StatusOf(e), StatusOf(e)')
    BY <2>1, StatusMovesOn DEF ClosingInv
  <2>. QED
    BY <2>2 DEF Before
<1>. QED
  BY <1>1, SystemInvariance, SystemImplementsContract, Invariance, PTL
     DEF SystemSpec, PublishedFromEnded
=============================================================================
