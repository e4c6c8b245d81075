--------------------------- MODULE MirrorInvariant ---------------------------
(***************************************************************************)
(* The inductive invariant behind what VotingSystem says of the documents: *)
(* an event describes what its transaction writes, so an event under way   *)
(* describes what was committed, a handler beyond its first await has made *)
(* the document of its vote, and until an election closes only votes with  *)
(* a document are counted.                                                 *)
(***************************************************************************)
EXTENDS VotingSystem, SchedulerInvariant

VoteEvent == [name : {"vote_cast"}, id : VoteIds, vote : Vote]

Event ==
    VoteEvent
      \cup [name : {"election_created", "tally_computed", "final_tally_computed"},
            election : Elections]
      \cup [name : {"election_status_changed"}, election : Elections,
            from : Statuses, to : Statuses]
      \cup [name : {"user_registered"}, user : Users]
      \cup [name : {"user_status_updated"}, userId : Users, status : UserStatuses,
            updatedBy : Users]

ASSUME NilIsNoHandler ==
    Nil \notin [event : Event, step : {"vote", "tally", "create", "audit"}]

\* The event of a transaction describes its writes, and no vote is written without one.
Describes(tx) ==
    /\ tx.event \in Event
    /\ tx.event \in VoteEvent =>
          /\ VoteKey(tx.event.id) \in DOMAIN tx.writes
          /\ tx.writes[VoteKey(tx.event.id)] = tx.event.vote
    /\ \A v \in VoteIds : VoteKey(v) \in DOMAIN tx.writes =>
          tx.event \in VoteEvent /\ tx.event.id = v

EventsDescribeWrites == \A t \in Txs : Pending(t) => Describes(inflight[t])

\* The vote of the event has been committed.
OfCommitted(event) ==
    event \in VoteEvent =>
        Cast(event.id) /\ worldState[VoteKey(event.id)] = event.vote

\* The vote of the event has a document.
HasDocument(event) == event \in VoteEvent => voteDocs[event.id] = event.vote

StreamIsCommitted ==
    /\ stream \in Seq(Event)
    /\ \A i \in 1..Len(stream) : OfCommitted(stream[i])

HandlerIsBacked ==
    handler # Nil =>
        /\ handler \in [event : Event, step : {"vote", "tally", "create", "audit"}]
        /\ OfCommitted(handler.event)
        /\ handler.step # "audit" => handler.event \in VoteEvent
        /\ handler.step # "vote" => HasDocument(handler.event)

AuditsAreBacked ==
    /\ audits \subseteq Event
    /\ \A event \in audits : OfCommitted(event) /\ HasDocument(event)

MirrorIInv ==
    /\ voteDocs \in [VoteIds -> Vote \cup {Nil}]
    /\ MirroredVotesAreCommitted
    /\ EventsDescribeWrites
    /\ StreamIsCommitted
    /\ HandlerIsBacked
    /\ AuditsAreBacked

\* A vote for c in e has its document and is about to be counted.
BeingCounted(e, c) ==
    /\ handler # Nil
    /\ handler.step \in {"tally", "create"}
    /\ handler.event.vote.election = e
    /\ handler.event.vote.candidate = c

\* Until an election closes, its counts are the listener's: of votes with a document,
\* each counted once at most.
CountsAreBacked ==
    /\ DOMAIN tallyDocs = Elections
    /\ \A e \in Elections :
          StatusOf(e) \notin {"ended", "published"} /\ tallyDocs[e] # Nil =>
              \A c \in DOMAIN tallyDocs[e] :
                  /\ tallyDocs[e][c] \in Nat
                  /\ tallyDocs[e][c] + (IF BeingCounted(e, c) THEN 1 ELSE 0)
                        <= Cardinality(MirroredFor(e, c))

\* What the listener and the scheduler do together, for one call of processElections
\* at a time.
SystemIInv ==
    /\ MirrorIInv
    /\ CallsTypeOK
    /\ ClosingInv
    /\ CountingIsFinal
    /\ CountsAreBacked
=============================================================================
