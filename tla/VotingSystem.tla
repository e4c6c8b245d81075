---------------------------- MODULE VotingSystem ----------------------------
(***************************************************************************)
(* The server as a whole: the voting chaincode and the scheduler, and the  *)
(* listener that copies chaincode events into MongoDB                      *)
(* (service/fabric-event.service.ts).  Events reach the listener in the    *)
(* order of the commits, and it handles one at a time; a handler awaits    *)
(* MongoDB several times, and the scheduler writes the same documents in   *)
(* between.  The checkpointer of the listener is never moved: what is      *)
(* committed while it is disconnected, it never sees.                      *)
(***************************************************************************)
EXTENDS ElectionScheduler, Sequences

CONSTANT StreamBound    \* events under way to the listener: no transaction
                        \* commits while there are that many

ASSUME StreamIsBounded == StreamBound \in Nat

VARIABLES
    connected,      \* the listener has a stream of events
    stream,         \* the events of committed transactions under way to it
    handler,        \* the event being handled and the next step
    voteDocs,       \* the Vote documents in MongoDB, by vote id
    audits          \* the events an AuditEvent document was written for

listenerVars == <<connected, stream, handler, voteDocs, audits>>
systemVars == <<worldState, inflight, started, over, ticks, requests, tallyDocs,
                connected, stream, handler, voteDocs, audits>>

-----------------------------------------------------------------------------
(* The event loop of startChaincodeEventListener *)

Audited == {"vote_cast", "election_created", "election_status_changed",
            "tally_computed", "user_registered", "user_status_updated"}

Connect ==
    /\ ~connected
    /\ handler = Nil
    /\ connected' = TRUE
    /\ UNCHANGED <<schedulerVars, stream, handler, voteDocs, audits>>

\* Mutant: the events that were under way are still delivered.
DisconnectLater ==
    /\ connected
    /\ connected' = FALSE
    /\ UNCHANGED <<schedulerVars, stream, handler, voteDocs, audits>>

\* The stream breaks.  The handler that is running finishes first; the events
\* behind it are lost.
Disconnect ==
    /\ connected
    /\ connected' = FALSE
    /\ stream' = <<>>
    /\ UNCHANGED <<schedulerVars, handler, voteDocs, audits>>

\* An event without a handler is passed over.
Receive ==
    /\ handler = Nil
    /\ stream # <<>>
    /\ stream' = Tail(stream)
    /\ LET event == Head(stream)
       IN  handler' = IF event.name \notin Audited THEN Nil
                      ELSE [event |-> event,
                            step |-> IF event.name = "vote_cast" THEN "vote" ELSE "audit"]
    /\ UNCHANGED <<schedulerVars, connected, voteDocs, audits>>

Handling(step) == handler # Nil /\ handler.step = step

-----------------------------------------------------------------------------
(* handleVoteCast and updateVoteTally *)

\* await VoteModel.create; vote_id is a unique index.
CreateVote ==
    /\ Handling("vote")
    /\ LET event == handler.event
       IN  IF voteDocs[event.id] = Nil
           THEN /\ voteDocs' = [voteDocs EXCEPT ![event.id] = event.vote]
                /\ handler' = [handler EXCEPT !.step = "tally"]
           ELSE handler' = Nil /\ UNCHANGED voteDocs
    /\ UNCHANGED <<schedulerVars, connected, stream, audits>>

\* Mutant: the count starts again.
SetToOne(tally, c) == [tally EXCEPT ![c] = 1]

\* The counts of a document when one more vote for c is added to it.
Incremented(tally, c) == [tally EXCEPT ![c] = @ + 1]

\* await VoteTallyModel.updateOne: $inc, in place, if there is a document.
IncrementTally ==
    /\ Handling("tally")
    /\ LET vote == handler.event.vote
       IN  IF tallyDocs[vote.election] # Nil
           THEN /\ tallyDocs' = [tallyDocs EXCEPT ![vote.election] =
                                    Incremented(@, vote.candidate)]
                /\ handler' = [handler EXCEPT !.step = "audit"]
           ELSE handler' = [handler EXCEPT !.step = "create"] /\ UNCHANGED tallyDocs
    /\ UNCHANGED <<worldState, inflight, started, over, ticks, requests,
                   connected, stream, voteDocs, audits>>

\* Mutant: the first vote is not counted.
CreateEmptyTally ==
    /\ Handling("create")
    /\ LET e     == handler.event.vote.election
           names == worldState[ElectionKey(e)].candidates
       IN  tallyDocs' = IF tallyDocs[e] # Nil THEN tallyDocs
                        ELSE [tallyDocs EXCEPT ![e] = [c \in names |-> 0]]
    /\ handler' = [handler EXCEPT !.step = "audit"]
    /\ UNCHANGED <<worldState, inflight, started, over, ticks, requests,
                   connected, stream, voteDocs, audits>>

\* Mutant: the document is replaced if there is one by now.
OverwriteTally ==
    /\ Handling("create")
    /\ LET vote  == handler.event.vote
           names == worldState[ElectionKey(vote.election)].candidates
       IN  tallyDocs' = [tallyDocs EXCEPT ![vote.election] =
                            [c \in names |-> IF c = vote.candidate THEN 1 ELSE 0]]
    /\ handler' = [handler EXCEPT !.step = "audit"]
    /\ UNCHANGED <<worldState, inflight, started, over, ticks, requests,
                   connected, stream, voteDocs, audits>>

\* await getElection, await VoteTallyModel.create: the first count of an election.
\* election_id is a unique index: if a document has appeared meanwhile the vote is
\* not counted.
CreateTally ==
    /\ Handling("create")
    /\ LET vote  == handler.event.vote
           names == worldState[ElectionKey(vote.election)].candidates
       IN  tallyDocs' = IF tallyDocs[vote.election] # Nil THEN tallyDocs
                        ELSE [tallyDocs EXCEPT ![vote.election] =
                                 [c \in names |-> IF c = vote.candidate THEN 1 ELSE 0]]
    /\ handler' = [handler EXCEPT !.step = "audit"]
    /\ UNCHANGED <<worldState, inflight, started, over, ticks, requests,
                   connected, stream, voteDocs, audits>>

\* await AuditEventModel.create, the last step of every handler.
CreateAudit ==
    /\ Handling("audit")
    /\ audits' = audits \cup {handler.event}
    /\ handler' = Nil
    /\ UNCHANGED <<schedulerVars, connected, stream, voteDocs>>

\* Mutant: the handler starts again with the tally when the audit fails.
HandlerRetries ==
    /\ handler # Nil
    /\ handler' = IF handler.event.name = "vote_cast" /\ handler.step # "vote"
                  THEN [handler EXCEPT !.step = "tally"] ELSE Nil
    /\ UNCHANGED <<schedulerVars, connected, stream, voteDocs, audits>>

\* Mutant: every error is caught where it occurs.
HandlerGoesOn ==
    /\ handler # Nil
    /\ handler' = IF handler.step # "audit"
                  THEN [handler EXCEPT !.step = "audit"] ELSE Nil
    /\ UNCHANGED <<schedulerVars, connected, stream, voteDocs, audits>>

\* updateVoteTally catches its own errors, so that the audit still follows; any other
\* error ends the handler.
AfterError == IF handler.step \in {"tally", "create"}
              THEN [handler EXCEPT !.step = "audit"] ELSE Nil

\* An await throws.  Nothing is tried again.
HandlerFails ==
    /\ handler # Nil
    /\ handler' = AfterError
    /\ UNCHANGED <<schedulerVars, connected, stream, voteDocs, audits>>

Listen ==
    \/ Connect
    \/ Receive
    \/ CreateVote
    \/ IncrementTally
    \/ CreateTally
    \/ CreateAudit

-----------------------------------------------------------------------------
(* The server process *)

\* The event of a transaction that commits goes to the listener, if it listens.
SystemCommit(t) ==
    /\ Len(stream) < StreamBound
    /\ CommitTx(t)
    /\ stream' = IF connected THEN Append(stream, inflight[t].event) ELSE stream
    /\ UNCHANGED <<connected, handler, voteDocs, audits>>

\* The process stops and starts again: what is in the ledger, with the orderer
\* and in MongoDB remains, every call and handler under way is gone.
Restart ==
    /\ ticks' = [p \in Ticks |-> Nil]
    /\ requests' = [r \in Requests |-> Nil]
    /\ handler' = Nil
    /\ connected' = FALSE
    /\ stream' = <<>>
    /\ UNCHANGED <<worldState, inflight, started, over, tallyDocs, voteDocs, audits>>

Faults == Disconnect \/ HandlerFails \/ Restart

SystemInit ==
    /\ SchedulerInit
    /\ connected = FALSE
    /\ stream = <<>>
    /\ handler = Nil
    /\ voteDocs = [v \in VoteIds |-> Nil]
    /\ audits = {}

SystemNext ==
    \/ /\ \/ Server
          \/ \E t \in Txs : ClientCall(t) \/ DiscardTx(t)
          \/ \E e \in Elections : TimePasses(e)
       /\ UNCHANGED listenerVars
    \/ \E t \in Txs : SystemCommit(t)
    \/ Listen
    \/ Faults

SystemSpec == SystemInit /\ [][SystemNext]_systemVars
-----------------------------------------------------------------------------
(* Properties *)

\* The mirrored votes for candidate c in election e.
MirroredFor(e, c) ==
    {v \in VoteIds : /\ voteDocs[v] # Nil
                     /\ voteDocs[v].election = e
                     /\ voteDocs[v].candidate = c}

SystemTypeOK ==
    /\ connected \in BOOLEAN
    /\ ~connected => stream = <<>>
    /\ Len(stream) <= StreamBound
    /\ handler # Nil =>
          /\ handler.event.name \in Audited
          /\ handler.step \in {"vote", "tally", "create", "audit"}
          /\ handler.step # "audit" => handler.event.name = "vote_cast"
    /\ DOMAIN tallyDocs = Elections
    /\ \A e \in Elections : tallyDocs[e] # Nil =>
          \A c \in DOMAIN tallyDocs[e] : tallyDocs[e][c] \in Nat

\* A vote document is a copy of the committed vote with its id, and at most one is
\* made of it (l.424-430).
MirroredVotesAreCommitted ==
    \A v \in VoteIds : voteDocs[v] # Nil =>
        Cast(v) /\ voteDocs[v] = worldState[VoteKey(v)]

\* While an election takes votes, the count shown for a candidate never exceeds
\* the votes that were mirrored for it, whichever awaits fail and wherever the
\* process stops (l.543-589).
LiveTallyNeverOvercounts ==
    \A e \in Elections :
        StatusOf(e) = "live" /\ tallyDocs[e] # Nil =>
            \A c \in DOMAIN tallyDocs[e] :
                tallyDocs[e][c] <= Cardinality(MirroredFor(e, c))

\* A count once shown is never taken back: a document does not vanish, and neither the
\* scheduler, which replaces it, nor the listener, which may find that one has appeared
\* where it meant to create one, lowers what it holds (fabric-event.service.ts:546-585,
\* election-scheduler.service.ts:93-97).  For one call of processElections at a time.
CountsNeverDrop ==
    [][\A e \in Elections : tallyDocs[e] # Nil =>
          /\ tallyDocs'[e] # Nil
          /\ \A c \in DOMAIN tallyDocs[e] :
                c \in DOMAIN tallyDocs'[e] /\ tallyDocs'[e][c] >= tallyDocs[e][c]]_systemVars

\* A vote that was audited was mirrored before (l.430-448): the activity of a
\* voter lists the votes from the documents and leaves out the audited ones.
AuditedVotesAreMirrored ==
    \A event \in audits :
        event.name = "vote_cast" => voteDocs[event.id] = event.vote

\* "Get the final tally data" (election.controller.ts:276): the answer to a publish
\* request holds the counts of the election.
PublishedTallyIsFinal ==
    \A r \in Requests :
        requests[r] # Nil /\ requests[r].step = "answer" =>
            LET e == requests[r].election
            IN  tallyDocs[e] # Nil => tallyDocs[e] = CountVotes(worldState, e)
=============================================================================
