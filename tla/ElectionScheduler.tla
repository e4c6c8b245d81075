------------------------- MODULE ElectionScheduler -------------------------
(***************************************************************************)
(* The life of an election as the server drives it                         *)
(* (service/election-scheduler.service.ts): processElections, which a      *)
(* timer starts every minute and which may still be running when the timer *)
(* fires again, and publishElectionResults, which an official asks for     *)
(* (controller/election.controller.ts).  Both await calls of the voting    *)
(* chaincode; between two awaits anything else may happen.                 *)
(***************************************************************************)
EXTENDS VotingContract

CONSTANTS
    Ticks,          \* places for running calls of processElections: bounds how
                    \* many overlap
    Requests        \* places for publish requests being served

ASSUME NilIsNoStatus == Nil \notin Statuses
ASSUME NilIsNoPlace  == Nil \notin Txs
ASSUME NilIsNoTally  == \A names \in SUBSET Candidates : Nil \notin [names -> Nat]

VARIABLES
    started, over,  \* the elections whose start_time, end_time has come
    ticks,          \* the call of processElections at every place
    requests,       \* the publish request at every place
    tallyDocs       \* the VoteTally documents in MongoDB: counts by election

clockVars  == <<started, over>>
serverVars == <<ticks, requests>>
schedulerVars == <<worldState, inflight, started, over, ticks, requests, tallyDocs>>

StatusOf(e) == IF worldState[ElectionKey(e)] = Nil THEN Nil
               ELSE worldState[ElectionKey(e)].status

\* A call that awaits the commit of the transaction at t.
WaitsFor(call, t) == call # Nil /\ call.tx = t

-----------------------------------------------------------------------------
(* processElections *)

Task == Elections \X {"live", "ended"}

\* Mutant: every election that is not live is opened once its time has come.
DueUnlessLive ==
    {<<e, "live">> : e \in {x \in started : StatusOf(x) \notin {Nil, "live"}}}
      \cup {<<e, "ended">> : e \in {x \in over : StatusOf(x) = "live"}}

\* Mutant: the start time is not looked at.
DueAtOnce ==
    {<<e, "live">> : e \in {x \in Elections : StatusOf(x) = "scheduled"}}
      \cup {<<e, "ended">> : e \in {x \in over : StatusOf(x) = "live"}}

\* Mutant: an election that is over is not opened any more.
DueUnlessOver ==
    {<<e, "live">> : e \in {x \in started \ over : StatusOf(x) = "scheduled"}}
      \cup {<<e, "ended">> : e \in {x \in over : StatusOf(x) = "live"}}

\* What the loop will do, decided by one reading of the elections and the clock.
Due == {<<e, "live">> : e \in {x \in started : StatusOf(x) = "scheduled"}}
         \cup {<<e, "ended">> : e \in {x \in over : StatusOf(x) = "live"}}

\* The loop is about to look at its next election: todo are those still to do.
Loop(todo) == [step |-> "loop", todo |-> todo, at |-> Nil, tx |-> Nil, tally |-> Nil]

\* Mutant: the loop does not stop after the last election.
NextElectionAlways(tick) == Loop(tick.todo \ {tick.at})

\* The loop goes on to the next election, or the call returns.
NextElection(tick) ==
    LET rest == tick.todo \ {tick.at}
    IN  IF rest = {} THEN Nil ELSE Loop(rest)

\* A call that finds nothing to do changes nothing and is left out.
StartTick(p) ==
    /\ ticks[p] = Nil
    /\ Due # {}
    /\ ticks' = [ticks EXCEPT ![p] = Loop(Due)]
    /\ UNCHANGED <<worldState, inflight, started, over, requests, tallyDocs>>

\* await updateElectionStatus, with the status decided at the start of the call.
\* Election ids are random, so the order of the loop is arbitrary.
TickUpdates(p, t) ==
    /\ ticks[p] # Nil
    /\ ticks[p].step = "loop"
    /\ \E task \in ticks[p].todo :
          /\ UpdateElectionStatus(t, task[1], task[2])
          /\ ticks' = [ticks EXCEPT ![p].step = "update", ![p].at = task, ![p].tx = t]
    /\ UNCHANGED <<started, over, requests, tallyDocs>>

\* await computeVoteTally
TickTallies(p, t) ==
    /\ ticks[p] # Nil
    /\ ticks[p].step = "ended"
    /\ ComputeVoteTally(t, ticks[p].at[1])
    /\ ticks' = [ticks EXCEPT ![p].step = "tally", ![p].tx = t]
    /\ UNCHANGED <<started, over, requests, tallyDocs>>

\* await VoteTallyModel.updateOne: the document is replaced or inserted.
TickSaves(p) ==
    /\ ticks[p] # Nil
    /\ ticks[p].step = "save"
    /\ tallyDocs' = [tallyDocs EXCEPT ![ticks[p].at[1]] = ticks[p].tally]
    /\ ticks' = [ticks EXCEPT ![p] = NextElection(ticks[p])]
    /\ UNCHANGED <<worldState, inflight, started, over, requests>>

\* An await throws: the endorsement is refused, a deadline passes, MongoDB does
\* not answer.  The rest of the call is given up; a transaction already with the
\* orderer stays there.  A restart of the server does this to every call.
TickFails(p) ==
    /\ ticks[p] # Nil
    /\ ticks' = [ticks EXCEPT ![p] = Nil]
    /\ UNCHANGED <<worldState, inflight, started, over, requests, tallyDocs>>

\* The call goes on when the transaction it awaits has committed.
TickAnswered(tick, result) ==
    CASE tick.step = "update" /\ tick.at[2] = "live"  -> NextElection(tick)
      [] tick.step = "update" /\ tick.at[2] = "ended" ->
            [tick EXCEPT !.step = "ended", !.tx = Nil]
      [] tick.step = "tally" ->
            [tick EXCEPT !.step = "save", !.tx = Nil, !.tally = result.tallies]

-----------------------------------------------------------------------------
(* publishElectionResults *)

\* Mutant: an election is refused only when it is published already.
MayPublishOnce(e) == StatusOf(e) \notin {Nil, "published"}

MayPublish(e) == StatusOf(e) = "ended"

\* The controller reads the election and goes on if it has ended.
AskPublish(r, e) ==
    /\ requests[r] = Nil
    /\ MayPublish(e)
    /\ requests' = [requests EXCEPT ![r] = [step |-> "asked", election |-> e, tx |-> Nil]]
    /\ UNCHANGED <<worldState, inflight, started, over, ticks, tallyDocs>>

\* The scheduler service reads it again.
CheckPublish(r) ==
    /\ requests[r] # Nil
    /\ requests[r].step = "asked"
    /\ requests' = [requests EXCEPT
                       ![r] = IF MayPublish(@.election)
                              THEN [@ EXCEPT !.step = "checked"] ELSE Nil]
    /\ UNCHANGED <<worldState, inflight, started, over, ticks, tallyDocs>>

Publish(r, t) ==
    /\ requests[r] # Nil
    /\ requests[r].step = "checked"
    /\ UpdateElectionStatus(t, requests[r].election, "published")
    /\ requests' = [requests EXCEPT ![r].step = "update", ![r].tx = t]
    /\ UNCHANGED <<started, over, ticks, tallyDocs>>

\* The answer holds the counts of the document, or says that there is none.
\* A request may also fail at any point.
EndRequest(r) ==
    /\ requests[r] # Nil
    /\ requests' = [requests EXCEPT ![r] = Nil]
    /\ UNCHANGED <<worldState, inflight, started, over, ticks, tallyDocs>>

RequestAnswered(request) == [request EXCEPT !.step = "answer", !.tx = Nil]

-----------------------------------------------------------------------------
(* The ledger and its clients *)

\* submitTransaction returns once the transaction has committed.
CommitTx(t) ==
    /\ Commit(t)
    /\ ticks' = [p \in Ticks |->
                    IF WaitsFor(ticks[p], t)
                    THEN TickAnswered(ticks[p], inflight[t].result) ELSE ticks[p]]
    /\ requests' = [r \in Requests |->
                       IF WaitsFor(requests[r], t)
                       THEN RequestAnswered(requests[r]) ELSE requests[r]]
    /\ UNCHANGED <<started, over, tallyDocs>>

\* submitTransaction throws: processElections and the request end.
DiscardTx(t) ==
    /\ Discard(t)
    /\ ticks' = [p \in Ticks |-> IF WaitsFor(ticks[p], t) THEN Nil ELSE ticks[p]]
    /\ requests' = [r \in Requests |->
                       IF WaitsFor(requests[r], t) THEN Nil ELSE requests[r]]
    /\ UNCHANGED <<started, over, tallyDocs>>

\* The other requests that reach the chaincode.  createElection refuses an empty list
\* of governorates or of candidates; recalculateTally counts at any time.
ClientCall(t) ==
    /\ \/ \E e \in Elections :
            \/ \E candidates \in SUBSET Candidates \ {{}}, eligible \in SUBSET Governorates \ {{}} :
                  CreateElection(t, e, candidates, eligible)
            \/ ComputeVoteTally(t, e)
       \/ UserCall(t)
    /\ UNCHANGED <<started, over, ticks, requests, tallyDocs>>

\* start_time and end_time come in either order: createElection compares neither
\* with the other nor with the present.
TimePasses(e) ==
    /\ \/ started' = started \cup {e} /\ UNCHANGED over
       \/ over' = over \cup {e} /\ UNCHANGED started
    /\ UNCHANGED <<worldState, inflight, ticks, requests, tallyDocs>>

SchedulerInit ==
    /\ Init
    /\ started = {}
    /\ over = {}
    /\ ticks = [p \in Ticks |-> Nil]
    /\ requests = [r \in Requests |-> Nil]
    /\ tallyDocs = [e \in Elections |-> Nil]

ProcessElections(p) ==
    \/ StartTick(p)
    \/ \E t \in Txs : TickUpdates(p, t) \/ TickTallies(p, t)
    \/ TickSaves(p)
    \/ TickFails(p)

PublishElectionResults(r) ==
    \/ \E e \in Elections : AskPublish(r, e)
    \/ CheckPublish(r)
    \/ \E t \in Txs : Publish(r, t)
    \/ EndRequest(r)

Server ==
    \/ \E p \in Ticks : ProcessElections(p)
    \/ \E r \in Requests : PublishElectionResults(r)

SchedulerNext ==
    \/ Server
    \/ \E t \in Txs : ClientCall(t) \/ CommitTx(t) \/ DiscardTx(t)
    \/ \E e \in Elections : TimePasses(e)

SchedulerSpec == SchedulerInit /\ [][SchedulerNext]_schedulerVars

\* A transaction that changes an election commits.
CommitElection(t) ==
    CommitTx(t) /\ \E e \in Elections : ElectionKey(e) \in DOMAIN inflight[t].writes

\* What the deployment owes the scheduler: the timer fires and no await of a call
\* stays open for ever (every one has a deadline), every transaction is ordered or
\* dropped, and neither the endorsement nor the commit of a status update fails
\* each time it is tried again.
Fairness ==
    /\ \A p \in Ticks : /\ WF_schedulerVars(ProcessElections(p))
                        /\ SF_schedulerVars(\E t \in Txs : TickUpdates(p, t))
    /\ \A t \in Txs : /\ WF_schedulerVars(CommitTx(t) \/ DiscardTx(t))
                      /\ SF_schedulerVars(CommitElection(t))

FairSchedulerSpec == SchedulerSpec /\ Fairness
-----------------------------------------------------------------------------
(* Properties *)

\* What a running call of processElections may hold.
TickTypeOK(tick) ==
    /\ DOMAIN tick = {"step", "todo", "at", "tx", "tally"}
    /\ tick.step \in {"loop", "update", "ended", "tally", "save"}
    /\ tick.todo # {} /\ tick.todo \subseteq Task
    /\ IF tick.step = "loop" THEN tick.at = Nil ELSE tick.at \in tick.todo
    /\ IF tick.step \in {"update", "tally"} THEN tick.tx \in Txs ELSE tick.tx = Nil

RequestTypeOK(request) ==
    /\ DOMAIN request = {"step", "election", "tx"}
    /\ request.step \in {"asked", "checked", "update", "answer"}
    /\ request.election \in Elections
    /\ IF request.step = "update" THEN request.tx \in Txs ELSE request.tx = Nil

ServerTypeOK ==
    /\ started \subseteq Elections /\ over \subseteq Elections
    /\ DOMAIN ticks = Ticks
    /\ \A p \in Ticks : ticks[p] # Nil => TickTypeOK(ticks[p])
    /\ DOMAIN requests = Requests
    /\ \A r \in Requests : requests[r] # Nil => RequestTypeOK(requests[r])

\* The place tick.tx of txs holds the transaction for the task that tick is at.
AwaitsItsOwn(tick, txs) ==
    LET e  == tick.at[1]
        tx == txs[tick.tx]
    IN  /\ tick.step \in {"update", "tally"} => tx # Nil
        /\ tick.step = "update" => /\ ElectionKey(e) \in DOMAIN tx.writes
                                  /\ tx.writes[ElectionKey(e)].status = tick.at[2]
        /\ tick.step = "tally" => tx.result \in Tally /\ tx.result.election = e

CallsTypeOK ==
    /\ ServerTypeOK
    /\ \A p \in Ticks : ticks[p] # Nil =>
          /\ AwaitsItsOwn(ticks[p], inflight)
          /\ IF ticks[p].step = "save" THEN ticks[p].tally \in Tallies ELSE ticks[p].tally = Nil

SchedulerTypeOK == CallsTypeOK /\ tallyDocs \in [Elections -> Tallies \cup {Nil}]

\* An election turns live only after its start time and ended only after its end
\* time, although the clock is read long before the status changes (l.60-78).
OnTime ==
    [][\A e \in Elections : StatusOf(e)' # StatusOf(e) =>
          /\ StatusOf(e)' = "live" => e \in started
          /\ StatusOf(e)' = "ended" => e \in over]_schedulerVars

\* An election that has ended never takes votes again, although
\* UpdateElectionStatus takes any status from any other
\* (update_election_status.go:13-68) and a call of processElections may act on a
\* reading that an earlier call's transaction has overtaken.  This needs calls that
\* do not overlap: it holds for one place in Ticks.
ClosedForGood ==
    [][\A e \in Elections :
          StatusOf(e) \in {"ended", "published"} =>
              StatusOf(e)' \in {"ended", "published"}]_schedulerVars

\* The counts saved when an election ends are those of all its votes, and stay so:
\* no vote endorsed before the end commits after the count (l.78-97).
SavedTallyIsComplete ==
    \A e \in Elections : tallyDocs[e] # Nil => tallyDocs[e] = CountVotes(worldState, e)

\* "This can only be called on elections that are in the 'ended' state"
\* (docs/elections-api.md:192): an election is published only from there.
PublishedFromEnded ==
    [][\A e \in Elections :
          StatusOf(e)' = "published" => StatusOf(e) \in {"ended", "published"}]_schedulerVars

\* An election whose time is over closes for good, however many calls of
\* processElections overlap, fail or work from an old reading (l.57-104).
ElectionsClose ==
    \A e \in Elections :
        e \in started \cap over /\ StatusOf(e) # Nil ~>
            [](StatusOf(e) \in {"ended", "published"})

\* "end it and calculate final tally" (election-scheduler.service.ts:75): an
\* election that has ended gets its counts.
EndedIsTallied ==
    \A e \in Elections : StatusOf(e) = "ended" ~> tallyDocs[e] # Nil
=============================================================================
