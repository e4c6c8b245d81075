------------------------ MODULE ElectionScheduler_proofs ------------------------
(***************************************************************************)
(* Theorems about ElectionScheduler, for every number of elections,        *)
(* transactions in flight, running calls and requests.                     *)
(***************************************************************************)
EXTENDS SchedulerInvariant, VotingContract_proofs

(* The scheduler is a client of the contract *)

\* The server never writes its variables but as their types say.
LEMMA LoopTyped ==
    ASSUME NEW todo \in SUBSET Task, todo # {}
    PROVE  TickTypeOK(Loop(todo))
BY DEF TickTypeOK, Loop

LEMMA NextElectionTyped ==
    ASSUME NEW tick, TickTypeOK(tick), NextElection(tick) # Nil
    PROVE  /\ TickTypeOK(NextElection(tick))
           /\ NextElection(tick).todo \subseteq tick.todo
           /\ NextElection(tick).step = "loop"
           /\ NextElection(tick).tally = Nil
<1>. DEFINE rest == tick.todo \ {tick.at}
<1>1. rest # {} /\ NextElection(tick) = Loop(rest)
  BY DEF NextElection
<1>2. rest \in SUBSET Task /\ rest \subseteq tick.todo
  BY DEF TickTypeOK
<1>3. TickTypeOK(Loop(rest))
  BY <1>1, <1>2, LoopTyped
<1>. QED
  BY <1>1, <1>2, <1>3 DEF Loop

LEMMA TickAnsweredTyped ==
    ASSUME NEW tick, NEW result, TickTypeOK(tick), tick.step \in {"update", "tally"},
           TickAnswered(tick, result) # Nil
    PROVE  /\ TickTypeOK(TickAnswered(tick, result))
           /\ TickAnswered(tick, result).todo \subseteq tick.todo
<1>. DEFINE new == TickAnswered(tick, result)
<1>1. tick.at \in Task
  BY DEF TickTypeOK
<1>2. CASE tick.step = "update" /\ tick.at[2] = "live"
  <2>1. new = NextElection(tick)
    BY <1>2 DEF TickAnswered
  <2>. QED
    BY <2>1, NextElectionTyped
<1>3. CASE tick.step = "update" /\ tick.at[2] = "ended"
  <2>1. new = [tick EXCEPT !.step = "ended", !.tx = Nil]
    BY <1>3 DEF TickAnswered
  <2>. QED
    BY <1>3, <2>1 DEF TickTypeOK
<1>4. CASE tick.step = "tally"
  <2>1. new = [tick EXCEPT !.step = "save", !.tx = Nil, !.tally = result.tallies]
    BY <1>4 DEF TickAnswered
  <2>. QED
    BY <1>4, <2>1 DEF TickTypeOK
<1>5. tick.at[2] \in {"live", "ended"}
  BY <1>1 DEF Task
<1>. QED
  BY <1>2, <1>3, <1>4, <1>5

LEMMA DueTyped == ServerTypeOK => Due \in SUBSET Task
BY DEF Due, Task, ServerTypeOK

\* What one step does to the call at p, and where it does it.
LEMMA TickSteps ==
    ASSUME ServerTypeOK, SchedulerNext, NEW p \in Ticks, ticks'[p] # Nil
    PROVE  \/ ticks'[p] = ticks[p]
           \/ StartTick(p) /\ ticks'[p] = Loop(Due)
           \/ \E t \in Txs, task \in ticks[p].todo :
                /\ ticks[p] # Nil
                /\ ticks[p].step = "loop"
                /\ UpdateElectionStatus(t, task[1], task[2])
                /\ ticks'[p] = [ticks[p] EXCEPT !.step = "update", !.at = task, !.tx = t]
           \/ \E t \in Txs :
                /\ ticks[p] # Nil
                /\ ticks[p].step = "ended"
                /\ ComputeVoteTally(t, ticks[p].at[1])
                /\ ticks'[p] = [ticks[p] EXCEPT !.step = "tally", !.tx = t]
           \/ /\ ticks[p] # Nil
              /\ TickSaves(p)
              /\ ticks'[p] = NextElection(ticks[p])
           \/ \E t \in Txs :
                /\ ticks[p] # Nil
                /\ CommitTx(t)
                /\ ticks[p].tx = t
                /\ ticks'[p] = TickAnswered(ticks[p], inflight[t].result)
<1>1. CASE \E q \in Ticks : ProcessElections(q)
  <2>1. PICK q \in Ticks : ProcessElections(q)
    BY <1>1
  <2>2. CASE p # q
    <3>1. ticks'[p] = ticks[p]
      BY <2>1, <2>2 DEF ProcessElections, StartTick, TickUpdates, TickTallies, TickSaves,
                        TickFails, ServerTypeOK
    <3>. QED
      BY <3>1
  <2>3. CASE p = q
    BY <2>1, <2>3 DEF ProcessElections, StartTick, TickUpdates, TickTallies, TickSaves,
                      TickFails, ServerTypeOK
  <2>. QED
    BY <2>2, <2>3
<1>2. CASE \E r \in Requests : PublishElectionResults(r)
  BY <1>2 DEF PublishElectionResults, AskPublish, CheckPublish, Publish, EndRequest
<1>3. ASSUME NEW t \in Txs, CommitTx(t)
      PROVE  \/ ticks'[p] = ticks[p]
             \/ /\ ticks[p] # Nil
                /\ ticks[p].tx = t
                /\ ticks'[p] = TickAnswered(ticks[p], inflight[t].result)
  BY <1>3 DEF CommitTx, WaitsFor
<1>4. ASSUME NEW t \in Txs, DiscardTx(t)
      PROVE  ticks'[p] = ticks[p]
  BY <1>4 DEF DiscardTx
<1>5. CASE \E t \in Txs : ClientCall(t)
  BY <1>5 DEF ClientCall
<1>6. CASE \E e \in Elections : TimePasses(e)
  BY <1>6 DEF TimePasses
<1>. QED
  BY <1>1, <1>2, <1>3, <1>4, <1>5, <1>6 DEF SchedulerNext, Server

\* What one step does to the request at r.
LEMMA RequestSteps ==
    ASSUME ServerTypeOK, SchedulerNext, NEW r \in Requests, requests'[r] # Nil
    PROVE  \/ requests'[r] = requests[r]
           \/ \E e \in Elections :
                /\ AskPublish(r, e)
                /\ requests'[r] = [step |-> "asked", election |-> e, tx |-> Nil]
           \/ /\ requests[r] # Nil
              /\ requests[r].step = "asked"
              /\ requests'[r] = [requests[r] EXCEPT !.step = "checked"]
           \/ \E t \in Txs :
                /\ requests[r] # Nil
                /\ Publish(r, t)
                /\ requests'[r] = [requests[r] EXCEPT !.step = "update", !.tx = t]
           \/ \E t \in Txs :
                /\ requests[r] # Nil
                /\ CommitTx(t)
                /\ requests'[r] = RequestAnswered(requests[r])
<1>1. CASE \E q \in Requests : PublishElectionResults(q)
  <2>1. PICK q \in Requests : PublishElectionResults(q)
    BY <1>1
  <2>2. CASE r # q
    <3>1. requests'[r] = requests[r]
      BY <2>1, <2>2 DEF PublishElectionResults, AskPublish, CheckPublish, Publish,
                        EndRequest, ServerTypeOK
    <3>. QED
      BY <3>1
  <2>3. CASE r = q
    BY <2>1, <2>3 DEF PublishElectionResults, AskPublish, CheckPublish, Publish,
                      EndRequest, ServerTypeOK
  <2>. QED
    BY <2>2, <2>3
<1>2. CASE \E p \in Ticks : ProcessElections(p)
  BY <1>2 DEF ProcessElections, StartTick, TickUpdates, TickTallies, TickSaves, TickFails
<1>3. ASSUME NEW t \in Txs, CommitTx(t)
      PROVE  \/ requests'[r] = requests[r]
             \/ /\ requests[r] # Nil
                /\ requests'[r] = RequestAnswered(requests[r])
  BY <1>3 DEF CommitTx, WaitsFor
<1>4. ASSUME NEW t \in Txs, DiscardTx(t)
      PROVE  requests'[r] = requests[r]
  BY <1>4 DEF DiscardTx
<1>5. CASE \E t \in Txs : ClientCall(t)
  BY <1>5 DEF ClientCall
<1>6. CASE \E e \in Elections : TimePasses(e)
  BY <1>6 DEF TimePasses
<1>. QED
  BY <1>1, <1>2, <1>3, <1>4, <1>5, <1>6 DEF SchedulerNext, Server

LEMMA ServerTypesStay == ServerTypeOK /\ [SchedulerNext]_schedulerVars => ServerTypeOK'
<1>1. CASE UNCHANGED schedulerVars
  BY <1>1 DEF ServerTypeOK, schedulerVars
<1>2. ASSUME ServerTypeOK, SchedulerNext
      PROVE  ServerTypeOK'
  <2>1. /\ started' \subseteq Elections /\ over' \subseteq Elections
        /\ DOMAIN ticks' = Ticks /\ DOMAIN requests' = Requests
    BY <1>2 DEF SchedulerNext, Server, ProcessElections, PublishElectionResults, StartTick,
                TickUpdates, TickTallies, TickSaves, TickFails, AskPublish, CheckPublish,
                Publish, EndRequest, ClientCall, CommitTx, DiscardTx, TimePasses,
                ServerTypeOK
  <2>2. ASSUME NEW p \in Ticks, ticks'[p] # Nil
        PROVE  TickTypeOK(ticks'[p])
    <3>1. ticks[p] # Nil => TickTypeOK(ticks[p])
      BY <1>2 DEF ServerTypeOK
    <3>2. CASE StartTick(p) /\ ticks'[p] = Loop(Due)
      BY <1>2, <3>2, DueTyped, LoopTyped DEF StartTick
    <3>3. ASSUME NEW t \in Txs, NEW task \in ticks[p].todo,
                 ticks[p] # Nil, ticks[p].step = "loop",
                 ticks'[p] = [ticks[p] EXCEPT !.step = "update", !.at = task, !.tx = t]
          PROVE  TickTypeOK(ticks'[p])
      BY <3>1, <3>3 DEF TickTypeOK
    <3>4. ASSUME NEW t \in Txs, ticks[p] # Nil, ticks[p].step = "ended",
                 ticks'[p] = [ticks[p] EXCEPT !.step = "tally", !.tx = t]
          PROVE  TickTypeOK(ticks'[p])
      BY <3>1, <3>4 DEF TickTypeOK
    <3>5. CASE ticks[p] # Nil /\ ticks'[p] = NextElection(ticks[p])
      BY <2>2, <3>1, <3>5, NextElectionTyped
    <3>6. ASSUME NEW t \in Txs, ticks[p] # Nil, ticks[p].tx = t, CommitTx(t),
                 ticks'[p] = TickAnswered(ticks[p], inflight[t].result)
          PROVE  TickTypeOK(ticks'[p])
      <4>1. CASE ticks[p].step \in {"update", "tally"}
        BY <2>2, <3>1, <3>6, <4>1, TickAnsweredTyped
      <4>2. CASE ticks[p].step \notin {"update", "tally"}
        <5>1. ticks[p].tx = Nil
          BY <3>1, <3>6, <4>2 DEF TickTypeOK
        <5>. QED
          BY <3>6, <5>1, NilIsNoPlace
      <4>. QED
        BY <4>1, <4>2
    <3>. QED
      BY <1>2, <2>2, <3>1, <3>2, <3>3, <3>4, <3>5, <3>6, TickSteps
  <2>3. ASSUME NEW r \in Requests, requests'[r] # Nil
        PROVE  RequestTypeOK(requests'[r])
    <3>1. requests[r] # Nil => RequestTypeOK(requests[r])
      BY <1>2 DEF ServerTypeOK
    <3>2. ASSUME NEW e \in Elections,
                 requests'[r] = [step |-> "asked", election |-> e, tx |-> Nil]
          PROVE  RequestTypeOK(requests'[r])
      BY <3>2 DEF RequestTypeOK
    <3>3. CASE /\ requests[r] # Nil
               /\ requests[r].step = "asked"
               /\ requests'[r] = [requests[r] EXCEPT !.step = "checked"]
      BY <3>1, <3>3 DEF RequestTypeOK
    <3>4. ASSUME NEW t \in Txs, requests[r] # Nil,
                 requests'[r] = [requests[r] EXCEPT !.step = "update", !.tx = t]
          PROVE  RequestTypeOK(requests'[r])
      BY <3>1, <3>4 DEF RequestTypeOK
    <3>5. CASE requests[r] # Nil /\ requests'[r] = RequestAnswered(requests[r])
      BY <3>1, <3>5 DEF RequestTypeOK, RequestAnswered
    <3>. QED
      BY <1>2, <2>3, <3>1, <3>2, <3>3, <3>4, <3>5, RequestSteps
  <2>. QED
    BY <2>1, <2>2, <2>3 DEF ServerTypeOK
<1>. QED
  BY <1>1, <1>2

\* Every step of the scheduler is a step of the contract, or leaves the ledger alone.
LEMMA SchedulerSteps ==
    ASSUME ServerTypeOK, [SchedulerNext]_schedulerVars
    PROVE  [Next]_ledgerVars
<1>1. CASE UNCHANGED schedulerVars
  BY <1>1 DEF schedulerVars, ledgerVars
<1>2. ASSUME NEW p \in Ticks, ProcessElections(p)
      PROVE  [Next]_ledgerVars
  <2>1. CASE StartTick(p) \/ TickSaves(p) \/ TickFails(p)
    BY <2>1 DEF StartTick, TickSaves, TickFails, ledgerVars
  <2>2. ASSUME NEW t \in Txs, TickUpdates(p, t)
        PROVE  Next
    <3>1. PICK task \in ticks[p].todo : UpdateElectionStatus(t, task[1], task[2])
      BY <2>2 DEF TickUpdates
    <3>2. task[1] \in Elections /\ task[2] \in Statuses
      BY <2>2, <3>1 DEF TickUpdates, ServerTypeOK, TickTypeOK, Task, Statuses
    <3>. QED
      BY <3>1, <3>2 DEF Next, ElectionCall
  <2>3. ASSUME NEW t \in Txs, TickTallies(p, t)
        PROVE  Next
    <3>1. ticks[p].at[1] \in Elections
      BY <2>3 DEF TickTallies, ServerTypeOK, TickTypeOK, Task
    <3>. QED
      BY <2>3, <3>1 DEF TickTallies, Next, ElectionCall
  <2>. QED
    BY <1>2, <2>1, <2>2, <2>3 DEF ProcessElections
<1>3. ASSUME NEW r \in Requests, PublishElectionResults(r)
      PROVE  [Next]_ledgerVars
  <2>1. ASSUME NEW t \in Txs, Publish(r, t)
        PROVE  Next
    <3>1. requests[r].election \in Elections
      BY <2>1 DEF Publish, ServerTypeOK, RequestTypeOK
    <3>. QED
      BY <2>1, <3>1 DEF Publish, Next, ElectionCall, Statuses
  <2>. QED
    BY <1>3, <2>1 DEF PublishElectionResults, AskPublish, CheckPublish, EndRequest, ledgerVars
<1>4. ASSUME NEW t \in Txs, ClientCall(t) \/ CommitTx(t) \/ DiscardTx(t)
      PROVE  Next
  BY <1>4 DEF ClientCall, CommitTx, DiscardTx, Next, ElectionCall
<1>5. ASSUME NEW e \in Elections, TimePasses(e)
      PROVE  UNCHANGED ledgerVars
  BY <1>5 DEF TimePasses, ledgerVars
<1>. QED
  BY <1>1, <1>2, <1>3, <1>4, <1>5 DEF SchedulerNext, Server

LEMMA InitServerTypes == SchedulerInit => ServerTypeOK
BY DEF SchedulerInit, ServerTypeOK

\* The calls and requests of the server keep their shape.
THEOREM ServerTypeCorrect == SchedulerSpec => []ServerTypeOK
BY InitServerTypes, ServerTypesStay, PTL DEF SchedulerSpec

\* The scheduler and the clients together are a behaviour of the contract: what is
\* proved of Spec holds of SchedulerSpec.
THEOREM SchedulerImplementsContract == SchedulerSpec => Spec
<1>1. SchedulerInit => Init
  BY DEF SchedulerInit
<1>2. ServerTypeOK /\ [SchedulerNext]_schedulerVars => [Next]_ledgerVars
  BY SchedulerSteps
<1>. QED
  BY <1>1, <1>2, ServerTypeCorrect, PTL DEF SchedulerSpec, Spec

-----------------------------------------------------------------------------
(* What is written to the elections *)

\* The transaction at t, if it writes the election e, is the one that was there
\* before, or has just been endorsed for a new election, for a task of
\* processElections or for a publish request.
ElectionWrite(t, e) ==
    \/ /\ Pending(t)
       /\ inflight'[t].writes = inflight[t].writes
       /\ inflight[t].stale => inflight'[t].stale
    \/ /\ worldState[ElectionKey(e)] = Nil
       /\ inflight'[t].writes[ElectionKey(e)].status = "scheduled"
       /\ UNCHANGED worldState
    \/ \E p \in Ticks :
        /\ TickUpdates(p, t)
        /\ <<e, inflight'[t].writes[ElectionKey(e)].status>> \in ticks[p].todo
        /\ UNCHANGED worldState
    \/ \E r \in Requests :
        /\ Publish(r, t)
        /\ requests[r].election = e
        /\ inflight'[t].writes[ElectionKey(e)].status = "published"
        /\ UNCHANGED worldState

LEMMA StatusWritten ==
    ASSUME TypeOK, NEW t \in Txs, NEW e \in Elections, NEW f \in Elections, NEW status,
           UpdateElectionStatus(t, f, status),
           ElectionKey(e) \in DOMAIN inflight'[t].writes
    PROVE  e = f /\ inflight'[t].writes[ElectionKey(e)].status = status
<1>. DEFINE old == worldState[ElectionKey(f)]
            new == [old EXCEPT !.status = status]
<1>1. ElectionKey(f) \in Keys
  BY KeysTyped
<1>2. Read({ElectionKey(f)})[ElectionKey(f)] = old
  BY DEF Read
<1>3. old \in Election
  BY <1>1, <1>2 DEF TypeOK, WellTyped, UpdateElectionStatus
<1>4. inflight'[t].writes = [k \in {ElectionKey(f)} |-> new]
  BY <1>2 DEF UpdateElectionStatus, Submit, Transaction, TypeOK
<1>5. new.status = status
  BY <1>3 DEF Election
<1>. HIDE DEF old, new
<1>6. ElectionKey(e) = ElectionKey(f)
  BY <1>4
<1>. QED
  BY <1>4, <1>5, <1>6, KeysDiffer

\* A new transaction is at its own place.
LEMMA ElsewhereUnchanged ==
    ASSUME TypeOK, NEW s \in Txs, NEW t \in Txs, NEW tx, s # t, Submit(s, tx)
    PROVE  inflight'[t] = inflight[t]
BY DEF Submit, TypeOK

LEMMA ElectionWrites ==
    ASSUME TypeOK, ServerTypeOK, SchedulerNext, NEW t \in Txs, NEW e \in Elections,
           Pending(t)', ElectionKey(e) \in DOMAIN inflight'[t].writes
    PROVE  ElectionWrite(t, e)
<1>1. CASE inflight'[t] = inflight[t]
  BY <1>1 DEF ElectionWrite, Pending
<1>2. ASSUME NEW s \in Txs, NEW p \in Ticks, TickUpdates(p, s), inflight'[t] # inflight[t]
      PROVE  ElectionWrite(t, e)
  <2>1. PICK task \in ticks[p].todo : UpdateElectionStatus(s, task[1], task[2])
    BY <1>2 DEF TickUpdates
  <2>2. task \in Task
    BY <1>2 DEF TickUpdates, ServerTypeOK, TickTypeOK
  <2>3. s = t /\ UNCHANGED worldState
    BY <1>2, <2>1, ElsewhereUnchanged DEF UpdateElectionStatus, Submit
  <2>4. e = task[1] /\ inflight'[t].writes[ElectionKey(e)].status = task[2]
    BY <2>1, <2>2, <2>3, StatusWritten DEF Task
  <2>5. task = <<e, inflight'[t].writes[ElectionKey(e)].status>>
    BY <2>2, <2>4 DEF Task
  <2>. QED
    BY <1>2, <2>3, <2>5 DEF ElectionWrite
<1>3. ASSUME NEW s \in Txs, NEW r \in Requests, Publish(r, s), inflight'[t] # inflight[t]
      PROVE  ElectionWrite(t, e)
  <2>1. UpdateElectionStatus(s, requests[r].election, "published")
    BY <1>3 DEF Publish
  <2>2. requests[r].election \in Elections
    BY <1>3 DEF Publish, ServerTypeOK, RequestTypeOK
  <2>3. s = t /\ UNCHANGED worldState
    BY <1>3, <2>1, ElsewhereUnchanged DEF UpdateElectionStatus, Submit
  <2>4. e = requests[r].election /\ inflight'[t].writes[ElectionKey(e)].status = "published"
    BY <2>1, <2>2, <2>3, StatusWritten
  <2>. QED
    BY <1>3, <2>3, <2>4 DEF ElectionWrite
<1>4. ASSUME NEW s \in Txs, NEW f \in Elections, NEW candidates, NEW eligible,
             CreateElection(s, f, candidates, eligible), inflight'[t] # inflight[t]
      PROVE  ElectionWrite(t, e)
  <2>1. s = t /\ UNCHANGED worldState
    BY <1>4, ElsewhereUnchanged DEF CreateElection, Submit
  <2>. DEFINE new == [candidates |-> candidates, eligible |-> eligible, status |-> "scheduled"]
  <2>2. inflight'[t].writes = [k \in {ElectionKey(f)} |-> new]
    BY <1>4, <2>1 DEF CreateElection, Submit, Transaction, TypeOK
  <2>3. new.status = "scheduled"
    OBVIOUS
  <2>. HIDE DEF new
  <2>4. ElectionKey(e) = ElectionKey(f)
    BY <2>2
  <2>5. worldState[ElectionKey(e)] = Nil
    BY <1>4, <2>4 DEF CreateElection, CanCreate, Read
  <2>. QED
    BY <2>1, <2>2, <2>3, <2>4, <2>5 DEF ElectionWrite
<1>5. ASSUME NEW s \in Txs, NEW f, ComputeVoteTally(s, f), inflight'[t] # inflight[t]
      PROVE  FALSE
  <2>1. s = t
    BY <1>5, ElsewhereUnchanged DEF ComputeVoteTally
  <2>2. DOMAIN inflight'[t].writes = {TallyKey(f)}
    BY <1>5, <2>1 DEF ComputeVoteTally, Submit, Transaction, TypeOK
  <2>. QED
    BY <2>2, KeysDiffer
<1>6. ASSUME NEW s \in Txs, UserCall(s), inflight'[t] # inflight[t]
      PROVE  FALSE
  <2>1. PICK u \in Users :
          \/ \E g \in Governorates, role \in Roles : RegisterUser(s, u, g, role)
          \/ \E caller \in Users, status \in UserStatuses :
                UpdateUserStatus(s, caller, u, status)
          \/ \E v \in VoteIds, f \in Elections, c \in Candidates : CastVote(s, u, v, f, c)
    BY <1>6 DEF UserCall
  <2>2. s = t
    BY <1>6, <2>1, ElsewhereUnchanged DEF RegisterUser, UpdateUserStatus, CastVote
  <2>3. CASE \E g \in Governorates, role \in Roles : RegisterUser(s, u, g, role)
    <3>1. DOMAIN inflight'[t].writes = {UserKey(u)}
      BY <2>2, <2>3 DEF RegisterUser, Submit, Transaction, TypeOK
    <3>. QED
      BY <3>1, KeysDiffer
  <2>4. CASE \E caller \in Users, status \in UserStatuses :
               UpdateUserStatus(s, caller, u, status)
    <3>1. PICK caller \in Users, status \in UserStatuses :
             UpdateUserStatus(s, caller, u, status)
      BY <2>4
    <3>2. DOMAIN inflight'[t].writes = StatusWrites(u, status)
      BY <2>2, <3>1 DEF UpdateUserStatus, Submit, Transaction, TypeOK
    <3>. QED
      BY <3>2, KeysDiffer DEF StatusWrites
  <2>5. CASE \E v \in VoteIds, f \in Elections, c \in Candidates : CastVote(s, u, v, f, c)
    <3>1. PICK v \in VoteIds, f \in Elections, c \in Candidates : CastVote(s, u, v, f, c)
      BY <2>5
    <3>2. DOMAIN inflight'[t].writes = {VoteKey(v), UserKey(u)}
      BY <2>2, <3>1 DEF CastVote, Submit, Transaction, TypeOK
    <3>. QED
      BY <3>2, KeysDiffer
  <2>. QED
    BY <2>1, <2>3, <2>4, <2>5
<1>7. ASSUME NEW s \in Txs, CommitTx(s)
      PROVE  ElectionWrite(t, e)
  BY <1>7, CommitFacts DEF CommitTx, ElectionWrite, TypeOK, WellFormed
<1>8. ASSUME NEW s \in Txs, DiscardTx(s)
      PROVE  inflight'[t] = inflight[t]
  BY <1>8 DEF DiscardTx, Discard, TypeOK, Pending
<1>9. ASSUME NEW p \in Ticks, ProcessElections(p)
      PROVE  ElectionWrite(t, e)
  <2>1. CASE StartTick(p) \/ TickSaves(p) \/ TickFails(p)
    BY <1>1, <2>1 DEF StartTick, TickSaves, TickFails
  <2>2. CASE \E s \in Txs : TickUpdates(p, s)
    BY <1>1, <1>2, <2>2
  <2>3. CASE \E s \in Txs : TickTallies(p, s)
    BY <1>1, <1>5, <2>3 DEF TickTallies
  <2>. QED
    BY <1>9, <2>1, <2>2, <2>3 DEF ProcessElections
<1>10. ASSUME NEW r \in Requests, PublishElectionResults(r)
       PROVE  ElectionWrite(t, e)
  <2>1. CASE \E s \in Txs : Publish(r, s)
    BY <1>1, <1>3, <2>1
  <2>. QED
    BY <1>1, <1>10, <2>1 DEF PublishElectionResults, AskPublish, CheckPublish, EndRequest
<1>11. ASSUME NEW s \in Txs, ClientCall(s)
       PROVE  ElectionWrite(t, e)
  BY <1>1, <1>4, <1>5, <1>6, <1>11 DEF ClientCall
<1>12. ASSUME NEW f \in Elections, TimePasses(f)
       PROVE  ElectionWrite(t, e)
  BY <1>1, <1>12 DEF TimePasses
<1>. QED
  BY <1>1, <1>7, <1>8, <1>9, <1>10, <1>11, <1>12 DEF SchedulerNext, Server

\* A task is on the list of a call because it was there or because it is due.
LEMMA Tasks ==
    ASSUME ServerTypeOK, [SchedulerNext]_schedulerVars,
           NEW p \in Ticks, NEW e \in Elections, NEW status, ToDo(p, e, status)'
    PROVE  ToDo(p, e, status) \/ (StartTick(p) /\ <<e, status>> \in Due)
<1>1. CASE UNCHANGED schedulerVars
  BY <1>1 DEF schedulerVars, ToDo
<1>2. CASE SchedulerNext
  <2>. DEFINE old == ticks[p]
              new == ticks'[p]
  <2>1. new # Nil /\ <<e, status>> \in new.todo
    BY DEF ToDo
  <2>2. old # Nil => TickTypeOK(old)
    BY DEF ServerTypeOK
  <2>3. CASE new = old
    BY <2>1, <2>3 DEF ToDo
  <2>4. CASE StartTick(p) /\ new = Loop(Due)
    BY <2>1, <2>4 DEF Loop
  <2>5. ASSUME NEW t, NEW task, old # Nil,
               new = [old EXCEPT !.step = "update", !.at = task, !.tx = t]
        PROVE  ToDo(p, e, status)
    BY <2>1, <2>2, <2>5 DEF ToDo, TickTypeOK
  <2>6. ASSUME NEW t, old # Nil, new = [old EXCEPT !.step = "tally", !.tx = t]
        PROVE  ToDo(p, e, status)
    BY <2>1, <2>2, <2>6 DEF ToDo, TickTypeOK
  <2>7. CASE old # Nil /\ new = NextElection(old)
    BY <2>1, <2>2, <2>7, NextElectionTyped DEF ToDo
  <2>8. ASSUME NEW t \in Txs, old # Nil, CommitTx(t), old.tx = t,
               new = TickAnswered(old, inflight[t].result)
        PROVE  ToDo(p, e, status)
    <3>1. old.step \in {"update", "tally"}
      BY <2>2, <2>8, NilIsNoPlace DEF TickTypeOK
    <3>. QED
      BY <2>1, <2>2, <2>8, <3>1, TickAnsweredTyped DEF ToDo
  <2>. QED
    BY <1>2, <2>1, <2>3, <2>4, <2>5, <2>6, <2>7, <2>8, TickSteps
<1>. QED
  BY <1>1, <1>2

\* A status changes when a transaction that writes it commits.
LEMMA StatusChanges ==
    ASSUME IInv, [Next]_ledgerVars, NEW e \in Elections, StatusOf(e)' # StatusOf(e)
    PROVE  \E t \in Txs : /\ Commit(t)
                          /\ ElectionKey(e) \in DOMAIN inflight[t].writes
                          /\ Writes(t, e, StatusOf(e)')
<1>1. worldState' # worldState
  BY DEF StatusOf
<1>2. PICK t \in Txs : Commit(t)
  BY <1>1, WorldStateChanges
<1>3. ElectionKey(e) \in Keys
  BY KeysTyped
<1>4. ElectionKey(e) \in DOMAIN inflight[t].writes
  BY <1>2, <1>3, CommitFacts DEF IInv, StatusOf
<1>5. /\ worldState'[ElectionKey(e)] = inflight[t].writes[ElectionKey(e)]
      /\ inflight[t].writes[ElectionKey(e)] # Nil
      /\ Pending(t)
  BY <1>2, <1>3, <1>4, CommitFacts DEF IInv, WellFormed
<1>. QED
  BY <1>2, <1>4, <1>5 DEF StatusOf, Writes

-----------------------------------------------------------------------------
(* Elections open and end on time *)

THEOREM SchedulerInvariance == SchedulerSpec => []IInv
BY SchedulerImplementsContract, Invariance, PTL

LEMMA DecidedOnTimeStays ==
    ASSUME IInv, ServerTypeOK, DecidedOnTime, [SchedulerNext]_schedulerVars
    PROVE  DecidedOnTime'
<1>1. CASE UNCHANGED schedulerVars
  BY <1>1 DEF schedulerVars, DecidedOnTime, ToDo, Writes, Pending
<1>2. CASE SchedulerNext
  <2>1. started \subseteq started' /\ over \subseteq over'
    BY <1>2 DEF SchedulerNext, Server, ProcessElections, PublishElectionResults, StartTick,
                TickUpdates, TickTallies, TickSaves, TickFails, AskPublish, CheckPublish,
                Publish, EndRequest, ClientCall, CommitTx, DiscardTx, TimePasses
  <2>2. ASSUME NEW e \in Elections, NEW p \in Ticks, NEW status, ToDo(p, e, status)'
        PROVE  /\ status = "live" => e \in started
               /\ status = "ended" => e \in over
    <3>1. CASE ToDo(p, e, status)
      BY <3>1 DEF DecidedOnTime
    <3>2. CASE <<e, status>> \in Due
      BY <3>2 DEF Due
    <3>. QED
      BY <2>2, <3>1, <3>2, Tasks
  <2>3. ASSUME NEW e \in Elections, NEW t \in Txs, NEW status, Writes(t, e, status)'
        PROVE  /\ status = "live" => e \in started
               /\ status = "ended" => e \in over
    <3>1. /\ Pending(t)'
          /\ ElectionKey(e) \in DOMAIN inflight'[t].writes
          /\ inflight'[t].writes[ElectionKey(e)].status = status
      BY <2>3 DEF Writes
    <3>2. ElectionWrite(t, e)
      BY <1>2, <3>1, ElectionWrites DEF IInv
    <3>3. CASE Pending(t) /\ inflight'[t].writes = inflight[t].writes
      BY <3>1, <3>3 DEF DecidedOnTime, Writes
    <3>4. ASSUME NEW p \in Ticks, TickUpdates(p, t), <<e, status>> \in ticks[p].todo
          PROVE  ToDo(p, e, status)
      BY <3>4 DEF TickUpdates, ToDo
    <3>5. CASE \E p \in Ticks : ToDo(p, e, status)
      BY <3>5 DEF DecidedOnTime
    <3>6. CASE status \in {"scheduled", "published"}
      BY <3>6
    <3>. QED
      BY <3>1, <3>2, <3>3, <3>4, <3>5, <3>6 DEF ElectionWrite
  <2>. QED
    BY <2>1, <2>2, <2>3 DEF DecidedOnTime
<1>. QED
  BY <1>1, <1>2

\* Whatever is still to be written was decided in time.
LEMMA DecidedInvariance == SchedulerSpec => []DecidedOnTime
<1>1. SchedulerInit => DecidedOnTime
  BY DEF SchedulerInit, Init, DecidedOnTime, ToDo, Writes, Pending
<1>2. IInv /\ ServerTypeOK /\ DecidedOnTime /\ [SchedulerNext]_schedulerVars => DecidedOnTime'
  BY DecidedOnTimeStays
<1>. QED
  BY <1>1, <1>2, SchedulerInvariance, ServerTypeCorrect, PTL DEF SchedulerSpec

\* No election turns live before its start time or ended before its end time,
\* whatever overlaps, fails or arrives late.
THEOREM ElectionsAreOnTime == SchedulerSpec => OnTime
<1>. DEFINE Timely ==
              \A e \in Elections : StatusOf(e)' # StatusOf(e) =>
                /\ StatusOf(e)' = "live" => e \in started
                /\ StatusOf(e)' = "ended" => e \in over
<1>1. IInv /\ ServerTypeOK /\ DecidedOnTime /\ [SchedulerNext]_schedulerVars
        => [Timely]_schedulerVars
  <2>. SUFFICES ASSUME IInv, ServerTypeOK, DecidedOnTime, [SchedulerNext]_schedulerVars,
                       NEW e \in Elections, StatusOf(e)' # StatusOf(e)
                PROVE  /\ StatusOf(e)' = "live" => e \in started
                       /\ StatusOf(e)' = "ended" => e \in over
    OBVIOUS
  <2>1. PICK t \in Txs : Writes(t, e, StatusOf(e)')
    BY SchedulerSteps, StatusChanges
  <2>. QED
    BY <2>1 DEF DecidedOnTime
<1>. QED
  BY <1>1, DecidedInvariance, SchedulerInvariance, ServerTypeCorrect, PTL DEF SchedulerSpec, OnTime

-----------------------------------------------------------------------------
(* One call of processElections at a time *)

\* A status only ever moves on, to what a transaction in flight says.
LEMMA StatusMovesOn ==
    ASSUME IInv, WritesMoveOn, [Next]_ledgerVars,
           NEW e \in Elections, StatusOf(e)' # StatusOf(e)
    PROVE  /\ Before(StatusOf(e), StatusOf(e)')
           /\ \E t \in Txs : ~inflight[t].stale /\ Writes(t, e, StatusOf(e)')
<1>1. PICK t \in Txs : /\ Commit(t)
                      /\ ElectionKey(e) \in DOMAIN inflight[t].writes
                      /\ Writes(t, e, StatusOf(e)')
  BY StatusChanges
<1>2. Pending(t) /\ ~inflight[t].stale
  BY <1>1 DEF Commit
<1>. QED
  BY <1>1, <1>2 DEF WritesMoveOn, Writes

\* Who writes an election has read it.
LEMMA ElectionWritersRead ==
    ASSUME IInv, NEW t \in Txs, NEW e \in Elections,
           Pending(t), ElectionKey(e) \in DOMAIN inflight[t].writes
    PROVE  ElectionKey(e) \in DOMAIN inflight[t].reads
<1>. DEFINE tx == inflight[t]
<1>1. Proposal(tx)
  BY DEF IInv, AllAreProposals
<1>. HIDE DEF tx
<1>2. ElectionKey(e) \in DOMAIN tx.writes
  BY DEF tx
<1>3. \A f \in Elections : ~TallyProposal(tx, f)
  BY <1>2, KeysDiffer DEF TallyProposal
<1>4. \A u \in Users : ~UserProposal(tx, u)
  BY <1>2, KeysDiffer DEF UserProposal
<1>5. \A u \in Users, v \in VoteIds, f \in Elections, c \in Candidates :
         ~VoteProposal(tx, u, v, f, c)
  BY <1>2, KeysDiffer DEF VoteProposal
<1>6. PICK f \in Elections : ElectionProposal(tx, f)
  BY <1>1, <1>3, <1>4, <1>5, Zenon DEF Proposal
<1>7. f = e
  BY <1>2, <1>6, KeysDiffer DEF ElectionProposal
<1>. QED
  BY <1>6, <1>7 DEF ElectionProposal, tx

LEMMA WritesMoveOnStays ==
    ASSUME IInv, ServerTypeOK, ClosingInv, SchedulerNext
    PROVE  WritesMoveOn'
<1>. SUFFICES ASSUME NEW t \in Txs, NEW e \in Elections, Pending(t)', ~inflight'[t].stale,
                     ElectionKey(e) \in DOMAIN inflight'[t].writes
              PROVE  Before(StatusOf(e)', inflight'[t].writes[ElectionKey(e)].status)
  BY DEF WritesMoveOn, Before
<1>. DEFINE new == inflight'[t].writes[ElectionKey(e)].status
<1>1. ElectionWrite(t, e)
  BY ElectionWrites DEF IInv
<1>2. CASE StatusOf(e)' = StatusOf(e)
  <2>1. CASE /\ Pending(t)
             /\ inflight'[t].writes = inflight[t].writes
             /\ inflight[t].stale => inflight'[t].stale
    BY <1>2, <2>1 DEF ClosingInv, WritesMoveOn
  <2>2. CASE worldState[ElectionKey(e)] = Nil /\ new = "scheduled"
    BY <1>2, <2>2 DEF StatusOf, Before
  <2>3. ASSUME NEW p \in Ticks, TickUpdates(p, t), <<e, new>> \in ticks[p].todo
        PROVE  Before(StatusOf(e)', new)
    <3>1. ToDo(p, e, new) /\ new \in {"live", "ended"}
      BY <2>3 DEF ToDo, TickUpdates, ServerTypeOK, TickTypeOK, Task
    <3>. QED
      BY <1>2, <3>1 DEF ClosingInv, TasksMoveOn
  <2>4. ASSUME NEW r \in Requests, Publish(r, t), requests[r].election = e, new = "published"
        PROVE  Before(StatusOf(e)', new)
    BY <1>2, <2>4 DEF Publish, ClosingInv, RequestsAreForClosed, Before
  <2>. QED
    BY <1>1, <2>1, <2>2, <2>3, <2>4 DEF ElectionWrite
<1>3. CASE StatusOf(e)' # StatusOf(e)
  <2>1. PICK s \in Txs : Commit(s) /\ ElectionKey(e) \in DOMAIN inflight[s].writes
    BY <1>3, SchedulerSteps, StatusChanges
  <2>2. /\ Pending(t)
        /\ inflight'[t].writes = inflight[t].writes
        /\ DOMAIN inflight[t].reads \cap DOMAIN inflight[s].writes = {}
    BY <2>1, CommitFacts DEF IInv
  <2>3. ElectionKey(e) \in DOMAIN inflight[t].reads
    BY <2>2, ElectionWritersRead
  <2>. QED
    BY <2>1, <2>2, <2>3
<1>. QED
  BY <1>2, <1>3

LEMMA TasksMoveOnStays ==
    ASSUME OneAtATime, IInv, ServerTypeOK, ClosingInv, SchedulerNext
    PROVE  TasksMoveOn'
<1>1. WritesMoveOn /\ TasksMoveOn
  BY DEF ClosingInv
<1>2. [Next]_ledgerVars
  BY SchedulerSteps
<1>3. ASSUME NEW p \in Ticks, StartTick(p)
      PROVE  /\ ticks[p] = Nil
             /\ \A f \in Elections : StatusOf(f)' = StatusOf(f)
             /\ inflight' = inflight
  BY <1>3 DEF StartTick, StatusOf
<1>4. ASSUME NEW p \in Ticks, NEW e \in Elections, ToDo(p, e, "live")'
      PROVE  /\ Before(StatusOf(e)', "live")
             /\ ~ToDo(p, e, "ended")'
             /\ \A t \in Txs : Writes(t, e, "ended")' => inflight'[t].stale
  <2>1. CASE ToDo(p, e, "live")
    <3>1. /\ StatusOf(e) \in {"scheduled", "live"}
          /\ ~ToDo(p, e, "ended")
          /\ \A t \in Txs : Writes(t, e, "ended") => inflight[t].stale
      BY <1>1, <2>1 DEF TasksMoveOn, Before
    <3>2. StatusOf(e)' \in {"scheduled", "live"}
      <4>1. CASE StatusOf(e)' # StatusOf(e)
        <5>1. /\ Before(StatusOf(e), StatusOf(e)')
              /\ StatusOf(e)' # "ended"
          BY <1>1, <1>2, <3>1, <4>1, StatusMovesOn
        <5>. QED
          BY <3>1, <5>1, NilIsNoStatus DEF Before, Statuses
      <4>. QED
        BY <3>1, <4>1
    <3>3. ~ToDo(p, e, "ended")'
      BY <1>3, <2>1, <3>1, Tasks DEF ToDo
    <3>4. ASSUME NEW t \in Txs, Writes(t, e, "ended")'
          PROVE  inflight'[t].stale
      <4>1. ElectionWrite(t, e) /\ inflight'[t].writes[ElectionKey(e)].status = "ended"
        BY <3>4, ElectionWrites DEF Writes, IInv, Pending
      <4>2. ASSUME NEW q \in Ticks, TickUpdates(q, t), <<e, "ended">> \in ticks[q].todo
            PROVE  FALSE
        <5>1. ToDo(p, e, "ended")
          BY <4>2 DEF OneAtATime, TickUpdates, ToDo
        <5>. QED
          BY <3>1, <5>1
      <4>. QED
        BY <3>1, <3>4, <4>1, <4>2 DEF ElectionWrite, Writes
    <3>. QED
      BY <3>2, <3>3, <3>4 DEF Before
  <2>2. CASE StartTick(p) /\ <<e, "live">> \in Due
    <3>1. StatusOf(e)' = "scheduled" /\ StatusOf(e) = "scheduled"
      BY <1>3, <2>2 DEF Due
    <3>2. ~ToDo(p, e, "ended")'
      BY <1>3, <2>2, <3>1, Tasks DEF ToDo, Due
    <3>3. ASSUME NEW t \in Txs, Writes(t, e, "ended")'
          PROVE  inflight'[t].stale
      <4>1. Writes(t, e, "ended") /\ inflight' = inflight
        BY <1>3, <2>2, <3>3 DEF Writes, Pending
      <4>2. ~Before("scheduled", "ended")
        BY DEF Before
      <4>. QED
        BY <1>1, <3>1, <4>1, <4>2 DEF WritesMoveOn, Writes
    <3>. QED
      BY <3>1, <3>2, <3>3 DEF Before
  <2>. QED
    BY <1>4, <2>1, <2>2, Tasks
<1>5. ASSUME NEW p \in Ticks, NEW e \in Elections, ToDo(p, e, "ended")'
      PROVE  Before(StatusOf(e)', "ended")
  <2>1. CASE ToDo(p, e, "ended")
    <3>1. StatusOf(e) \in {"live", "ended", "published"}
      BY <1>1, <2>1 DEF TasksMoveOn, Before
    <3>2. StatusOf(e)' = StatusOf(e) \/ Before(StatusOf(e), StatusOf(e)')
      BY <1>1, <1>2, StatusMovesOn
    <3>. QED
      BY <3>1, <3>2, NilIsNoStatus DEF Before, Statuses
  <2>2. CASE StartTick(p) /\ <<e, "ended">> \in Due
    BY <1>3, <2>2 DEF Due, Before
  <2>. QED
    BY <1>5, <2>1, <2>2, Tasks
<1>. QED
  BY <1>4, <1>5 DEF TasksMoveOn, Before

LEMMA RequestsAreForClosedStays ==
    ASSUME IInv, ServerTypeOK, ClosingInv, SchedulerNext
    PROVE  RequestsAreForClosed'
<1>. SUFFICES ASSUME NEW r \in Requests, NEW e \in Elections,
                     requests'[r] # Nil, requests'[r].election = e
              PROVE  StatusOf(e)' \in {"ended", "published"}
  BY DEF RequestsAreForClosed
<1>1. CASE StatusOf(e) \in {"ended", "published"}
  <2>1. StatusOf(e)' = StatusOf(e) \/ Before(StatusOf(e), StatusOf(e)')
    BY SchedulerSteps, StatusMovesOn DEF ClosingInv
  <2>. QED
    BY <1>1, <2>1, NilIsNoStatus DEF Before, Statuses
<1>2. CASE requests[r] # Nil /\ requests[r].election = e
  BY <1>1, <1>2 DEF ClosingInv, RequestsAreForClosed
<1>3. CASE AskPublish(r, e)
  BY <1>1, <1>3 DEF AskPublish, MayPublish
<1>4. requests[r] # Nil => RequestTypeOK(requests[r])
  BY DEF ServerTypeOK
<1>5. CASE requests'[r] = requests[r]
  BY <1>2, <1>5
<1>6. ASSUME NEW f \in Elections, AskPublish(r, f),
             requests'[r] = [step |-> "asked", election |-> f, tx |-> Nil]
      PROVE  AskPublish(r, e)
  BY <1>6
<1>7. CASE requests[r] # Nil /\ requests'[r] = [requests[r] EXCEPT !.step = "checked"]
  BY <1>2, <1>4, <1>7 DEF RequestTypeOK
<1>8. ASSUME NEW t \in Txs, requests[r] # Nil,
             requests'[r] = [requests[r] EXCEPT !.step = "update", !.tx = t]
      PROVE  requests[r].election = e
  BY <1>4, <1>8 DEF RequestTypeOK
<1>9. CASE requests[r] # Nil /\ requests'[r] = RequestAnswered(requests[r])
  BY <1>2, <1>4, <1>9 DEF RequestTypeOK, RequestAnswered
<1>. QED
  BY <1>2, <1>3, <1>5, <1>6, <1>7, <1>8, <1>9, RequestSteps

LEMMA ClosingInvStays ==
    ASSUME OneAtATime, IInv, ServerTypeOK, ClosingInv, [SchedulerNext]_schedulerVars
    PROVE  ClosingInv'
<1>1. CASE UNCHANGED schedulerVars
  BY <1>1 DEF schedulerVars, ClosingInv, WritesMoveOn, TasksMoveOn, RequestsAreForClosed,
              ToDo, Writes, Pending, StatusOf, Before
<1>2. CASE SchedulerNext
  BY <1>2, WritesMoveOnStays, TasksMoveOnStays, RequestsAreForClosedStays DEF ClosingInv
<1>. QED
  BY <1>1, <1>2

LEMMA InitClosing == SchedulerInit => ClosingInv
BY DEF SchedulerInit, Init, ClosingInv, WritesMoveOn, TasksMoveOn, RequestsAreForClosed,
       ToDo, Writes, Pending

LEMMA ClosingInvariance == OneAtATime => (SchedulerSpec => []ClosingInv)
<1>. SUFFICES ASSUME OneAtATime PROVE SchedulerSpec => []ClosingInv
  OBVIOUS
<1>1. IInv /\ ServerTypeOK /\ ClosingInv /\ [SchedulerNext]_schedulerVars => ClosingInv'
  BY ClosingInvStays
<1>. QED
  BY <1>1, InitClosing, SchedulerInvariance, ServerTypeCorrect, PTL DEF SchedulerSpec

\* As long as calls of processElections do not overlap, an election that has ended
\* never takes votes again.
THEOREM EndedStaysClosed == OneAtATime => (SchedulerSpec => ClosedForGood)
<1>. SUFFICES ASSUME OneAtATime PROVE SchedulerSpec => ClosedForGood
  OBVIOUS
<1>. DEFINE StaysClosed ==
              \A e \in Elections :
                StatusOf(e) \in {"ended", "published"} =>
                    StatusOf(e)' \in {"ended", "published"}
<1>1. IInv /\ ServerTypeOK /\ ClosingInv /\ [SchedulerNext]_schedulerVars
        => [StaysClosed]_schedulerVars
  <2>. SUFFICES ASSUME IInv, ServerTypeOK, ClosingInv, [SchedulerNext]_schedulerVars,
                       NEW e \in Elections, StatusOf(e) \in {"ended", "published"}
                PROVE  StatusOf(e)' \in {"ended", "published"}
    OBVIOUS
  <2>1. StatusOf(e)' = StatusOf(e) \/ Before(StatusOf(e), StatusOf(e)')
    BY SchedulerSteps, StatusMovesOn DEF ClosingInv
  <2>. QED
    BY <2>1, NilIsNoStatus DEF Before, Statuses
<1>. QED
  BY <1>1, ClosingInvariance, SchedulerInvariance, ServerTypeCorrect, PTL
     DEF SchedulerSpec, ClosedForGood

\* Under the same condition an election is published only after it has ended.
THEOREM EndedBeforePublished == OneAtATime => (SchedulerSpec => PublishedFromEnded)
<1>. SUFFICES ASSUME OneAtATime PROVE SchedulerSpec => PublishedFromEnded
  OBVIOUS
<1>. DEFINE FromEnded ==
              \A e \in Elections :
                StatusOf(e)' = "published" => StatusOf(e) \in {"ended", "published"}
<1>1. IInv /\ ServerTypeOK /\ ClosingInv /\ [SchedulerNext]_schedulerVars
        => [FromEnded]_schedulerVars
  <2>. SUFFICES ASSUME IInv, ServerTypeOK, ClosingInv, [SchedulerNext]_schedulerVars,
                       NEW e \in Elections, StatusOf(e)' = "published"
                PROVE  StatusOf(e) \in {"ended", "published"}
    OBVIOUS
  <2>1. StatusOf(e)' = StatusOf(e) \/ Before(StatusOf(e), StatusOf(e)')
    BY SchedulerSteps, StatusMovesOn DEF ClosingInv
  <2>. QED
    BY <2>1 DEF Before
<1>. QED
  BY <1>1, ClosingInvariance, SchedulerInvariance, ServerTypeCorrect, PTL
     DEF SchedulerSpec, PublishedFromEnded

-----------------------------------------------------------------------------
(* Every call awaits its own transaction *)

\* What the server and its clients do to the transactions is to add one.
LEMMA CallsSubmit ==
    ASSUME \/ Server
           \/ \E t \in Txs : ClientCall(t)
           \/ \E e \in Elections : TimePasses(e)
    PROVE  \/ \E t \in Txs : \E tx : Submit(t, tx)
           \/ inflight' = inflight
<1>1. CASE Server
  <2>1. ASSUME NEW t \in Txs, NEW e, NEW status, UpdateElectionStatus(t, e, status)
        PROVE  \E tx : Submit(t, tx)
    BY <2>1 DEF UpdateElectionStatus
  <2>2. ASSUME NEW t \in Txs, NEW e, ComputeVoteTally(t, e)
        PROVE  \E tx : Submit(t, tx)
    BY <2>2 DEF ComputeVoteTally
  <2>3. ASSUME NEW p \in Ticks, ProcessElections(p)
        PROVE  inflight' = inflight \/ \E t \in Txs : \E tx : Submit(t, tx)
    BY <2>1, <2>2, <2>3 DEF ProcessElections, StartTick, TickUpdates, TickTallies,
                            TickSaves, TickFails
  <2>4. ASSUME NEW r \in Requests, PublishElectionResults(r)
        PROVE  inflight' = inflight \/ \E t \in Txs : \E tx : Submit(t, tx)
    BY <2>1, <2>4 DEF PublishElectionResults, AskPublish, CheckPublish, Publish, EndRequest
  <2>. QED
    BY <1>1, <2>3, <2>4 DEF Server
<1>2. ASSUME NEW t \in Txs, UserCall(t)
      PROVE  \E tx : Submit(t, tx)
  <2>1. PICK u \in Users :
          \/ \E g \in Governorates, role \in Roles : RegisterUser(t, u, g, role)
          \/ \E caller \in Users, status \in UserStatuses :
                UpdateUserStatus(t, caller, u, status)
          \/ \E v \in VoteIds, e \in Elections, c \in Candidates : CastVote(t, u, v, e, c)
    BY <1>2 DEF UserCall
  <2>2. CASE \E g \in Governorates, role \in Roles : RegisterUser(t, u, g, role)
    BY <2>2 DEF RegisterUser
  <2>3. CASE \E caller \in Users, status \in UserStatuses :
               UpdateUserStatus(t, caller, u, status)
    BY <2>3 DEF UpdateUserStatus
  <2>4. CASE \E v \in VoteIds, e \in Elections, c \in Candidates : CastVote(t, u, v, e, c)
    BY <2>4 DEF CastVote
  <2>. QED
    BY <2>1, <2>2, <2>3, <2>4
<1>3. ASSUME NEW t \in Txs, NEW e, NEW candidates, NEW eligible,
             CreateElection(t, e, candidates, eligible)
      PROVE  \E tx : Submit(t, tx)
  BY <1>3 DEF CreateElection
<1>4. ASSUME NEW t \in Txs, NEW e, ComputeVoteTally(t, e)
      PROVE  \E tx : Submit(t, tx)
  BY <1>4 DEF ComputeVoteTally
<1>5. CASE \E t \in Txs : ClientCall(t)
  BY <1>2, <1>3, <1>4, <1>5 DEF ClientCall
<1>6. CASE \E e \in Elections : TimePasses(e)
  BY <1>6 DEF TimePasses
<1>. QED
  BY <1>1, <1>5, <1>6

\* A transaction stays at its place until it commits or is discarded.
LEMMA InflightSteps ==
    ASSUME SchedulerNext
    PROVE  \/ \E t \in Txs : CommitTx(t) \/ DiscardTx(t)
           \/ \E t \in Txs : \E tx : Submit(t, tx)
           \/ inflight' = inflight
BY CallsSubmit DEF SchedulerNext

\* A call that stays as it is still awaits the transaction it awaited.
LEMMA AwaitStays ==
    ASSUME NilIsNoTransaction, TypeOK, ServerTypeOK, SchedulerNext, NEW p \in Ticks,
           ticks[p] # Nil, ticks'[p] = ticks[p], AwaitsItsOwn(ticks[p], inflight)
    PROVE  AwaitsItsOwn(ticks[p], inflight')
<1>. DEFINE tick == ticks[p]
            s    == tick.tx
<1>1. TickTypeOK(tick)
  BY DEF ServerTypeOK
<1>2. CASE tick.step \notin {"update", "tally"}
  BY <1>2 DEF AwaitsItsOwn
<1>3. CASE tick.step \in {"update", "tally"}
  <2>1. s \in Txs /\ inflight[s] # Nil
    BY <1>1, <1>3 DEF TickTypeOK, AwaitsItsOwn
  <2>2. SUFFICES /\ inflight'[s] # Nil
                 /\ inflight'[s].writes = inflight[s].writes
                 /\ inflight'[s].result = inflight[s].result
    BY DEF AwaitsItsOwn
  <2>3. ASSUME NEW t \in Txs, CommitTx(t)
        PROVE  /\ inflight'[s] # Nil
               /\ inflight'[s].writes = inflight[s].writes
               /\ inflight'[s].result = inflight[s].result
    <3>1. s # t
      <4>1. SUFFICES ASSUME s = t PROVE FALSE
        OBVIOUS
      <4>2. tick = TickAnswered(tick, inflight[t].result)
        BY <2>3, <4>1 DEF CommitTx, WaitsFor
      <4>3. tick.at[2] \in {"live", "ended"}
        BY <1>1, <1>3 DEF TickTypeOK, Task
      <4>4. CASE tick.step = "update" /\ tick.at[2] = "live"
        <5>1. tick = NextElection(tick)
          BY <4>2, <4>4 DEF TickAnswered
        <5>2. tick.step = "loop"
          BY <1>1, <5>1, NextElectionTyped
        <5>. QED
          BY <4>4, <5>2
      <4>5. CASE tick.step = "update" /\ tick.at[2] = "ended"
        <5>1. tick = [tick EXCEPT !.step = "ended", !.tx = Nil]
          BY <4>2, <4>5 DEF TickAnswered
        <5>2. tick.step = "ended"
          BY <1>1, <5>1 DEF TickTypeOK
        <5>. QED
          BY <4>5, <5>2
      <4>6. CASE tick.step = "tally"
        <5>1. tick = [tick EXCEPT !.step = "save", !.tx = Nil,
                                  !.tally = inflight[t].result.tallies]
          BY <4>2, <4>6 DEF TickAnswered
        <5>2. tick.step = "save"
          BY <1>1, <5>1 DEF TickTypeOK
        <5>. QED
          BY <4>6, <5>2
      <4>. QED
        BY <1>3, <4>3, <4>4, <4>5, <4>6
    <3>2. Commit(t)
      BY <2>3 DEF CommitTx
    <3>3. WellFormed(inflight[s])
      BY <2>1 DEF TypeOK, Pending
    <3>. DEFINE clash == DOMAIN inflight[s].reads \cap DOMAIN inflight[t].writes # {}
    <3>4. inflight'[s] = [inflight[s] EXCEPT !.stale = @ \/ clash]
      BY <2>1, <3>1, <3>2 DEF Commit, AfterCommit, Pending
    <3>. HIDE DEF clash
    <3>5. DOMAIN inflight'[s] = DOMAIN inflight[s]
      BY <3>4
    <3>6. inflight'[s] # Nil
      BY <3>3, <3>5 DEF WellFormed, NilIsNoTransaction
    <3>. QED
      BY <2>1, <3>2, <3>6, CommitFacts DEF Pending
  <2>4. ASSUME NEW t \in Txs, DiscardTx(t)
        PROVE  inflight'[s] = inflight[s]
    <3>1. s # t
      BY <2>4 DEF DiscardTx, WaitsFor
    <3>. QED
      BY <2>1, <2>4, <3>1 DEF DiscardTx, Discard, TypeOK
  <2>5. ASSUME NEW t \in Txs, NEW tx, Submit(t, tx)
        PROVE  inflight'[s] = inflight[s]
    BY <2>1, <2>5 DEF Submit, TypeOK
  <2>. QED
    BY <2>1, <2>3, <2>4, <2>5, InflightSteps
<1>. QED
  BY <1>2, <1>3

LEMMA DocumentSteps ==
    ASSUME SchedulerNext
    PROVE  tallyDocs' = tallyDocs \/ \E p \in Ticks : TickSaves(p)
BY DEF SchedulerNext, Server, ProcessElections, PublishElectionResults, StartTick,
       TickUpdates, TickTallies, TickFails, AskPublish, CheckPublish, Publish, EndRequest,
       ClientCall, CommitTx, DiscardTx, TimePasses

\* The transaction of a status update is endorsed for that election and status.
LEMMA UpdateIsAwaited ==
    ASSUME NilIsNoTransaction, TypeOK, NEW t \in Txs, NEW e \in Elections, NEW status,
           UpdateElectionStatus(t, e, status)
    PROVE  /\ inflight'[t] # Nil
           /\ ElectionKey(e) \in DOMAIN inflight'[t].writes
           /\ inflight'[t].writes[ElectionKey(e)].status = status
<1>1. PICK reads, new, event :
        inflight'[t] = Transaction(reads, [k \in {ElectionKey(e)} |-> new], event, Nil)
  BY DEF UpdateElectionStatus, Submit, TypeOK
<1>2. DOMAIN inflight'[t] = {"reads", "writes", "event", "result", "stale"}
  BY <1>1 DEF Transaction
<1>3. DOMAIN inflight'[t].writes = {ElectionKey(e)}
  BY <1>1 DEF Transaction
<1>. QED
  BY <1>2, <1>3, StatusWritten DEF NilIsNoTransaction

LEMMA TallyIsAwaited ==
    ASSUME NilIsNoTransaction, TypeOK, NEW t \in Txs, NEW e \in Elections,
           ComputeVoteTally(t, e)
    PROVE  /\ inflight'[t] # Nil
           /\ inflight'[t].result \in Tally
           /\ inflight'[t].result.election = e
<1>. DEFINE reads   == TallyReads(e)
            isFinal == reads[ElectionKey(e)].status = "completed"
            tally   == [election |-> e, tallies |-> CountVotes(reads, e), isFinal |-> isFinal]
<1>1. reads[ElectionKey(e)] \in Election
  BY TallyReadsTyped DEF ComputeVoteTally
<1>2. tally \in Tally
  BY <1>1, TallyTyped
<1>3. tally.election = e
  OBVIOUS
<1>4. PICK writes, event : inflight'[t] = Transaction(reads, writes, event, tally)
  BY DEF ComputeVoteTally, Submit, TypeOK
<1>. HIDE DEF tally, reads
<1>5. /\ DOMAIN inflight'[t] = {"reads", "writes", "event", "result", "stale"}
      /\ inflight'[t].result = tally
  BY <1>4 DEF Transaction
<1>. QED
  BY <1>2, <1>3, <1>5 DEF NilIsNoTransaction

LEMMA AwaitedStays ==
    ASSUME NilIsNoTransaction, TypeOK, CallsTypeOK, SchedulerNext,
           NEW p \in Ticks, ticks'[p] # Nil
    PROVE  /\ AwaitsItsOwn(ticks'[p], inflight')
           /\ IF ticks'[p].step = "save" THEN ticks'[p].tally \in Tallies
                                        ELSE ticks'[p].tally = Nil
<1>. DEFINE old == ticks[p]
            new == ticks'[p]
<1>1. /\ ServerTypeOK
      /\ old # Nil => /\ TickTypeOK(old)
                      /\ AwaitsItsOwn(old, inflight)
                      /\ IF old.step = "save" THEN old.tally \in Tallies ELSE old.tally = Nil
  BY DEF CallsTypeOK, ServerTypeOK
<1>2. CASE new = old
  BY <1>1, <1>2, AwaitStays
<1>3. CASE StartTick(p) /\ new = Loop(Due)
  BY <1>3 DEF Loop, AwaitsItsOwn
<1>4. ASSUME NEW t \in Txs, NEW task \in old.todo,
             old # Nil, old.step = "loop", UpdateElectionStatus(t, task[1], task[2]),
             new = [old EXCEPT !.step = "update", !.at = task, !.tx = t]
      PROVE  AwaitsItsOwn(new, inflight') /\ new.step # "save" /\ new.tally = Nil
  <2>1. task[1] \in Elections
    BY <1>1, <1>4 DEF TickTypeOK, Task
  <2>2. new.step = "update" /\ new.at = task /\ new.tx = t /\ new.tally = Nil
    BY <1>1, <1>4 DEF TickTypeOK
  <2>. QED
    BY <1>4, <2>1, <2>2, UpdateIsAwaited DEF AwaitsItsOwn
<1>5. ASSUME NEW t \in Txs, old # Nil, old.step = "ended", ComputeVoteTally(t, old.at[1]),
             new = [old EXCEPT !.step = "tally", !.tx = t]
      PROVE  AwaitsItsOwn(new, inflight') /\ new.step # "save" /\ new.tally = Nil
  <2>1. old.at[1] \in Elections
    BY <1>1, <1>5 DEF TickTypeOK, Task
  <2>2. new.step = "tally" /\ new.at = old.at /\ new.tx = t /\ new.tally = Nil
    BY <1>1, <1>5 DEF TickTypeOK
  <2>. QED
    BY <1>5, <2>1, <2>2, TallyIsAwaited DEF AwaitsItsOwn
<1>6. ASSUME old # Nil, new = NextElection(old)
      PROVE  AwaitsItsOwn(new, inflight') /\ new.step # "save" /\ new.tally = Nil
  <2>1. new.step = "loop" /\ new.tally = Nil
    BY <1>1, <1>6, NextElectionTyped
  <2>. QED
    BY <2>1 DEF AwaitsItsOwn
<1>7. ASSUME NEW t \in Txs, old # Nil, old.tx = t, new = TickAnswered(old, inflight[t].result)
      PROVE  /\ AwaitsItsOwn(new, inflight')
             /\ IF new.step = "save" THEN new.tally \in Tallies ELSE new.tally = Nil
  <2>1. /\ old.step \in {"update", "tally"}
        /\ old.at[2] \in {"live", "ended"}
    BY <1>1, <1>7, NilIsNoPlace DEF TickTypeOK, Task
  <2>2. CASE old.step = "update" /\ old.at[2] = "live"
    BY <1>6, <1>7, <2>2 DEF TickAnswered
  <2>3. CASE old.step = "update" /\ old.at[2] = "ended"
    <3>1. new = [old EXCEPT !.step = "ended", !.tx = Nil]
      BY <1>7, <2>3 DEF TickAnswered
    <3>2. new.step = "ended" /\ new.tally = Nil
      BY <1>1, <1>7, <2>3, <3>1 DEF TickTypeOK
    <3>. QED
      BY <3>2 DEF AwaitsItsOwn
  <2>4. CASE old.step = "tally"
    <3>1. new = [old EXCEPT !.step = "save", !.tx = Nil, !.tally = inflight[t].result.tallies]
      BY <1>7, <2>4 DEF TickAnswered
    <3>2. new.step = "save" /\ new.tally = inflight[t].result.tallies
      BY <1>1, <1>7, <3>1 DEF TickTypeOK
    <3>3. inflight[t].result.tallies \in Tallies
      BY <1>1, <1>7, <2>4 DEF AwaitsItsOwn, Tally
    <3>. QED
      BY <3>2, <3>3 DEF AwaitsItsOwn
  <2>. QED
    BY <2>1, <2>2, <2>3, <2>4
<1>. QED
  BY <1>1, <1>2, <1>3, <1>4, <1>5, <1>6, <1>7, TickSteps DEF Loop

LEMMA CallsTypesStay ==
    ASSUME NilIsNoTransaction, TypeOK, CallsTypeOK, [SchedulerNext]_schedulerVars
    PROVE  CallsTypeOK'
<1>1. CASE UNCHANGED schedulerVars
  BY <1>1 DEF schedulerVars, CallsTypeOK, ServerTypeOK
<1>2. CASE SchedulerNext
  <2>1. ServerTypeOK'
    BY ServerTypesStay DEF CallsTypeOK
  <2>. QED
    BY <1>2, <2>1, AwaitedStays DEF CallsTypeOK
<1>. QED
  BY <1>1, <1>2

LEMMA SchedulerTypesStay ==
    ASSUME NilIsNoTransaction, TypeOK, SchedulerTypeOK, [SchedulerNext]_schedulerVars
    PROVE  SchedulerTypeOK'
<1>1. CallsTypeOK'
  BY CallsTypesStay DEF SchedulerTypeOK
<1>2. ASSUME NEW p \in Ticks, TickSaves(p)
      PROVE  tallyDocs' \in [Elections -> Tallies \cup {Nil}]
  <2>1. ticks[p].tally \in Tallies
    BY <1>2 DEF TickSaves, SchedulerTypeOK, CallsTypeOK
  <2>. QED
    BY <1>2, <2>1 DEF TickSaves, SchedulerTypeOK
<1>. QED
  BY <1>1, <1>2, DocumentSteps DEF SchedulerTypeOK, schedulerVars

\* Every call of the server awaits the transaction it asked for and gets its answer.
THEOREM SchedulerTypeCorrect == NilIsNoTransaction => (SchedulerSpec => []SchedulerTypeOK)
<1>. SUFFICES ASSUME NilIsNoTransaction PROVE SchedulerSpec => []SchedulerTypeOK
  OBVIOUS
<1>1. SchedulerInit => SchedulerTypeOK
  BY InitServerTypes DEF SchedulerInit, SchedulerTypeOK, CallsTypeOK
<1>2. TypeOK /\ SchedulerTypeOK /\ [SchedulerNext]_schedulerVars => SchedulerTypeOK'
  BY SchedulerTypesStay
<1>3. SchedulerSpec => []TypeOK
  BY SchedulerImplementsContract, TypeCorrect, PTL
<1>. QED
  BY <1>1, <1>2, <1>3, PTL DEF SchedulerSpec

-----------------------------------------------------------------------------
(* The saved counts *)

\* Once an election is closed its votes, and so its counts, stay as they are.
LEMMA ClosedCountsStay ==
    ASSUME IInv, ServerTypeOK, ClosingInv, [SchedulerNext]_schedulerVars,
           NEW e \in Elections, StatusOf(e) \in {"ended", "published"}
    PROVE  /\ StatusOf(e)' \in {"ended", "published"}
           /\ CountVotes(worldState', e) = CountVotes(worldState, e)
<1>1. [Next]_ledgerVars
  BY SchedulerSteps
<1>2. StatusOf(e)' = StatusOf(e) \/ Before(StatusOf(e), StatusOf(e)')
  BY <1>1, StatusMovesOn DEF ClosingInv
<1>3. worldState[ElectionKey(e)] # Nil
  BY NilIsNoStatus DEF StatusOf, Statuses
<1>4. worldState'[ElectionKey(e)].candidates = worldState[ElectionKey(e)].candidates
  BY <1>1, <1>3, ElectionStaysStep
<1>5. ASSUME NEW c
      PROVE  VotesFor(worldState', e, c) = VotesFor(worldState, e, c)
  <2>1. ASSUME NEW v \in VoteIds, Cast(v)
        PROVE  worldState'[VoteKey(v)] = worldState[VoteKey(v)]
    BY <1>1, <2>1, VotesStayStep
  <2>2. ASSUME NEW v \in VoteIds, ~Cast(v), worldState'[VoteKey(v)] # Nil
        PROVE  worldState'[VoteKey(v)].election # e
    <3>1. Admissible(worldState'[VoteKey(v)])
      BY <1>1, <2>2, VotesAllowedStep DEF Cast
    <3>. QED
      BY <1>3, <3>1 DEF Admissible, LiveElections, StatusOf
  <2>. QED
    BY <2>1, <2>2 DEF VotesFor, Cast
<1>. QED
  BY <1>2, <1>4, <1>5, NilIsNoStatus DEF CountVotes, Before, Statuses

\* A tally that commits holds the counts of the moment.
LEMMA CommittedTally ==
    ASSUME IInv, NEW t \in Txs, Commit(t), NEW e \in Elections,
           inflight[t].result \in Tally, inflight[t].result.election = e
    PROVE  inflight[t].result.tallies = CountVotes(worldState, e)
<1>. DEFINE tx == inflight[t]
<1>1. tx.result # Nil
  BY NilIsNoRecord
<1>2. Proposal(tx) /\ \A k \in DOMAIN tx.reads : tx.reads[k] = worldState[k]
  BY DEF Commit, IInv, AllAreProposals, ReadsAreCurrent
<1>3. tx.result.election = e
  OBVIOUS
<1>. HIDE DEF tx
<1>4. PICK f \in Elections : TallyProposal(tx, f)
  <2>1. \A f \in Elections : ~ElectionProposal(tx, f)
    BY <1>1 DEF ElectionProposal
  <2>2. \A u \in Users : ~UserProposal(tx, u)
    BY <1>1 DEF UserProposal
  <2>3. \A u \in Users, v \in VoteIds, f \in Elections, c \in Candidates :
           ~VoteProposal(tx, u, v, f, c)
    BY <1>1 DEF VoteProposal
  <2>. QED
    BY <1>2, <2>1, <2>2, <2>3, Zenon DEF Proposal
<1>5. f = e
  BY <1>3, <1>4 DEF TallyProposal
<1>6. /\ tx.result.tallies = CountVotes(tx.reads, e)
      /\ tx.reads[ElectionKey(e)] = worldState[ElectionKey(e)]
      /\ \A v \in VoteIds : tx.reads[VoteKey(v)] = worldState[VoteKey(v)]
  BY <1>2, <1>4, <1>5, KeysTyped DEF TallyProposal
<1>7. \A c : VotesFor(tx.reads, e, c) = VotesFor(worldState, e, c)
  BY <1>6 DEF VotesFor
<1>. QED
  BY <1>6, <1>7 DEF CountVotes, tx

\* What is final stays so.
LEMMA FinalStays ==
    ASSUME IInv, ServerTypeOK, ClosingInv, [SchedulerNext]_schedulerVars,
           NEW e \in Elections, NEW tally, FinalCount(e, tally)
    PROVE  StatusOf(e)' \in {"ended", "published"} /\ tally = CountVotes(worldState', e)
BY ClosedCountsStay DEF FinalCount

LEMMA CountingIsFinalStays ==
    ASSUME IInv, CallsTypeOK, ClosingInv, CountingIsFinal, SchedulerNext
    PROVE  CountingIsFinal'
<1>1. ServerTypeOK
  BY DEF CallsTypeOK
<1>2. ASSUME NEW e \in Elections, NEW tally, FinalCount(e, tally)
      PROVE  StatusOf(e)' \in {"ended", "published"} /\ tally = CountVotes(worldState', e)
  BY <1>1, <1>2, FinalStays
<1>3. ASSUME NEW p \in Ticks, NEW e \in Elections, ticks'[p] # Nil,
             ticks'[p].step \in {"ended", "tally", "save"}, ticks'[p].at[1] = e
      PROVE  /\ StatusOf(e)' \in {"ended", "published"}
             /\ ticks'[p].step = "save" => ticks'[p].tally = CountVotes(worldState', e)
  <2>. DEFINE old == ticks[p]
              new == ticks'[p]
  <2>1. old # Nil => TickTypeOK(old) /\ AwaitsItsOwn(old, inflight)
    BY <1>1 DEF ServerTypeOK, CallsTypeOK
  <2>2. CASE new = old
    BY <1>1, <1>2, <1>3, <2>2, ClosedCountsStay DEF CountingIsFinal
  <2>3. new # Loop(Due)
    BY <1>3 DEF Loop
  <2>4. ASSUME NEW t, NEW task, old # Nil,
               new = [old EXCEPT !.step = "update", !.at = task, !.tx = t]
        PROVE  FALSE
    BY <1>3, <2>1, <2>4 DEF TickTypeOK
  <2>5. ASSUME NEW t, old # Nil, old.step = "ended",
               new = [old EXCEPT !.step = "tally", !.tx = t]
        PROVE  StatusOf(e)' \in {"ended", "published"} /\ new.step # "save"
    <3>1. new.step = "tally" /\ new.at = old.at
      BY <2>1, <2>5 DEF TickTypeOK
    <3>2. StatusOf(e) \in {"ended", "published"}
      BY <1>3, <2>5, <3>1 DEF CountingIsFinal
    <3>. QED
      BY <1>1, <3>1, <3>2, ClosedCountsStay
  <2>6. ASSUME old # Nil, new = NextElection(old)
        PROVE  FALSE
    BY <1>3, <2>1, <2>6, NextElectionTyped
  <2>7. ASSUME NEW t \in Txs, old # Nil, CommitTx(t), old.tx = t,
               new = TickAnswered(old, inflight[t].result)
        PROVE  /\ StatusOf(e)' \in {"ended", "published"}
               /\ new.step = "save" => new.tally = CountVotes(worldState', e)
    <3>1. /\ old.step \in {"update", "tally"}
          /\ old.at[2] \in {"live", "ended"}
      BY <2>1, <2>7, NilIsNoPlace DEF TickTypeOK, Task
    <3>2. Commit(t)
      BY <2>7 DEF CommitTx
    <3>3. ~(old.step = "update" /\ old.at[2] = "live")
      BY <2>6, <2>7 DEF TickAnswered
    <3>4. CASE old.step = "update" /\ old.at[2] = "ended"
      <4>1. new = [old EXCEPT !.step = "ended", !.tx = Nil]
        BY <2>7, <3>4 DEF TickAnswered
      <4>2. new.step = "ended" /\ new.at = old.at
        BY <2>1, <2>7, <4>1 DEF TickTypeOK
      <4>3. /\ ElectionKey(e) \in DOMAIN inflight[t].writes
            /\ inflight[t].writes[ElectionKey(e)].status = "ended"
        BY <1>3, <2>1, <2>7, <3>4, <4>2 DEF AwaitsItsOwn
      <4>4. /\ worldState'[ElectionKey(e)] = inflight[t].writes[ElectionKey(e)]
            /\ inflight[t].writes[ElectionKey(e)] # Nil
        BY <3>2, <4>3, CommitFacts, KeysTyped DEF IInv, WellFormed
      <4>5. StatusOf(e)' = "ended"
        BY <4>3, <4>4 DEF StatusOf
      <4>. QED
        BY <4>2, <4>5
    <3>5. CASE old.step = "tally"
      <4>1. new = [old EXCEPT !.step = "save", !.tx = Nil,
                              !.tally = inflight[t].result.tallies]
        BY <2>7, <3>5 DEF TickAnswered
      <4>2. new.at = old.at /\ new.tally = inflight[t].result.tallies
        BY <2>1, <2>7, <4>1 DEF TickTypeOK
      <4>3. inflight[t].result \in Tally /\ inflight[t].result.election = e
        BY <1>3, <2>1, <2>7, <3>5, <4>2 DEF AwaitsItsOwn
      <4>4. new.tally = CountVotes(worldState, e)
        BY <3>2, <4>2, <4>3, CommittedTally
      <4>5. StatusOf(e) \in {"ended", "published"}
        BY <1>3, <2>7, <3>5, <4>2 DEF CountingIsFinal
      <4>. QED
        BY <1>1, <4>4, <4>5, ClosedCountsStay
    <3>. QED
      BY <3>1, <3>3, <3>4, <3>5
  <2>. QED
    BY <1>1, <1>3, <2>2, <2>3, <2>4, <2>5, <2>6, <2>7, TickSteps
<1>. QED
  BY <1>3 DEF CountingIsFinal, FinalCount

LEMMA CountsAreFinalStays ==
    ASSUME IInv, SchedulerTypeOK, ClosingInv, CountsAreFinal, SchedulerNext
    PROVE  CountsAreFinal'
<1>1. CountingIsFinal'
  BY CountingIsFinalStays DEF SchedulerTypeOK, CountsAreFinal
<1>2. ASSUME NEW e \in Elections, NEW tally, FinalCount(e, tally)
      PROVE  StatusOf(e)' \in {"ended", "published"} /\ tally = CountVotes(worldState', e)
  BY <1>2, FinalStays DEF SchedulerTypeOK, CallsTypeOK
<1>3. ASSUME NEW e \in Elections, tallyDocs'[e] # Nil
      PROVE  /\ StatusOf(e)' \in {"ended", "published"}
             /\ tallyDocs'[e] = CountVotes(worldState', e)
  <2>1. CASE tallyDocs'[e] = tallyDocs[e]
    BY <1>2, <1>3, <2>1 DEF CountsAreFinal
  <2>2. ASSUME NEW p \in Ticks, TickSaves(p), ticks[p].at[1] = e,
               tallyDocs'[e] = ticks[p].tally
        PROVE  FinalCount(e, tallyDocs'[e])
    BY <2>2 DEF TickSaves, CountsAreFinal, CountingIsFinal
  <2>3. ASSUME NEW p \in Ticks, TickSaves(p)
        PROVE  \/ tallyDocs'[e] = tallyDocs[e]
               \/ ticks[p].at[1] = e /\ tallyDocs'[e] = ticks[p].tally
    BY <2>3 DEF TickSaves, SchedulerTypeOK
  <2>. QED
    BY <1>2, <2>1, <2>2, <2>3, DocumentSteps
<1>. QED
  BY <1>1, <1>3 DEF CountsAreFinal, FinalCount

\* As long as calls of processElections do not overlap, from the end of an election on
\* what is counted is final.
LEMMA CountsInvariance ==
    NilIsNoTransaction /\ OneAtATime => (SchedulerSpec => []CountsAreFinal)
<1>. SUFFICES ASSUME NilIsNoTransaction, OneAtATime
              PROVE  SchedulerSpec => []CountsAreFinal
  OBVIOUS
<1>1. SchedulerInit => CountsAreFinal
  BY DEF SchedulerInit, CountsAreFinal, CountingIsFinal
<1>2. IInv /\ SchedulerTypeOK /\ ClosingInv /\ CountsAreFinal /\ [SchedulerNext]_schedulerVars
        => CountsAreFinal'
  <2>. SUFFICES ASSUME CountsAreFinal, UNCHANGED schedulerVars PROVE CountsAreFinal'
    BY CountsAreFinalStays
  <2>. QED
    BY DEF schedulerVars, CountsAreFinal, CountingIsFinal, FinalCount, StatusOf
<1>. QED
  BY <1>1, <1>2, SchedulerInvariance, SchedulerTypeCorrect, ClosingInvariance, PTL
     DEF SchedulerSpec

\* Then the counts saved when an election ends are those of all its votes, for good.
THEOREM SavedTalliesAreComplete ==
    NilIsNoTransaction /\ OneAtATime => (SchedulerSpec => []SavedTallyIsComplete)
<1>. SUFFICES ASSUME NilIsNoTransaction, OneAtATime
              PROVE  SchedulerSpec => []SavedTallyIsComplete
  OBVIOUS
<1>1. CountsAreFinal => SavedTallyIsComplete
  BY DEF CountsAreFinal, FinalCount, SavedTallyIsComplete
<1>. QED
  BY <1>1, CountsInvariance, PTL

\* The inductive invariant of the scheduler: on time, in order, and final.
THEOREM SchedulerInvariants ==
    NilIsNoTransaction /\ OneAtATime => (SchedulerSpec => []SchedulerIInv)
<1>. SUFFICES ASSUME NilIsNoTransaction, OneAtATime
              PROVE  SchedulerSpec => []SchedulerIInv
  OBVIOUS
<1>1. DecidedOnTime /\ ClosingInv /\ CountsAreFinal => SchedulerIInv
  BY DEF SchedulerIInv
<1>. QED
  BY <1>1, DecidedInvariance, ClosingInvariance, CountsInvariance, PTL
=============================================================================
