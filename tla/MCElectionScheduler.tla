------------------------ MODULE MCElectionScheduler ------------------------
(***************************************************************************)
(* Model checking of ElectionScheduler: from the start, with every request *)
(* a client can make (SchedulerSpec), and for the scheduler by itself from *)
(* a state in which every election is scheduled and no client calls.       *)
(***************************************************************************)
EXTENDS SchedulerInvariant, TLC

Symmetry == Permutations(Txs) \cup Permutations(VoteIds) \cup Permutations(Users)
              \cup Permutations(Candidates) \cup Permutations(Ticks)
              \cup Permutations(Requests) \cup Permutations(Elections)

Prepared(k) ==
    IF k \in {ElectionKey(e) : e \in Elections}
    THEN [candidates |-> Candidates, eligible |-> Governorates, status |-> "scheduled"]
    ELSE Nil

PreparedInit ==
    /\ worldState = [k \in Keys |-> Prepared(k)]
    /\ inflight = [t \in Txs |-> Nil]
    /\ started = {}
    /\ over = {}
    /\ ticks = [p \in Ticks |-> Nil]
    /\ requests = [r \in Requests |-> Nil]
    /\ tallyDocs = [e \in Elections |-> Nil]

PreparedNext ==
    \/ Server
    \/ \E t \in Txs : CommitTx(t) \/ DiscardTx(t)
    \/ \E e \in Elections : TimePasses(e)

PreparedSpec == PreparedInit /\ [][PreparedNext]_schedulerVars

FairPreparedSpec == PreparedSpec /\ Fairness
=============================================================================
