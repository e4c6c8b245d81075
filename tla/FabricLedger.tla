---------------------------- MODULE FabricLedger ----------------------------
(***************************************************************************)
(* What the application relies on when it calls submitTransaction of the   *)
(* Fabric Gateway (ElectionRepository.ts, UserRepository.ts and            *)
(* VoteRepository.ts).  The platform is not in the repository: this module *)
(* is external.                                                            *)
(*                                                                         *)
(* A chaincode function is simulated by the endorsing peers against the    *)
(* committed world state.  Its reads are recorded, its writes are only     *)
(* proposed.  Transactions are then ordered and validated one after the    *)
(* other: a transaction whose read keys were all left alone since it was   *)
(* endorsed commits all its writes, any other one is discarded.  Fabric    *)
(* compares the versions of the keys; here a transaction becomes "stale"   *)
(* when another one that commits writes a key that it read, which is the   *)
(* same condition without a counter.                                       *)
(***************************************************************************)

CONSTANTS
    Txs,            \* places for transactions between endorsement and commit:
                    \* bounds how many are in flight at once
    Nil             \* no value: an absent key, an unused place, no result

VARIABLES
    worldState,     \* the committed value of every key
    inflight        \* the endorsed transaction at every place

ledgerVars == <<worldState, inflight>>

\* The read set of a simulation that read the keys K.
Read(K) == [k \in K |-> worldState[k]]

\* An endorsed proposal: what was read, what is to be written, the chaincode
\* event (the last SetEvent of the function) and the value returned.
Transaction(reads, writes, event, result) ==
    [reads |-> reads, writes |-> writes, event |-> event, result |-> result,
     stale |-> FALSE]

\* The peers endorse a transaction and the gateway sends it to the orderer.
\* A call the chaincode refuses, or whose endorsements differ, changes nothing.
Submit(t, tx) ==
    /\ inflight[t] = Nil
    /\ inflight' = [inflight EXCEPT ![t] = tx]
    /\ UNCHANGED worldState

Pending(t) == inflight[t] # Nil

\* The transactions that are left when the one at t has written the keys K.
AfterCommit(t, K) ==
    [s \in Txs |->
        IF s = t \/ ~Pending(s)
        THEN Nil
        ELSE [inflight[s] EXCEPT !.stale = @ \/ DOMAIN inflight[s].reads \cap K # {}]]

\* Validation succeeds: nothing the transaction read has changed.
Commit(t) ==
    /\ Pending(t)
    /\ ~inflight[t].stale
    /\ LET writes == inflight[t].writes
       IN  /\ worldState' = [k \in DOMAIN worldState |->
                                IF k \in DOMAIN writes THEN writes[k] ELSE worldState[k]]
           /\ inflight' = AfterCommit(t, DOMAIN writes)

\* Validation fails (MVCC or phantom read conflict), or the transaction never
\* reaches the orderer.  The gateway reports an error; there is no retry.
Discard(t) ==
    /\ Pending(t)
    /\ inflight' = [inflight EXCEPT ![t] = Nil]
    /\ UNCHANGED worldState

\* Serializability as the chaincode needs it: a transaction that can still
\* commit read exactly the values that are committed now.
ReadsAreCurrent ==
    \A t \in Txs : Pending(t) /\ ~inflight[t].stale =>
        \A k \in DOMAIN inflight[t].reads : inflight[t].reads[k] = worldState[k]
=============================================================================
