------------------------- MODULE SchedulerInvariant -------------------------
(***************************************************************************)
(* The inductive invariants behind the safety properties of                *)
(* ElectionScheduler.  They say of every status that somebody still means  *)
(* to write, be it in the list of a call of processElections or in a       *)
(* transaction in flight, why it may still be written.                     *)
(***************************************************************************)
EXTENDS ElectionScheduler, VotingInvariant

\* The call of processElections at p has still to give e this status.
ToDo(p, e, status) == ticks[p] # Nil /\ <<e, status>> \in ticks[p].todo

\* The transaction at t gives e this status if it commits.
Writes(t, e, status) ==
    /\ Pending(t)
    /\ ElectionKey(e) \in DOMAIN inflight[t].writes
    /\ inflight[t].writes[ElectionKey(e)].status = status

\* Nothing is decided before its time.
DecidedOnTime ==
    \A e \in Elections :
        /\ \/ \E p \in Ticks : ToDo(p, e, "live")
           \/ \E t \in Txs : Writes(t, e, "live")
           => e \in started
        /\ \/ \E p \in Ticks : ToDo(p, e, "ended")
           \/ \E t \in Txs : Writes(t, e, "ended")
           => e \in over

\* Calls of processElections do not overlap.
OneAtATime == \A p, q \in Ticks : p = q

\* The order of the statuses, without cancelled, which the server never writes.
Before(old, new) ==
    \/ new = "scheduled" /\ old = Nil
    \/ new = "live"      /\ old \in {"scheduled", "live"}
    \/ new = "ended"     /\ old \in {"live", "ended", "published"}
    \/ new = "published" /\ old \in {"ended", "published"}

\* A transaction that can still commit moves its election on.
WritesMoveOn ==
    \A t \in Txs, e \in Elections :
        Pending(t) /\ ~inflight[t].stale /\ ElectionKey(e) \in DOMAIN inflight[t].writes =>
            Before(StatusOf(e), inflight[t].writes[ElectionKey(e)].status)

\* So does every task on the list, and what is to be opened is not being closed.
TasksMoveOn ==
    \A p \in Ticks, e \in Elections :
        /\ ToDo(p, e, "live") =>
              /\ Before(StatusOf(e), "live")
              /\ ~ToDo(p, e, "ended")
              /\ \A t \in Txs : Writes(t, e, "ended") => inflight[t].stale
        /\ ToDo(p, e, "ended") => Before(StatusOf(e), "ended")

\* Only the results of a closed election are asked for.
RequestsAreForClosed ==
    \A r \in Requests, e \in Elections :
        requests[r] # Nil /\ requests[r].election = e =>
            StatusOf(e) \in {"ended", "published"}

ClosingInv == WritesMoveOn /\ TasksMoveOn /\ RequestsAreForClosed

\* The election is closed and these are the counts of its votes.
FinalCount(e, tally) ==
    StatusOf(e) \in {"ended", "published"} /\ tally = CountVotes(worldState, e)

\* A call counts only what is final.
CountingIsFinal ==
    \A p \in Ticks, e \in Elections :
        /\ ticks[p] # Nil
        /\ ticks[p].step \in {"ended", "tally", "save"}
        /\ ticks[p].at[1] = e
        => /\ StatusOf(e) \in {"ended", "published"}
           /\ ticks[p].step = "save" => FinalCount(e, ticks[p].tally)

\* From the end of an election on, what is counted and saved is final.
CountsAreFinal ==
    /\ CountingIsFinal
    /\ \A e \in Elections : tallyDocs[e] # Nil => FinalCount(e, tallyDocs[e])

\* The three together, as TLC checks them for one call at a time.
SchedulerIInv == DecidedOnTime /\ ClosingInv /\ CountsAreFinal
=============================================================================
