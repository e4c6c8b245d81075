------------------------------ MODULE Recounts ------------------------------
(***************************************************************************)
(* The recount an auditor asks for (recalculateTally of                    *)
(* audits.controller.ts), beside everything FaultFree has.  The request    *)
(* awaits the commit of a tally on the ledger and reads the document only  *)
(* then; votes go on being cast and mirrored all the while.                *)
(***************************************************************************)
EXTENDS FaultFree

CONSTANT Auditors   \* places for requests of auditors being served

VARIABLE recounts   \* the request at every place, and which votes were committed
                    \* when its count committed

recountVars == <<faultFreeVars, recounts>>

AskRecount(a, t, e) ==
    /\ recounts[a] = Nil
    /\ ComputeVoteTally(t, e)
    /\ recounts' = [recounts EXCEPT ![a] =
                       [step |-> "tally", election |-> e, tx |-> t, counts |-> Nil, counted |-> {}]]
    /\ UNCHANGED <<started, over, ticks, requests, tallyDocs, listenerVars, faulty>>

\* The document is read and the answer sent, or an await of the request throws.
EndRecount(a) ==
    /\ recounts[a] # Nil
    /\ recounts' = [recounts EXCEPT ![a] = Nil]
    /\ UNCHANGED faultFreeVars

\* The transaction at t commits: what it counted is compared next.
RecountAnswered(t) ==
    recounts' = [a \in Auditors |->
                    IF WaitsFor(recounts[a], t)
                    THEN [recounts[a] EXCEPT !.step = "compare", !.tx = Nil,
                                             !.counts = inflight[t].result.tallies,
                                             !.counted = {v \in VoteIds : Cast(v)}]
                    ELSE recounts[a]]

RecountRefused(t) ==
    recounts' = [a \in Auditors |-> IF WaitsFor(recounts[a], t) THEN Nil ELSE recounts[a]]

\* The steps auditors take or see, and those of the listener.
RecountStep ==
    \/ \E a \in Auditors : EndRecount(a)
    \/ \E t \in Txs : Witness(t) /\ RecountAnswered(t)
    \/ \E t \in Txs : DiscardTx(t) /\ RecountRefused(t) /\ UNCHANGED <<listenerVars, faulty>>
    \/ Listen /\ UNCHANGED <<faulty, recounts>>
    \/ (Disconnect \/ HandlerFails) /\ faulty' = TRUE /\ UNCHANGED recounts
    \/ Restart /\ faulty' = TRUE /\ recounts' = [a \in Auditors |-> Nil]

RecountNext ==
    \/ /\ \/ Server
          \/ \E t \in Txs : ClientCall(t)
          \/ \E e \in Elections : TimePasses(e)
       /\ UNCHANGED <<listenerVars, faulty, recounts>>
    \/ \E a \in Auditors, t \in Txs, e \in Elections : AskRecount(a, t, e)
    \/ RecountStep

RecountSpec ==
    SystemInit /\ faulty = FALSE /\ recounts = [a \in Auditors |-> Nil]
      /\ [][RecountNext]_recountVars
-----------------------------------------------------------------------------
(* Properties *)

\* The votes for c in e that committed after the votes of a were counted.
NewVotes(a, e, c) == VotesFor(worldState, e, c) \ recounts[a].counted

\* A recount of a live election is compared with a document read later
\* (audits.controller.ts:136-167).  As long as nothing failed and the listener has caught
\* up, what it reports are the votes that came in between: the document counts them and
\* the recount does not, and without them there is no discrepancy.
DiscrepanciesAreNewVotes ==
    \A a \in Auditors :
        recounts[a] # Nil /\ recounts[a].step = "compare" /\ CaughtUp =>
            LET e      == recounts[a].election
                counts == recounts[a].counts
                doc    == IF tallyDocs[e] = Nil THEN <<>> ELSE tallyDocs[e]
            IN  StatusOf(e) = "live" =>
                  /\ \A c \in DOMAIN counts :
                        Stored(doc, c) = counts[c] + Cardinality(NewVotes(a, e, c))
                  /\ Discrepancy(e, counts) <=> \E c \in DOMAIN counts : NewVotes(a, e, c) # {}

-----------------------------------------------------------------------------
(* The inductive invariant behind it *)

\* The request awaits its own transaction.
AwaitsTally(recount) ==
    LET tx == inflight[recount.tx]
    IN  /\ recount.tx \in Txs
        /\ tx # Nil
        /\ tx.result \in Tally
        /\ tx.result.election = recount.election

\* What the request compares are the counts of the votes committed then.
CountedThen(recount) ==
    /\ recount.tx = Nil
    /\ recount.counted \subseteq {v \in VoteIds : Cast(v)}
    /\ recount.counts =
          [c \in worldState[ElectionKey(recount.election)].candidates |->
              Cardinality(VotesFor(worldState, recount.election, c) \cap recount.counted)]

RecountOK(recount) ==
    /\ DOMAIN recount = {"step", "election", "tx", "counts", "counted"}
    /\ recount.election \in Elections
    /\ worldState[ElectionKey(recount.election)] # Nil
    /\ \/ recount.step = "tally" /\ AwaitsTally(recount)
       \/ recount.step = "compare" /\ CountedThen(recount)

RecountsInv ==
    /\ DOMAIN recounts = Auditors
    /\ \A a \in Auditors : recounts[a] # Nil => RecountOK(recounts[a])

RecountIInv == FaultFreeIInv /\ RecountsInv
=============================================================================
