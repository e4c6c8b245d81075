--------------------------- MODULE InsightInvariant ---------------------------
(***************************************************************************)
(* The inductive invariant behind the properties of Insight: how far a     *)
(* calculation has come, and which feedback is still to be counted in the  *)
(* document.                                                               *)
(***************************************************************************)
EXTENDS Insight

\* A call that is about to count its feedback wrote the document of it, and no other
\* call is about to count the feedback of the same voter.
CountingIsOwn ==
    \A f \in Feedbacks : Submitting(f, "count") =>
        /\ ratings[feedbacks[f].voter] = feedbacks[f].rating
        /\ \A g \in Feedbacks \ {f} :
              Submitting(g, "count") => feedbacks[g].voter # feedbacks[f].voter

\* The voters whose feedback of this category is about to be counted.
PendingAs(k) ==
    {u \in Voters : \E f \in Feedbacks :
        /\ Submitting(f, "count")
        /\ feedbacks[f].voter = u
        /\ Category(feedbacks[f].rating) = k}

\* A calculation has counted the votes of the set it took but for those that are left,
\* and at most the feedback on them.
CalculationsAreBacked ==
    \A r \in Readings : readings[r] # Absent =>
        LET left == readings[r].left
            data == readings[r].data
        IN  /\ \E S \in SUBSET mirrored :
                  left \subseteq S /\ data.total = Cardinality(S) /\ CountsOf(data, S \ left)
            /\ \A k \in Categories : data.feedback[k] <= Cardinality(RatedAs(k) \ left)

\* What is about to be counted is counted once by the calculation that was saved last,
\* at most, and once more by its own call.
FeedbackIsBacked ==
    \A k \in Categories :
        /\ saved # Absent =>
              saved.feedback[k] + Cardinality(PendingAs(k)) <= 2 * Cardinality(RatedAs(k))
        /\ cache # Absent => cache.feedback[k] <= Cardinality(RatedAs(k))

InsightIInv ==
    /\ InsightTypeOK
    /\ CountingIsOwn
    /\ CalculationsAreBacked
    /\ FeedbackIsBacked
    /\ AnalyticsDescribeThePast
=============================================================================
