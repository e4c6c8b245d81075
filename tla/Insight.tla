------------------------------- MODULE Insight -------------------------------
(***************************************************************************)
(* Feedback on votes and the analytics of one election                     *)
(* (vote.controller.ts submitVoterFeedback, analytics.controller.ts).  The *)
(* votes are those the listener has mirrored; a voter has at most one in   *)
(* an election, so its receipt is known by the voter.  Analytics are       *)
(* counted vote by vote with awaits in between, saved in MongoDB, and kept *)
(* in memory until they expire, while votes and feedback go on arriving.   *)
(***************************************************************************)
EXTENDS Naturals, FiniteSets

CONSTANTS
    Voters,         \* those who have voted in the election
    Choices,        \* its candidates
    People,         \* the age and the governorate of a voter, which do not change once
                    \* it is registered, and the candidate of its vote
    Ratings,        \* the ratings that are given
    Feedbacks,      \* places for calls of submitVoterFeedback: bounds the overlap
    Readings,       \* places for calls of getElectionAnalytics: bounds the overlap
    Absent          \* no document, no entry, no call

ASSUME RatingsRange == Ratings \subseteq 1 .. 5
ASSUME AbsentIsNoRating == Absent \notin Ratings
ASSUME VotersAreFinite == IsFiniteSet(Voters)
ASSUME PeopleAreVoters ==
    /\ DOMAIN People = Voters
    /\ \A u \in Voters : People[u].age \in Nat /\ People[u].choice \in Choices

VARIABLES
    mirrored,       \* the voters whose vote there is a Vote document of
    ratings,        \* the Feedback documents, by receipt
    feedbacks,      \* the calls of submitVoterFeedback
    readings,       \* the calls of getElectionAnalytics that calculate
    saved,          \* the ElectionAnalytics document
    cache           \* the entry of analyticsCache

insightVars == <<mirrored, ratings, feedbacks, readings, saved, cache>>

Groups     == {"0-17", "18-24", "25-34", "35-44", "45-54", "55+"}
Categories == {"positive", "neutral", "negative"}

Places     == {People[u].place : u \in Voters}

\* The listener has written one more vote document.
VoteMirrored(u) ==
    /\ u \notin mirrored
    /\ mirrored' = mirrored \cup {u}
    /\ UNCHANGED <<ratings, feedbacks, readings, saved, cache>>

Category(rating) ==
    IF rating >= 4 THEN "positive" ELSE IF rating >= 3 THEN "neutral" ELSE "negative"

-----------------------------------------------------------------------------
(* submitVoterFeedback, one action per await *)

Submitting(f, step) == feedbacks[f] # Absent /\ feedbacks[f].step = step

\* The call goes on with the next step.
Proceed(f, step) == feedbacks' = [feedbacks EXCEPT ![f].step = step]

Finish(f) == feedbacks' = [feedbacks EXCEPT ![f] = Absent]

\* The voter sends a rating with the receipt of a vote of its own.
SubmitVoterFeedback(f, u) ==
    /\ feedbacks[f] = Absent
    /\ u \in mirrored
    /\ \E rating \in Ratings :
          feedbacks' = [feedbacks EXCEPT ![f] =
                           [step |-> "check", voter |-> u, rating |-> rating]]
    /\ UNCHANGED <<mirrored, ratings, readings, saved, cache>>

FindFeedback(f) ==
    /\ Submitting(f, "check")
    /\ IF ratings[feedbacks[f].voter] # Absent THEN Finish(f) ELSE Proceed(f, "create")
    /\ UNCHANGED <<mirrored, ratings, readings, saved, cache>>

\* The receipt is a unique index: the second of two calls throws.
CreateFeedback(f) ==
    /\ Submitting(f, "create")
    /\ LET u == feedbacks[f].voter
       IN  IF ratings[u] # Absent
           THEN Finish(f) /\ UNCHANGED ratings
           ELSE /\ ratings' = [ratings EXCEPT ![u] = feedbacks[f].rating]
                /\ Proceed(f, "count")
    /\ UNCHANGED <<mirrored, readings, saved, cache>>

\* findOne, then updateOne with $inc, in place.  The document is never removed, so the
\* two awaits have the effect of the second one.
CountFeedback(f) ==
    /\ Submitting(f, "count")
    /\ saved' = IF saved = Absent THEN Absent
                ELSE [saved EXCEPT !.feedback[Category(feedbacks[f].rating)] = @ + 1]
    /\ Finish(f)
    /\ UNCHANGED <<mirrored, ratings, readings, cache>>

FeedbackFails(f) ==
    /\ feedbacks[f] # Absent
    /\ Finish(f)
    /\ UNCHANGED <<mirrored, ratings, readings, saved, cache>>

FeedbackStep(f) ==
    \/ \E u \in Voters : SubmitVoterFeedback(f, u)
    \/ FindFeedback(f) \/ CreateFeedback(f) \/ CountFeedback(f) \/ FeedbackFails(f)

-----------------------------------------------------------------------------
(* getElectionAnalytics and calculateElectionAnalytics *)

\* An age of zero counts as an unknown one.
AgeGroup(age) ==
    IF age = 0 THEN "25-34"
    ELSE IF age < 18 THEN "0-17"
    ELSE IF age <= 24 THEN "18-24"
    ELSE IF age <= 34 THEN "25-34"
    ELSE IF age <= 44 THEN "35-44"
    ELSE IF age <= 54 THEN "45-54"
    ELSE "55+"

EmptyAnalytics ==
    [total      |-> 0,
     candidates |-> [c \in Choices |-> 0],
     ages       |-> [g \in Groups |-> 0],
     places     |-> [p \in Places |-> 0],
     feedback   |-> [k \in Categories |-> 0]]

Calculating(r, step) == readings[r] # Absent /\ readings[r].step = step

\* Mutant: no early return when there are no votes.
CalculateAlways(r) ==
    /\ readings[r] = Absent
    /\ readings' = [readings EXCEPT ![r] =
          [step |-> "count",
           left |-> mirrored,
           data |-> [EmptyAnalytics EXCEPT !.total = Cardinality(mirrored)]]]
    /\ UNCHANGED <<mirrored, ratings, feedbacks, saved, cache>>

\* A call that a valid entry of the cache does not answer, or that asks for a refresh,
\* takes the votes there are.  Without votes nothing is counted or saved.
GetElectionAnalytics(r) ==
    /\ readings[r] = Absent
    /\ readings' = [readings EXCEPT ![r] =
          [step |-> IF mirrored = {} THEN "answer" ELSE "count",
           left |-> mirrored,
           data |-> [EmptyAnalytics EXCEPT !.total = Cardinality(mirrored)]]]
    /\ UNCHANGED <<mirrored, ratings, feedbacks, saved, cache>>

\* One more of kind x.
Plus(counts, x) == [counts EXCEPT ![x] = @ + 1]

\* The data with the vote of u counted, and the feedback on it there is by now.
WithVote(data, u) ==
    [data EXCEPT
        !.candidates = Plus(@, People[u].choice),
        !.ages = Plus(@, AgeGroup(People[u].age)),
        !.places = Plus(@, People[u].place),
        !.feedback = IF ratings[u] = Absent THEN @ ELSE Plus(@, Category(ratings[u]))]

\* Mutant: the total is taken when the counting is over.
CountVoteLate(r, u) ==
    /\ Calculating(r, "count")
    /\ u \in readings[r].left
    /\ readings' = [readings EXCEPT
          ![r].left = @ \ {u},
          ![r].data = [WithVote(@, u) EXCEPT !.total = Cardinality(mirrored)],
          ![r].step = IF readings[r].left = {u} THEN "save" ELSE "count"]
    /\ UNCHANGED <<mirrored, ratings, feedbacks, saved, cache>>

CountVote(r, u) ==
    /\ Calculating(r, "count")
    /\ u \in readings[r].left
    /\ readings' = [readings EXCEPT
          ![r].left = @ \ {u},
          ![r].data = WithVote(@, u),
          ![r].step = IF readings[r].left = {u} THEN "save" ELSE "count"]
    /\ UNCHANGED <<mirrored, ratings, feedbacks, saved, cache>>

\* The schema has no field for the youngest group: MongoDB keeps the other five.
Stored(data) == [data EXCEPT !.ages = [g \in Groups \ {"0-17"} |-> data.ages[g]]]

\* Mutant: the feedback counted is added to what the document holds.
SaveAdded(r) ==
    /\ Calculating(r, "save")
    /\ LET data == Stored(readings[r].data)
       IN  saved' = IF saved = Absent THEN data
                    ELSE [data EXCEPT !.feedback =
                             [k \in Categories |-> @[k] + saved.feedback[k]]]
    /\ readings' = [readings EXCEPT ![r].step = "answer"]
    /\ UNCHANGED <<mirrored, ratings, feedbacks, cache>>

\* findOneAndUpdate replaces all counts; an error is only logged.
SaveAnalytics(r) ==
    /\ Calculating(r, "save")
    /\ saved' \in {saved, Stored(readings[r].data)}
    /\ readings' = [readings EXCEPT ![r].step = "answer"]
    /\ UNCHANGED <<mirrored, ratings, feedbacks, cache>>

\* The entry is replaced, by counts that may be older.
AnswerAnalytics(r) ==
    /\ Calculating(r, "answer")
    /\ cache' = readings[r].data
    /\ readings' = [readings EXCEPT ![r] = Absent]
    /\ UNCHANGED <<mirrored, ratings, feedbacks, saved>>

\* Five minutes have passed: the entry answers no call any more, and the next one
\* removes it.
CacheExpires ==
    /\ cache # Absent
    /\ cache' = Absent
    /\ UNCHANGED <<mirrored, ratings, feedbacks, readings, saved>>

AnalyticsFail(r) ==
    /\ Calculating(r, "count")
    /\ readings' = [readings EXCEPT ![r] = Absent]
    /\ UNCHANGED <<mirrored, ratings, feedbacks, saved, cache>>

AnalyticsStep(r) ==
    \/ GetElectionAnalytics(r)
    \/ \E u \in Voters : CountVote(r, u)
    \/ SaveAnalytics(r) \/ AnswerAnalytics(r) \/ AnalyticsFail(r)

-----------------------------------------------------------------------------
\* The process stops and starts again: MongoDB keeps its documents.
InsightRestart ==
    /\ feedbacks' = [f \in Feedbacks |-> Absent]
    /\ readings' = [r \in Readings |-> Absent]
    /\ cache' = Absent
    /\ UNCHANGED <<mirrored, ratings, saved>>

InsightInit ==
    /\ mirrored = {}
    /\ ratings = [u \in Voters |-> Absent]
    /\ feedbacks = [f \in Feedbacks |-> Absent]
    /\ readings = [r \in Readings |-> Absent]
    /\ saved = Absent
    /\ cache = Absent

InsightService ==
    \/ \E u \in Voters : VoteMirrored(u)
    \/ \E f \in Feedbacks : FeedbackStep(f)
    \/ \E r \in Readings : AnalyticsStep(r)
    \/ CacheExpires

InsightNext == InsightService \/ InsightRestart

InsightSpec == InsightInit /\ [][InsightNext]_insightVars
-----------------------------------------------------------------------------
(* Properties *)

Counts(groups) ==
    [total : Nat, candidates : [Choices -> Nat], ages : [groups -> Nat],
     places : [Places -> Nat], feedback : [Categories -> Nat]]

InsightTypeOK ==
    /\ mirrored \subseteq Voters
    /\ ratings \in [Voters -> Ratings \cup {Absent}]
    /\ \A u \in Voters : ratings[u] # Absent => u \in mirrored
    /\ DOMAIN feedbacks = Feedbacks
    /\ \A f \in Feedbacks : feedbacks[f] # Absent =>
          feedbacks[f] \in
              [step : {"check", "create", "count"}, voter : mirrored, rating : Ratings]
    /\ DOMAIN readings = Readings
    /\ \A r \in Readings : readings[r] # Absent =>
          /\ readings[r] \in [step : {"count", "save", "answer"},
                              left : SUBSET mirrored, data : Counts(Groups)]
          /\ (readings[r].left # {}) = (readings[r].step = "count")
    /\ saved # Absent => saved \in Counts(Groups \ {"0-17"})
    /\ cache # Absent => cache \in Counts(Groups)

\* getAgeGroup of nationalId.utils.ts.
getAgeGroup(age) ==
    CASE age < 18 -> "0-17"
      [] age \in 18 .. 24 -> "18-24"
      [] age \in 25 .. 34 -> "25-34"
      [] age \in 35 .. 44 -> "35-44"
      [] age \in 45 .. 54 -> "45-54"
      [] age > 54 -> "55+"

\* The group of a voter; an unknown age is put with 25 to 34.
GroupOf(u) == IF People[u].age = 0 THEN "25-34" ELSE getAgeGroup(People[u].age)

RatedAs(k) == {u \in Voters : ratings[u] # Absent /\ Category(ratings[u]) = k}

\* The counts are those of the votes in S, in every group.
CountsOf(data, S) ==
    /\ \A c \in Choices :
          data.candidates[c] = Cardinality({u \in S : People[u].choice = c})
    /\ \A g \in DOMAIN data.ages :
          data.ages[g] = Cardinality({u \in S : GroupOf(u) = g})
    /\ \A p \in Places :
          data.places[p] = Cardinality({u \in S : People[u].place = p})

Describes(data, S) == data.total = Cardinality(S) /\ CountsOf(data, S)

\* What is answered, saved or cached describes one and the same set of mirrored votes
\* in all its counts, though votes arrived and other calculations ran between its
\* awaits (analytics.controller.ts:83-176).
AnalyticsDescribeThePast ==
    /\ saved # Absent => \E S \in SUBSET mirrored : Describes(saved, S)
    /\ cache # Absent => \E S \in SUBSET mirrored : Describes(cache, S)
    /\ \A r \in Readings : Calculating(r, "answer") =>
          \E S \in SUBSET mirrored : Describes(readings[r].data, S)

\* A calculation counts a feedback at most once.  The document may hold it twice, for
\* a calculation that has seen it is saved before its $inc, and never more often
\* (vote.controller.ts:162-197).
FeedbackIsCountedAtMostTwice ==
    \A k \in Categories :
        /\ saved # Absent => saved.feedback[k] <= 2 * Cardinality(RatedAs(k))
        /\ cache # Absent => cache.feedback[k] <= Cardinality(RatedAs(k))
=============================================================================
