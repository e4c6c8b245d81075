---------------------------- MODULE Services_proofs ----------------------------
(***************************************************************************)
(* Proofs about remote signing and about feedback and analytics, for any   *)
(* number of clients, requests, voters and overlapping calls, and about    *)
(* the server process these services and the secrets share.                *)
(***************************************************************************)
EXTENDS Services, Secrets_proofs, FiniteSetTheorems

-----------------------------------------------------------------------------
(* Remote signing *)

LEMMA SigningInvInit == SigningInit => SigningInv
BY DEF SigningInit, SigningInv, SigningTypeOK, HandlersAreWaiting, Waiting, Unasked,
       Outcomes, Requests, Responses

\* Settling a call that waits makes it the only one that does not wait any more.
LEMMA SettleEndsOne ==
    ASSUME SigningTypeOK, NEW r \in SigningCalls, NEW o \in {"signed", "failed"}
    PROVE  /\ Settle(r, o) \in [SigningCalls -> [user : Signers \cup {NoUser}, outcome : Outcomes]]
           /\ \A s \in SigningCalls :
                Settle(r, o)[s].outcome = "waiting" <=> s # r /\ Waiting(s)
BY DEF SigningTypeOK, Settle, Waiting, Outcomes

LEMMA SigningInvStep ==
    SigningInv /\ [SigningNext]_signingVars => SigningInv'
<1>. SUFFICES ASSUME SigningInv, [SigningNext]_signingVars PROVE SigningInv'
    OBVIOUS
<1>. USE DEF SigningInv
<1>1. ASSUME NEW c \in Clients, Join(c) PROVE SigningInv'
  BY <1>1 DEF Join, SigningTypeOK, HandlersAreWaiting, Waiting
<1>2. ASSUME NEW c \in Clients, Leave(c) PROVE SigningInv'
  BY <1>2 DEF Leave, SigningTypeOK, HandlersAreWaiting, Waiting
<1>3. ASSUME NEW r \in SigningCalls, Timeout(r) PROVE SigningInv'
  BY <1>3, SettleEndsOne DEF Timeout, SigningTypeOK, HandlersAreWaiting, Waiting
<1>4. ASSUME NEW r \in SigningCalls, NEW u \in Signers, RequestRemoteSignature(r, u)
      PROVE  SigningInv'
    <2>1. CASE HasConnectedSigningClients(u)
        <3>1. asked' \subseteq Requests
      BY <1>4, <2>1 DEF RequestRemoteSignature, SigningTypeOK, Online, Requests
        <3>2. QED
      BY <1>4, <2>1, <3>1
               DEF RequestRemoteSignature, SigningTypeOK, HandlersAreWaiting, Waiting, Outcomes
    <2>2. CASE ~HasConnectedSigningClients(u)
      BY <1>4, <2>2
           DEF RequestRemoteSignature, SigningTypeOK, HandlersAreWaiting, Waiting, Unasked,
               Outcomes
    <2>3. QED
      BY <2>1, <2>2
<1>5. ASSUME NEW m \in asked, Answer(m) PROVE SigningInv'
  BY <1>5 DEF Answer, SigningTypeOK, HandlersAreWaiting, Waiting, Requests, Responses
<1>6. ASSUME NEW m \in answers, SigningResponse(m) PROVE SigningInv'
    <2>1. m.call \in SigningCalls
      BY DEF SigningTypeOK, Responses
    <2>2. CASE m.call \in handlers
      BY <1>6, <2>1, <2>2, SettleEndsOne
           DEF SigningResponse, SigningTypeOK, HandlersAreWaiting, Waiting, CleanUp
    <2>3. CASE m.call \notin handlers
      BY <1>6, <2>3 DEF SigningResponse, SigningTypeOK, HandlersAreWaiting, Waiting
    <2>4. QED
      BY <2>2, <2>3
<1>7. CASE SigningRestart
  BY <1>7
       DEF SigningRestart, SigningTypeOK, HandlersAreWaiting, Waiting, Outcomes
<1>8. CASE UNCHANGED signingVars
  BY <1>8 DEF signingVars, SigningTypeOK, HandlersAreWaiting, Waiting
<1>9. QED
  BY <1>1, <1>2, <1>3, <1>4, <1>5, <1>6, <1>7, <1>8 DEF SigningNext, SigningService

\* Whatever clients, messages, timers and restarts do: there is a handler for exactly
\* the requests that wait (fabric.ts:84-92, socket-io.service.ts:70-76).
THEOREM HandlersExact == SigningSpec => []HandlersAreWaiting
<1>1. SigningInv => HandlersAreWaiting
  BY DEF SigningInv
<1>2. QED
  BY <1>1, SigningInvInit, SigningInvStep, PTL DEF SigningSpec

\* Promises, handlers and messages keep their shape.
THEOREM SigningTypeCorrect == SigningSpec => []SigningTypeOK
<1>1. SigningInv => SigningTypeOK
  BY DEF SigningInv
<1>2. QED
  BY <1>1, SigningInvInit, SigningInvStep, PTL DEF SigningSpec

-----------------------------------------------------------------------------
(* Feedback and analytics: classes of voters *)

\* For every known age the analytics and nationalId.utils.ts agree on the group.
THEOREM AgeGroupsAgree ==
    \A age \in Nat \ {0} : AgeGroup(age) = getAgeGroup(age)
BY DEF AgeGroup, getAgeGroup

LEMMA GroupsOfVoters ==
    ASSUME NEW u \in Voters
    PROVE  /\ AgeGroup(People[u].age) = GroupOf(u)
           /\ AgeGroup(People[u].age) \in Groups
           /\ People[u].choice \in Choices /\ People[u].place \in Places
<1>1. People[u].age \in Nat /\ People[u].choice \in Choices
  BY PeopleAreVoters
<1>2. AgeGroup(People[u].age) = GroupOf(u)
  <2>1. CASE People[u].age = 0
    BY <2>1 DEF AgeGroup, GroupOf
  <2>2. CASE People[u].age # 0
    BY <1>1, <2>2, AgeGroupsAgree DEF GroupOf
  <2>. QED
    BY <2>1, <2>2
<1>3. AgeGroup(People[u].age) \in Groups
  BY DEF AgeGroup, Groups
<1>. QED
  BY <1>1, <1>2, <1>3 DEF Places

LEMMA Categorised == \A rating : Category(rating) \in Categories
BY DEF Category, Categories

LEMMA VotersCounted ==
    ASSUME NEW S \in SUBSET Voters
    PROVE  IsFiniteSet(S) /\ Cardinality(S) \in Nat
BY VotersAreFinite, FS_Subset, FS_CardinalityType

LEMMA MoreVoters ==
    ASSUME NEW S \in SUBSET Voters, NEW T \in SUBSET S
    PROVE  Cardinality(T) <= Cardinality(S)
BY VotersCounted, FS_Subset

LEMMA AddVoter ==
    ASSUME NEW T \in SUBSET Voters, NEW u \in Voters \ T
    PROVE  Cardinality(T) \in Nat /\ Cardinality(T \cup {u}) = Cardinality(T) + 1
BY VotersCounted, FS_AddElement

\* A class of voters with one voter more, which belongs to it or does not.
LEMMA CountOne ==
    ASSUME NEW T \in SUBSET Voters, NEW u \in Voters \ T, NEW New, NEW belongs \in BOOLEAN,
           New = IF belongs THEN T \cup {u} ELSE T
    PROVE  /\ Cardinality(T) \in Nat
           /\ Cardinality(New) = Cardinality(T) + (IF belongs THEN 1 ELSE 0)
<1>1. Cardinality(T) \in Nat /\ Cardinality(T \cup {u}) = Cardinality(T) + 1
  BY AddVoter
<1>2. CASE belongs
  BY <1>1, <1>2
<1>3. CASE ~belongs
  BY <1>1, <1>3
<1>. QED
  BY <1>2, <1>3

-----------------------------------------------------------------------------
(* What a calculation adds to its counts *)

LEMMA EmptyCounts ==
    ASSUME NEW n \in Nat
    PROVE  LET data == [EmptyAnalytics EXCEPT !.total = n]
           IN  /\ data \in Counts(Groups)
               /\ data.total = n
               /\ CountsOf(data, {})
               /\ \A k \in Categories : data.feedback[k] = 0
<1>. DEFINE data == [EmptyAnalytics EXCEPT !.total = n]
<1>1. data = [total |-> n, candidates |-> [c \in Choices |-> 0], ages |-> [g \in Groups |-> 0],
              places |-> [p \in Places |-> 0], feedback |-> [k \in Categories |-> 0]]
  BY DEF EmptyAnalytics
<1>. HIDE DEF data
<1>2. data \in Counts(Groups)
  BY <1>1 DEF Counts
<1>3. \A P : {u \in {} : P} = {}
  OBVIOUS
<1>4. CountsOf(data, {})
  BY <1>1, FS_EmptySet DEF CountsOf
<1>. QED
  BY <1>1, <1>2, <1>4 DEF data

LEMMA VoteAdded ==
    ASSUME NEW data \in Counts(Groups), NEW u \in Voters
    PROVE  LET new == WithVote(data, u)
           IN  /\ new \in Counts(Groups)
               /\ new.total = data.total
               /\ \A c \in Choices : new.candidates[c] =
                     data.candidates[c] + (IF People[u].choice = c THEN 1 ELSE 0)
               /\ \A g \in Groups : new.ages[g] =
                     data.ages[g] + (IF GroupOf(u) = g THEN 1 ELSE 0)
               /\ \A p \in Places : new.places[p] =
                     data.places[p] + (IF People[u].place = p THEN 1 ELSE 0)
               /\ \A k \in Categories : new.feedback[k] =
                     data.feedback[k] + (IF u \in RatedAs(k) THEN 1 ELSE 0)
<1>1. /\ data = [total |-> data.total, candidates |-> data.candidates, ages |-> data.ages,
                 places |-> data.places, feedback |-> data.feedback]
      /\ data.total \in Nat /\ data.candidates \in [Choices -> Nat]
      /\ data.ages \in [Groups -> Nat] /\ data.places \in [Places -> Nat]
      /\ data.feedback \in [Categories -> Nat]
  BY DEF Counts
<1>2. PICK marks : marks = IF ratings[u] = Absent THEN data.feedback
                           ELSE Plus(data.feedback, Category(ratings[u]))
  OBVIOUS
<1>3. WithVote(data, u) =
        [total |-> data.total,
         candidates |-> Plus(data.candidates, People[u].choice),
         ages |-> Plus(data.ages, AgeGroup(People[u].age)),
         places |-> Plus(data.places, People[u].place),
         feedback |-> marks]
  <2>1. PICK cs : cs = Plus(data.candidates, People[u].choice)
    OBVIOUS
  <2>2. PICK as : as = Plus(data.ages, AgeGroup(People[u].age))
    OBVIOUS
  <2>3. PICK ps : ps = Plus(data.places, People[u].place)
    OBVIOUS
  <2>4. WithVote(data, u) = [data EXCEPT !.candidates = cs, !.ages = as, !.places = ps,
                                         !.feedback = marks]
    BY <1>2, <2>1, <2>2, <2>3, Zenon DEF WithVote
  <2>. QED
    BY <2>1, <2>2, <2>3, <2>4 DEF Counts
<1>4. ASSUME NEW X, NEW counts \in [X -> Nat], NEW x \in X
      PROVE  /\ Plus(counts, x) \in [X -> Nat]
             /\ \A y \in X : Plus(counts, x)[y] = counts[y] + (IF x = y THEN 1 ELSE 0)
  BY DEF Plus
<1>5. /\ marks \in [Categories -> Nat]
      /\ \A k \in Categories : marks[k] = data.feedback[k] + (IF u \in RatedAs(k) THEN 1 ELSE 0)
  <2>1. \A k : u \in RatedAs(k) <=> ratings[u] # Absent /\ Category(ratings[u]) = k
    BY DEF RatedAs
  <2>2. CASE ratings[u] = Absent
    BY <1>1, <1>2, <2>1, <2>2
  <2>3. CASE ratings[u] # Absent
    <3>1. Category(ratings[u]) \in Categories
      BY Categorised
    <3>. QED
      BY <1>1, <1>2, <1>4, <2>1, <2>3, <3>1
  <2>. QED
    BY <2>2, <2>3
<1>6. /\ AgeGroup(People[u].age) = GroupOf(u) /\ AgeGroup(People[u].age) \in Groups
      /\ People[u].choice \in Choices /\ People[u].place \in Places
  BY GroupsOfVoters
<1>7. PICK new : new = WithVote(data, u)
  OBVIOUS
<1>8. /\ new.total = data.total /\ new.feedback = marks
      /\ new.candidates = Plus(data.candidates, People[u].choice)
      /\ new.ages = Plus(data.ages, GroupOf(u))
      /\ new.places = Plus(data.places, People[u].place)
  BY <1>3, <1>6, <1>7
<1>9. /\ new.candidates \in [Choices -> Nat]
      /\ \A c \in Choices : new.candidates[c] =
            data.candidates[c] + (IF People[u].choice = c THEN 1 ELSE 0)
  BY <1>1, <1>4, <1>6, <1>8
<1>10. /\ new.ages \in [Groups -> Nat]
       /\ \A g \in Groups : new.ages[g] = data.ages[g] + (IF GroupOf(u) = g THEN 1 ELSE 0)
  BY <1>1, <1>4, <1>6, <1>8
<1>11. /\ new.places \in [Places -> Nat]
       /\ \A p \in Places : new.places[p] =
             data.places[p] + (IF People[u].place = p THEN 1 ELSE 0)
  BY <1>1, <1>4, <1>6, <1>8
<1>12. new \in Counts(Groups)
  BY <1>1, <1>3, <1>5, <1>7, <1>8, <1>9, <1>10, <1>11 DEF Counts
<1>. QED
  BY <1>5, <1>7, <1>8, <1>9, <1>10, <1>11, <1>12

\* The counts of the votes in S become those of one vote more.
LEMMA VoteCounted ==
    ASSUME NEW data \in Counts(Groups), NEW S \in SUBSET Voters, NEW u \in Voters \ S,
           CountsOf(data, S)
    PROVE  CountsOf(WithVote(data, u), S \cup {u})
<1>. DEFINE new == WithVote(data, u)
<1>1. DOMAIN data.ages = Groups /\ DOMAIN new.ages = Groups
  BY VoteAdded DEF Counts
<1>2. \A c \in Choices : new.candidates[c] = Cardinality({v \in S \cup {u} : People[v].choice = c})
  <2>. SUFFICES ASSUME NEW c \in Choices
                PROVE  new.candidates[c] = Cardinality({v \in S \cup {u} : People[v].choice = c})
    OBVIOUS
  <2>. DEFINE T == {v \in S : People[v].choice = c}
              New == {v \in S \cup {u} : People[v].choice = c}
  <2>1. T \in SUBSET Voters /\ u \in Voters \ T
    OBVIOUS
  <2>2. New = IF People[u].choice = c THEN T \cup {u} ELSE T
    OBVIOUS
  <2>3. data.candidates[c] = Cardinality(T)
    BY DEF CountsOf
  <2>4. new.candidates[c] = data.candidates[c] + (IF People[u].choice = c THEN 1 ELSE 0)
    BY VoteAdded
  <2>. HIDE DEF T, New, new
  <2>5. Cardinality(New) = Cardinality(T) + (IF People[u].choice = c THEN 1 ELSE 0)
    BY <2>1, <2>2, CountOne
  <2>. QED
    BY <2>3, <2>4, <2>5 DEF New
<1>3. \A g \in Groups : new.ages[g] = Cardinality({v \in S \cup {u} : GroupOf(v) = g})
  <2>. SUFFICES ASSUME NEW g \in Groups
                PROVE  new.ages[g] = Cardinality({v \in S \cup {u} : GroupOf(v) = g})
    OBVIOUS
  <2>. DEFINE T == {v \in S : GroupOf(v) = g}
              New == {v \in S \cup {u} : GroupOf(v) = g}
  <2>1. T \in SUBSET Voters /\ u \in Voters \ T
    OBVIOUS
  <2>2. New = IF GroupOf(u) = g THEN T \cup {u} ELSE T
    OBVIOUS
  <2>3. data.ages[g] = Cardinality(T)
    BY <1>1 DEF CountsOf
  <2>4. new.ages[g] = data.ages[g] + (IF GroupOf(u) = g THEN 1 ELSE 0)
    BY VoteAdded
  <2>. HIDE DEF T, New, new
  <2>5. Cardinality(New) = Cardinality(T) + (IF GroupOf(u) = g THEN 1 ELSE 0)
    BY <2>1, <2>2, CountOne
  <2>. QED
    BY <2>3, <2>4, <2>5 DEF New
<1>4. \A p \in Places : new.places[p] = Cardinality({v \in S \cup {u} : People[v].place = p})
  <2>. SUFFICES ASSUME NEW p \in Places
                PROVE  new.places[p] = Cardinality({v \in S \cup {u} : People[v].place = p})
    OBVIOUS
  <2>. DEFINE T == {v \in S : People[v].place = p}
              New == {v \in S \cup {u} : People[v].place = p}
  <2>1. T \in SUBSET Voters /\ u \in Voters \ T
    OBVIOUS
  <2>2. New = IF People[u].place = p THEN T \cup {u} ELSE T
    OBVIOUS
  <2>3. data.places[p] = Cardinality(T)
    BY DEF CountsOf
  <2>4. new.places[p] = data.places[p] + (IF People[u].place = p THEN 1 ELSE 0)
    BY VoteAdded
  <2>. HIDE DEF T, New, new
  <2>5. Cardinality(New) = Cardinality(T) + (IF People[u].place = p THEN 1 ELSE 0)
    BY <2>1, <2>2, CountOne
  <2>. QED
    BY <2>3, <2>4, <2>5 DEF New
<1>. QED
  BY <1>1, <1>2, <1>3, <1>4 DEF CountsOf

\* What is stored are the same counts.
LEMMA StoredCounts ==
    ASSUME NEW data \in Counts(Groups)
    PROVE  /\ Stored(data) \in Counts(Groups \ {"0-17"})
           /\ Stored(data).total = data.total
           /\ Stored(data).feedback = data.feedback
           /\ \A S : CountsOf(data, S) => CountsOf(Stored(data), S)
<1>1. /\ data = [total |-> data.total, candidates |-> data.candidates, ages |-> data.ages,
                 places |-> data.places, feedback |-> data.feedback]
      /\ data.total \in Nat /\ data.candidates \in [Choices -> Nat]
      /\ data.ages \in [Groups -> Nat] /\ data.places \in [Places -> Nat]
      /\ data.feedback \in [Categories -> Nat]
  BY DEF Counts
<1>2. Stored(data) = [total |-> data.total, candidates |-> data.candidates,
                      ages |-> [g \in Groups \ {"0-17"} |-> data.ages[g]],
                      places |-> data.places, feedback |-> data.feedback]
  BY <1>1 DEF Stored
<1>. QED
  BY <1>1, <1>2 DEF Counts, CountsOf

-----------------------------------------------------------------------------
(* Types *)

LEMMA FeedbackTypes ==
    ASSUME InsightTypeOK, NEW f \in Feedbacks, FeedbackStep(f)
    PROVE  InsightTypeOK'
<1>. USE DEF InsightTypeOK
<1>1. ASSUME NEW u \in Voters, SubmitVoterFeedback(f, u)
      PROVE  InsightTypeOK'
  BY <1>1 DEF SubmitVoterFeedback
<1>2. CASE FindFeedback(f)
  BY <1>2 DEF FindFeedback, Submitting, Finish, Proceed
<1>3. CASE CreateFeedback(f)
  BY <1>3 DEF CreateFeedback, Submitting, Finish, Proceed
<1>4. CASE CountFeedback(f)
  <2>. DEFINE x == Category(feedbacks[f].rating)
  <2>1. x \in Categories
    BY Categorised
  <2>. HIDE DEF x
  <2>2. saved' # Absent => saved' \in Counts(Groups \ {"0-17"})
    <3>1. CASE saved = Absent
      BY <1>4, <3>1 DEF CountFeedback
    <3>2. CASE saved # Absent
      <4>1. saved' = [saved EXCEPT !.feedback[x] = @ + 1]
        BY <1>4, <3>2 DEF CountFeedback, x
      <4>. QED
        BY <2>1, <3>2, <4>1 DEF Counts
    <3>. QED
      BY <3>1, <3>2
  <2>. QED
    BY <1>4, <2>2 DEF CountFeedback, Submitting, Finish
<1>5. CASE FeedbackFails(f)
  BY <1>5 DEF FeedbackFails, Finish
<1>. QED
  BY <1>1, <1>2, <1>3, <1>4, <1>5 DEF FeedbackStep

\* A calculation after the vote of u.
LEMMA VoteCountedHere ==
    ASSUME InsightTypeOK, NEW r \in Readings, NEW u \in Voters, CountVote(r, u)
    PROVE  /\ readings[r] # Absent /\ readings[r].step = "count"
           /\ u \in readings[r].left /\ readings[r].left \subseteq mirrored
           /\ readings[r].data \in Counts(Groups)
           /\ readings'[r] \in [step : {"count", "save"}, left : SUBSET mirrored,
                                data : Counts(Groups)]
           /\ readings'[r].step = IF readings'[r].left = {} THEN "save" ELSE "count"
           /\ readings'[r].left = readings[r].left \ {u}
           /\ readings'[r].data = WithVote(readings[r].data, u)
           /\ DOMAIN readings' = Readings
           /\ \A q \in Readings \ {r} : readings'[q] = readings[q]
<1>1. PICK old : old = readings[r]
  OBVIOUS
<1>2. PICK data : data = WithVote(old.data, u)
  OBVIOUS
<1>3. /\ old # Absent /\ old.step = "count" /\ u \in old.left
      /\ readings' = [readings EXCEPT ![r] =
                        [readings[r] EXCEPT !.left = @ \ {u}, !.data = data,
                           !.step = IF old.left = {u} THEN "save" ELSE "count"]]
  BY <1>1, <1>2 DEF CountVote, Calculating
<1>4. /\ old \in [step : {"count", "save", "answer"}, left : SUBSET mirrored,
                  data : Counts(Groups)]
      /\ DOMAIN readings = Readings
  BY <1>1, <1>3 DEF InsightTypeOK
<1>5. data \in Counts(Groups)
  BY <1>2, <1>4, VoteAdded
<1>6. PICK rest, step : /\ rest = old.left \ {u}
                        /\ step = IF old.left = {u} THEN "save" ELSE "count"
  OBVIOUS
<1>7. PICK new : new = [old EXCEPT !.left = rest, !.data = data, !.step = step]
  OBVIOUS
<1>8. readings' = [readings EXCEPT ![r] = new]
  BY <1>1, <1>3, <1>6, <1>7
<1>9. /\ DOMAIN readings' = Readings
      /\ readings'[r] = new /\ \A q \in Readings \ {r} : readings'[q] = readings[q]
  BY <1>4, <1>8
<1>10. old.left = {u} <=> rest = {}
  BY <1>3, <1>6
<1>11. /\ step \in {"count", "save"} /\ rest \in SUBSET mirrored
       /\ readings[r].left \subseteq mirrored /\ readings[r].data \in Counts(Groups)
  BY <1>1, <1>4, <1>6
<1>12. /\ new \in [step : {"count", "save"}, left : SUBSET mirrored, data : Counts(Groups)]
       /\ new.left = rest /\ new.data = data /\ new.step = step
  BY <1>4, <1>5, <1>7, <1>11
<1>. QED
  BY <1>1, <1>2, <1>3, <1>6, <1>9, <1>10, <1>11, <1>12

LEMMA AnalyticsTypes ==
    ASSUME InsightTypeOK, NEW r \in Readings, AnalyticsStep(r)
    PROVE  InsightTypeOK'
<1>. USE DEF InsightTypeOK
<1>1. CASE GetElectionAnalytics(r)
  <2>1. PICK data : data = [EmptyAnalytics EXCEPT !.total = Cardinality(mirrored)]
    OBVIOUS
  <2>2. data \in Counts(Groups)
    BY <2>1, VotersCounted, EmptyCounts
  <2>3. readings' = [readings EXCEPT ![r] =
           [step |-> IF mirrored = {} THEN "answer" ELSE "count", left |-> mirrored,
            data |-> data]]
    BY <1>1, <2>1 DEF GetElectionAnalytics
  <2>. QED
    BY <1>1, <2>2, <2>3 DEF GetElectionAnalytics
<1>2. ASSUME NEW u \in Voters, CountVote(r, u)
      PROVE  InsightTypeOK'
  <2>1. /\ readings'[r] \in [step : {"count", "save"}, left : SUBSET mirrored,
                             data : Counts(Groups)]
        /\ readings'[r].step = IF readings'[r].left = {} THEN "save" ELSE "count"
        /\ DOMAIN readings' = Readings
        /\ \A q \in Readings \ {r} : readings'[q] = readings[q]
    BY <1>2, VoteCountedHere
  <2>2. UNCHANGED <<mirrored, ratings, feedbacks, saved, cache>>
    BY <1>2 DEF CountVote
  <2>. QED
    BY <2>1, <2>2
<1>3. CASE SaveAnalytics(r)
  <2>1. readings[r] # Absent /\ readings[r].step = "save"
    BY <1>3 DEF SaveAnalytics, Calculating
  <2>2. Stored(readings[r].data) \in Counts(Groups \ {"0-17"})
    BY <2>1, StoredCounts
  <2>. QED
    BY <1>3, <2>1, <2>2 DEF SaveAnalytics
<1>4. CASE AnswerAnalytics(r)
  BY <1>4 DEF AnswerAnalytics, Calculating
<1>5. CASE AnalyticsFail(r)
  BY <1>5 DEF AnalyticsFail
<1>. QED
  BY <1>1, <1>2, <1>3, <1>4, <1>5 DEF AnalyticsStep

LEMMA TypesStay ==
    InsightTypeOK /\ [InsightNext]_insightVars => InsightTypeOK'
<1>. SUFFICES ASSUME InsightTypeOK, [InsightNext]_insightVars
              PROVE  InsightTypeOK'
  OBVIOUS
<1>1. ASSUME NEW u \in Voters, VoteMirrored(u)
      PROVE  InsightTypeOK'
  BY <1>1 DEF InsightTypeOK, VoteMirrored
<1>2. CASE CacheExpires
  BY <1>2 DEF InsightTypeOK, CacheExpires
<1>3. CASE InsightRestart
  BY <1>3 DEF InsightTypeOK, InsightRestart
<1>4. CASE UNCHANGED insightVars
  BY <1>4 DEF InsightTypeOK, insightVars
<1>. QED
  BY <1>1, <1>2, <1>3, <1>4, FeedbackTypes, AnalyticsTypes DEF InsightNext, InsightService

-----------------------------------------------------------------------------
(* Votes and ratings stay *)

LEMMA VotesStay ==
    ASSUME InsightTypeOK, [InsightNext]_insightVars
    PROVE  /\ mirrored \subseteq mirrored'
           /\ \A u \in Voters : ratings[u] # Absent => ratings'[u] = ratings[u]
           /\ \A k : RatedAs(k) \subseteq RatedAs(k)' /\ RatedAs(k)' \subseteq Voters
<1>1. mirrored \subseteq mirrored'
  BY DEF InsightNext, InsightService, insightVars, VoteMirrored, FeedbackStep, AnalyticsStep,
         SubmitVoterFeedback, FindFeedback, CreateFeedback, CountFeedback, FeedbackFails,
         GetElectionAnalytics, CountVote, SaveAnalytics, AnswerAnalytics, AnalyticsFail,
         CacheExpires, InsightRestart
<1>2. \A u \in Voters : ratings[u] # Absent => ratings'[u] = ratings[u]
  <2>1. ASSUME NEW f \in Feedbacks, CreateFeedback(f)
        PROVE  \A u \in Voters : ratings[u] # Absent => ratings'[u] = ratings[u]
    BY <2>1 DEF InsightTypeOK, CreateFeedback
  <2>2. CASE UNCHANGED ratings
    BY <2>2
  <2>. QED
    BY <2>1, <2>2
    DEF InsightNext, InsightService, insightVars, VoteMirrored, FeedbackStep, AnalyticsStep,
        SubmitVoterFeedback, FindFeedback, CountFeedback, FeedbackFails,
        GetElectionAnalytics, CountVote, SaveAnalytics, AnswerAnalytics, AnalyticsFail,
        CacheExpires, InsightRestart
<1>3. \A k : RatedAs(k) \subseteq RatedAs(k)' /\ RatedAs(k)' \subseteq Voters
  BY <1>2 DEF RatedAs
<1>. QED
  BY <1>1, <1>2, <1>3

-----------------------------------------------------------------------------
(* Calls that are about to count *)

LEMMA CountingStays ==
    InsightTypeOK /\ CountingIsOwn /\ [InsightNext]_insightVars => CountingIsOwn'
<1>. SUFFICES ASSUME InsightTypeOK, CountingIsOwn, [InsightNext]_insightVars
              PROVE  CountingIsOwn'
  OBVIOUS
<1>. USE DEF InsightTypeOK, CountingIsOwn, Submitting
<1>1. ASSUME NEW f \in Feedbacks, NEW u \in Voters, SubmitVoterFeedback(f, u)
      PROVE  CountingIsOwn'
  BY <1>1 DEF SubmitVoterFeedback
<1>2. ASSUME NEW f \in Feedbacks, FindFeedback(f)
      PROVE  CountingIsOwn'
  BY <1>2 DEF FindFeedback, Finish, Proceed
<1>3. ASSUME NEW f \in Feedbacks, CreateFeedback(f)
      PROVE  CountingIsOwn'
  <2>1. CASE ratings[feedbacks[f].voter] # Absent
    BY <1>3, <2>1 DEF CreateFeedback, Finish
  <2>2. CASE ratings[feedbacks[f].voter] = Absent
    <3>1. /\ ratings' = [ratings EXCEPT ![feedbacks[f].voter] = feedbacks[f].rating]
          /\ feedbacks' = [feedbacks EXCEPT ![f].step = "count"]
      BY <1>3, <2>2 DEF CreateFeedback, Proceed
    <3>2. \A g \in Feedbacks : Submitting(g, "count") =>
             feedbacks[g].voter # feedbacks[f].voter
      BY <2>2, AbsentIsNoRating
    <3>. QED
      BY <1>3, <3>1, <3>2 DEF CreateFeedback
  <2>. QED
    BY <2>1, <2>2
<1>4. ASSUME NEW f \in Feedbacks, CountFeedback(f)
      PROVE  CountingIsOwn'
  BY <1>4 DEF CountFeedback, Finish
<1>5. ASSUME NEW f \in Feedbacks, FeedbackFails(f)
      PROVE  CountingIsOwn'
  BY <1>5 DEF FeedbackFails, Finish
<1>6. CASE InsightRestart
  BY <1>6 DEF InsightRestart
<1>7. CASE UNCHANGED <<feedbacks, ratings>>
  BY <1>7
<1>. QED
  BY <1>1, <1>2, <1>3, <1>4, <1>5, <1>6, <1>7
  DEF InsightNext, InsightService, insightVars, VoteMirrored, FeedbackStep, AnalyticsStep,
      GetElectionAnalytics, CountVote, SaveAnalytics, AnswerAnalytics, AnalyticsFail,
      CacheExpires

-----------------------------------------------------------------------------
(* Calculations *)

\* A calculation that has come this far is backed, whatever else has happened.
LEMMA StillBacked ==
    ASSUME InsightTypeOK, CalculationsAreBacked, [InsightNext]_insightVars,
           NEW r \in Readings, readings[r] # Absent
    PROVE  LET left == readings[r].left
               data == readings[r].data
           IN  /\ \E S \in SUBSET mirrored' :
                     left \subseteq S /\ data.total = Cardinality(S) /\ CountsOf(data, S \ left)
               /\ \A k \in Categories : data.feedback[k] <= Cardinality(RatedAs(k)' \ left)
<1>. DEFINE left == readings[r].left
            data == readings[r].data
<1>1. PICK S \in SUBSET mirrored :
        left \subseteq S /\ data.total = Cardinality(S) /\ CountsOf(data, S \ left)
  BY DEF CalculationsAreBacked
<1>2. S \in SUBSET mirrored'
  BY VotesStay
<1>3. ASSUME NEW k \in Categories
      PROVE  data.feedback[k] <= Cardinality(RatedAs(k)' \ left)
  <2>1. data.feedback[k] <= Cardinality(RatedAs(k) \ left)
    BY DEF CalculationsAreBacked
  <2>2. data.feedback[k] \in Nat
    <3>1. data \in Counts(Groups)
      BY DEF InsightTypeOK
    <3>. QED
      BY <3>1 DEF Counts
  <2>3. /\ RatedAs(k)' \ left \in SUBSET Voters
        /\ RatedAs(k) \ left \in SUBSET (RatedAs(k)' \ left)
    BY VotesStay
  <2>. HIDE DEF left, data
  <2>4. /\ Cardinality(RatedAs(k) \ left) <= Cardinality(RatedAs(k)' \ left)
        /\ Cardinality(RatedAs(k)' \ left) \in Nat
    BY <2>3, MoreVoters, VotersCounted
  <2>5. Cardinality(RatedAs(k) \ left) \in Nat
    BY <2>3, VotersCounted
  <2>. QED
    BY <2>1, <2>2, <2>4, <2>5
<1>. QED
  BY <1>1, <1>2, <1>3

LEMMA CalculationStarts ==
    ASSUME InsightTypeOK, CalculationsAreBacked, [InsightNext]_insightVars,
           NEW r \in Readings, GetElectionAnalytics(r)
    PROVE  CalculationsAreBacked'
<1>1. PICK data : data = [EmptyAnalytics EXCEPT !.total = Cardinality(mirrored)]
  OBVIOUS
<1>2. /\ data.total = Cardinality(mirrored) /\ CountsOf(data, {})
      /\ \A k \in Categories : data.feedback[k] = 0
  BY <1>1, VotersCounted, EmptyCounts DEF InsightTypeOK
<1>3. /\ readings'[r].left = mirrored /\ readings'[r].data = data
      /\ \A q \in Readings \ {r} : readings'[q] = readings[q]
      /\ UNCHANGED <<mirrored, ratings>>
  BY <1>1 DEF GetElectionAnalytics, InsightTypeOK
<1>4. ASSUME NEW q \in Readings, readings'[q] # Absent
      PROVE  LET left == readings'[q].left
                 calc == readings'[q].data
             IN  /\ \E S \in SUBSET mirrored' :
                      left \subseteq S /\ calc.total = Cardinality(S) /\ CountsOf(calc, S \ left)
                 /\ \A k \in Categories : calc.feedback[k] <= Cardinality(RatedAs(k)' \ left)
  <2>1. CASE q # r
    BY <1>3, <1>4, <2>1, StillBacked
  <2>2. CASE q = r
    <3>1. mirrored \ mirrored = {}
      OBVIOUS
    <3>2. CountsOf(data, mirrored \ mirrored)
      BY <1>2, <3>1
    <3>3. ASSUME NEW k \in Categories
          PROVE  data.feedback[k] <= Cardinality(RatedAs(k)' \ mirrored)
      <4>1. RatedAs(k)' \ mirrored \in SUBSET Voters
        BY VotesStay
      <4>2. Cardinality(RatedAs(k)' \ mirrored) \in Nat
        BY <4>1, VotersCounted
      <4>. QED
        BY <1>2, <4>2
    <3>. QED
      BY <1>2, <1>3, <2>2, <3>2, <3>3
  <2>. QED
    BY <2>1, <2>2
<1>. QED
  BY <1>4 DEF CalculationsAreBacked, CountsOf

LEMMA CalculationGoesOn ==
    ASSUME InsightTypeOK, CalculationsAreBacked, [InsightNext]_insightVars,
           NEW r \in Readings, NEW u \in Voters, CountVote(r, u)
    PROVE  CalculationsAreBacked'
<1>1. PICK left, data : left = readings[r].left /\ data = readings[r].data
  OBVIOUS
<1>2. /\ readings[r] # Absent /\ u \in left /\ left \subseteq mirrored
      /\ data \in Counts(Groups)
      /\ readings'[r].left = left \ {u} /\ readings'[r].data = WithVote(data, u)
      /\ \A q \in Readings \ {r} : readings'[q] = readings[q]
  BY <1>1, VoteCountedHere
<1>3. mirrored \subseteq Voters
  BY DEF InsightTypeOK
<1>4. PICK S \in SUBSET mirrored :
        left \subseteq S /\ data.total = Cardinality(S) /\ CountsOf(data, S \ left)
  BY <1>1, <1>2 DEF CalculationsAreBacked
<1>5. CountsOf(WithVote(data, u), S \ (left \ {u}))
  <2>1. S \ (left \ {u}) = (S \ left) \cup {u} /\ u \in Voters \ (S \ left)
    BY <1>2, <1>4
  <2>2. S \ left \in SUBSET Voters
    BY <1>3
  <2>. QED
    BY <1>2, <1>4, <2>1, <2>2, VoteCounted
<1>6. ratings' = ratings /\ mirrored' = mirrored
  BY DEF CountVote
<1>7. ASSUME NEW k \in Categories
      PROVE  WithVote(data, u).feedback[k] <= Cardinality(RatedAs(k) \ (left \ {u}))
  <2>. DEFINE T == RatedAs(k) \ left
              New == RatedAs(k) \ (left \ {u})
  <2>1. T \in SUBSET Voters /\ u \in Voters \ T
    BY <1>2 DEF RatedAs
  <2>2. New = IF u \in RatedAs(k) THEN T \cup {u} ELSE T
    BY <1>2
  <2>3. data.feedback[k] <= Cardinality(T)
    BY <1>1, <1>2 DEF CalculationsAreBacked
  <2>4. data.feedback[k] \in Nat
    BY <1>2 DEF Counts
  <2>5. WithVote(data, u).feedback[k] = data.feedback[k] + (IF u \in RatedAs(k) THEN 1 ELSE 0)
    BY <1>2, VoteAdded
  <2>. HIDE DEF T, New
  <2>6. /\ Cardinality(T) \in Nat
        /\ Cardinality(New) = Cardinality(T) + (IF u \in RatedAs(k) THEN 1 ELSE 0)
    BY <2>1, <2>2, CountOne
  <2>7. WithVote(data, u).feedback[k] <= Cardinality(New)
    BY <2>3, <2>4, <2>5, <2>6
  <2>. QED
    BY <2>7 DEF New
<1>8. ASSUME NEW q \in Readings, readings'[q] # Absent
      PROVE  LET rest == readings'[q].left
                 calc == readings'[q].data
             IN  /\ \E X \in SUBSET mirrored' :
                      rest \subseteq X /\ calc.total = Cardinality(X) /\ CountsOf(calc, X \ rest)
                 /\ \A k \in Categories : calc.feedback[k] <= Cardinality(RatedAs(k)' \ rest)
  <2>1. CASE q # r
    BY <1>2, <1>8, <2>1, StillBacked
  <2>2. CASE q = r
    <3>1. WithVote(data, u).total = Cardinality(S)
      BY <1>2, <1>4, VoteAdded
    <3>2. left \ {u} \subseteq S
      BY <1>4
    <3>3. \A k : RatedAs(k)' = RatedAs(k)
      BY <1>6 DEF RatedAs
    <3>. QED
      BY <1>2, <1>4, <1>5, <1>6, <1>7, <2>2, <3>1, <3>2, <3>3
  <2>. QED
    BY <2>1, <2>2
<1>. QED
  BY <1>8 DEF CalculationsAreBacked, CountsOf

\* A step that takes no vote and counts none: a calculation is as it was, or is gone.
LEMMA CalculationWaits ==
    ASSUME InsightTypeOK, CalculationsAreBacked, [InsightNext]_insightVars,
           \A r \in Readings : readings'[r] # Absent =>
              /\ readings[r] # Absent
              /\ readings'[r].left = readings[r].left /\ readings'[r].data = readings[r].data
    PROVE  CalculationsAreBacked'
<1>1. ASSUME NEW q \in Readings, readings'[q] # Absent
      PROVE  LET left == readings'[q].left
                 data == readings'[q].data
             IN  /\ \E S \in SUBSET mirrored' :
                      left \subseteq S /\ data.total = Cardinality(S) /\ CountsOf(data, S \ left)
                 /\ \A k \in Categories : data.feedback[k] <= Cardinality(RatedAs(k)' \ left)
  BY <1>1, StillBacked
<1>. QED
  BY <1>1 DEF CalculationsAreBacked, CountsOf

LEMMA CalculationsStay ==
    InsightTypeOK /\ CalculationsAreBacked /\ [InsightNext]_insightVars
      => CalculationsAreBacked'
<1>. SUFFICES ASSUME InsightTypeOK, CalculationsAreBacked, [InsightNext]_insightVars
              PROVE  CalculationsAreBacked'
  OBVIOUS
<1>. DEFINE Waits == \A r \in Readings : readings'[r] # Absent =>
                        /\ readings[r] # Absent
                        /\ readings'[r].left = readings[r].left
                        /\ readings'[r].data = readings[r].data
<1>1. ASSUME NEW r \in Readings, SaveAnalytics(r)
      PROVE  Waits
  BY <1>1 DEF SaveAnalytics, Calculating, InsightTypeOK
<1>2. ASSUME NEW r \in Readings, AnswerAnalytics(r) \/ AnalyticsFail(r)
      PROVE  Waits
  BY <1>2 DEF AnswerAnalytics, AnalyticsFail, InsightTypeOK
<1>3. InsightRestart => Waits
  BY DEF InsightRestart
<1>4. UNCHANGED readings => Waits
  OBVIOUS
<1>. HIDE DEF Waits
<1>5. Waits \/ \E r \in Readings :
                  GetElectionAnalytics(r) \/ \E u \in Voters : CountVote(r, u)
  BY <1>1, <1>2, <1>3, <1>4
  DEF InsightNext, InsightService, insightVars, VoteMirrored, FeedbackStep, AnalyticsStep,
      SubmitVoterFeedback, FindFeedback, CreateFeedback, CountFeedback, FeedbackFails,
      CacheExpires
<1>6. CASE Waits
  BY <1>6, CalculationWaits DEF Waits
<1>. QED
  BY <1>5, <1>6, CalculationStarts, CalculationGoesOn

-----------------------------------------------------------------------------
(* Feedback in the document *)

LEMMA FeedbackCounted ==
    ASSUME InsightTypeOK, CountingIsOwn, NEW k
    PROVE  /\ RatedAs(k) \in SUBSET Voters /\ PendingAs(k) \in SUBSET RatedAs(k)
           /\ Cardinality(RatedAs(k)) \in Nat /\ Cardinality(PendingAs(k)) \in Nat
           /\ Cardinality(PendingAs(k)) <= Cardinality(RatedAs(k))
<1>1. RatedAs(k) \in SUBSET Voters
  BY DEF RatedAs
<1>2. PendingAs(k) \in SUBSET RatedAs(k)
  BY AbsentIsNoRating DEF PendingAs, RatedAs, CountingIsOwn, InsightTypeOK, Submitting
<1>. QED
  BY <1>1, <1>2, VotersCounted, MoreVoters

LEMMA StoredIsNat ==
    ASSUME InsightTypeOK, NEW k \in Categories
    PROVE  /\ saved # Absent => saved.feedback[k] \in Nat
           /\ cache # Absent => cache.feedback[k] \in Nat
BY DEF InsightTypeOK, Counts

LEMMA RatedGrows ==
    ASSUME InsightTypeOK, [InsightNext]_insightVars, NEW k
    PROVE  /\ Cardinality(RatedAs(k)) \in Nat /\ Cardinality(RatedAs(k)') \in Nat
           /\ Cardinality(RatedAs(k)) <= Cardinality(RatedAs(k)')
<1>1. RatedAs(k) \subseteq RatedAs(k)' /\ RatedAs(k)' \in SUBSET Voters
  BY VotesStay
<1>. QED
  BY <1>1, VotersCounted, MoreVoters

\* A step that counts no feedback and begins to count none.
LEMMA FeedbackWaits ==
    ASSUME InsightTypeOK, CountingIsOwn, FeedbackIsBacked, [InsightNext]_insightVars,
           UNCHANGED saved, cache' \in {cache, Absent},
           \A f \in Feedbacks : Submitting(f, "count")' =>
              Submitting(f, "count") /\ feedbacks'[f] = feedbacks[f]
    PROVE  FeedbackIsBacked'
<1>. SUFFICES ASSUME NEW k \in Categories
              PROVE  /\ saved # Absent =>
                          saved.feedback[k] + Cardinality(PendingAs(k)')
                            <= 2 * Cardinality(RatedAs(k)')
                     /\ cache # Absent => cache.feedback[k] <= Cardinality(RatedAs(k)')
  BY DEF FeedbackIsBacked
<1>1. PendingAs(k)' \in SUBSET PendingAs(k)
  BY DEF PendingAs
<1>2. PendingAs(k) \in SUBSET Voters
  BY FeedbackCounted
<1>3. /\ Cardinality(PendingAs(k)') <= Cardinality(PendingAs(k))
      /\ Cardinality(PendingAs(k)) \in Nat /\ Cardinality(PendingAs(k)') \in Nat
  BY <1>1, <1>2, MoreVoters, VotersCounted
<1>4. /\ saved # Absent =>
            saved.feedback[k] + Cardinality(PendingAs(k)) <= 2 * Cardinality(RatedAs(k))
      /\ cache # Absent => cache.feedback[k] <= Cardinality(RatedAs(k))
  BY DEF FeedbackIsBacked
<1>. QED
  BY <1>3, <1>4, RatedGrows, StoredIsNat

LEMMA FeedbackCreated ==
    ASSUME InsightTypeOK, CountingIsOwn, FeedbackIsBacked, [InsightNext]_insightVars,
           NEW f \in Feedbacks, CreateFeedback(f), ratings[feedbacks[f].voter] = Absent
    PROVE  FeedbackIsBacked'
<1>1. PICK u, x : u = feedbacks[f].voter /\ x = Category(feedbacks[f].rating)
  OBVIOUS
<1>2. /\ u \in Voters /\ ratings[u] = Absent
      /\ ratings' = [ratings EXCEPT ![u] = feedbacks[f].rating]
      /\ feedbacks[f].rating \in Ratings
      /\ feedbacks' = [feedbacks EXCEPT ![f].step = "count"]
      /\ UNCHANGED <<saved, cache>>
  BY <1>1 DEF CreateFeedback, Submitting, Proceed, InsightTypeOK
<1>. SUFFICES ASSUME NEW k \in Categories
              PROVE  /\ saved # Absent =>
                          saved.feedback[k] + Cardinality(PendingAs(k)')
                            <= 2 * Cardinality(RatedAs(k)')
                     /\ cache # Absent => cache.feedback[k] <= Cardinality(RatedAs(k)')
  BY <1>2 DEF FeedbackIsBacked
<1>3. u \notin RatedAs(k) /\ u \notin PendingAs(k)
  BY <1>2, FeedbackCounted DEF RatedAs
<1>4. RatedAs(k)' = IF x = k THEN RatedAs(k) \cup {u} ELSE RatedAs(k)
  BY <1>1, <1>2, AbsentIsNoRating DEF RatedAs, InsightTypeOK
<1>5. PendingAs(k)' \subseteq IF x = k THEN PendingAs(k) \cup {u} ELSE PendingAs(k)
  BY <1>1, <1>2 DEF PendingAs, Submitting, InsightTypeOK
<1>6. /\ Cardinality(RatedAs(k)) \in Nat
      /\ Cardinality(RatedAs(k)') = Cardinality(RatedAs(k)) + (IF x = k THEN 1 ELSE 0)
  <2>1. RatedAs(k) \in SUBSET Voters /\ u \in Voters \ RatedAs(k)
    BY <1>2, <1>3, FeedbackCounted
  <2>2. Cardinality(RatedAs(k)) \in Nat
          /\ Cardinality(RatedAs(k) \cup {u}) = Cardinality(RatedAs(k)) + 1
    BY <2>1, AddVoter
  <2>. QED
    BY <1>4, <2>2
<1>7. PICK P : P = IF x = k THEN PendingAs(k) \cup {u} ELSE PendingAs(k)
  OBVIOUS
<1>8. /\ Cardinality(PendingAs(k)) \in Nat
      /\ Cardinality(P) = Cardinality(PendingAs(k)) + (IF x = k THEN 1 ELSE 0)
  <2>1. PendingAs(k) \in SUBSET Voters /\ u \in Voters \ PendingAs(k)
    BY <1>2, <1>3, FeedbackCounted
  <2>2. Cardinality(PendingAs(k)) \in Nat
          /\ Cardinality(PendingAs(k) \cup {u}) = Cardinality(PendingAs(k)) + 1
    BY <2>1, AddVoter
  <2>. QED
    BY <1>7, <2>2
<1>9. Cardinality(PendingAs(k)') <= Cardinality(P) /\ Cardinality(PendingAs(k)') \in Nat
  <2>1. P \in SUBSET Voters /\ PendingAs(k)' \in SUBSET P
    BY <1>2, <1>5, <1>7, FeedbackCounted
  <2>. QED
    BY <2>1, MoreVoters, VotersCounted
<1>10. /\ saved # Absent =>
             saved.feedback[k] + Cardinality(PendingAs(k)) <= 2 * Cardinality(RatedAs(k))
       /\ cache # Absent => cache.feedback[k] <= Cardinality(RatedAs(k))
  BY DEF FeedbackIsBacked
<1>11. PICK one \in {0, 1} :
          /\ Cardinality(RatedAs(k)') = Cardinality(RatedAs(k)) + one
          /\ Cardinality(P) = Cardinality(PendingAs(k)) + one
  BY <1>6, <1>8
<1>12. cache # Absent => cache.feedback[k] <= Cardinality(RatedAs(k)')
  BY <1>6, <1>10, <1>11, StoredIsNat
<1>13. ASSUME saved # Absent
       PROVE  saved.feedback[k] + Cardinality(PendingAs(k)') <= 2 * Cardinality(RatedAs(k)')
  <2>1. saved.feedback[k] + Cardinality(PendingAs(k)) <= 2 * Cardinality(RatedAs(k))
    BY <1>10, <1>13
  <2>2. saved.feedback[k] \in Nat
    BY <1>13, StoredIsNat
  <2>. QED
    BY <1>6, <1>8, <1>9, <1>11, <2>1, <2>2
<1>. QED
  BY <1>12, <1>13

LEMMA FeedbackIsCounted ==
    ASSUME InsightTypeOK, CountingIsOwn, FeedbackIsBacked, [InsightNext]_insightVars,
           NEW f \in Feedbacks, CountFeedback(f)
    PROVE  FeedbackIsBacked'
<1>1. PICK u, x : u = feedbacks[f].voter /\ x = Category(feedbacks[f].rating)
  OBVIOUS
<1>2. /\ u \in Voters /\ x \in Categories
      /\ Submitting(f, "count")
      /\ feedbacks' = [feedbacks EXCEPT ![f] = Absent]
      /\ saved = Absent => saved' = Absent
      /\ saved # Absent => saved' = [saved EXCEPT !.feedback[x] = @ + 1]
      /\ UNCHANGED <<ratings, cache>>
  BY <1>1, Categorised DEF CountFeedback, Submitting, Finish, InsightTypeOK
<1>. SUFFICES ASSUME NEW k \in Categories
              PROVE  /\ saved' # Absent =>
                          saved'.feedback[k] + Cardinality(PendingAs(k)')
                            <= 2 * Cardinality(RatedAs(k)')
                     /\ cache # Absent => cache.feedback[k] <= Cardinality(RatedAs(k)')
  BY <1>2 DEF FeedbackIsBacked
<1>3. RatedAs(k)' = RatedAs(k)
  BY <1>2 DEF RatedAs
<1>4. PICK P : P = IF x = k THEN PendingAs(k) \ {u} ELSE PendingAs(k)
  OBVIOUS
<1>5. x = k => u \in PendingAs(k)
  BY <1>1, <1>2 DEF PendingAs
<1>6. PendingAs(k)' \subseteq P
  BY <1>1, <1>2, <1>4 DEF PendingAs, Submitting, InsightTypeOK, CountingIsOwn
<1>7. /\ Cardinality(P) \in Nat
      /\ Cardinality(PendingAs(k)) = Cardinality(P) + (IF x = k THEN 1 ELSE 0)
  <2>1. CASE x = k
    <3>1. P \in SUBSET Voters /\ u \in Voters \ P /\ PendingAs(k) = P \cup {u}
      BY <1>2, <1>4, <1>5, <2>1, FeedbackCounted
    <3>2. Cardinality(P) \in Nat /\ Cardinality(P \cup {u}) = Cardinality(P) + 1
      BY <3>1, AddVoter
    <3>. QED
      BY <2>1, <3>1, <3>2
  <2>2. CASE x # k
    BY <1>4, <2>2, FeedbackCounted
  <2>. QED
    BY <2>1, <2>2
<1>8. Cardinality(PendingAs(k)') <= Cardinality(P) /\ Cardinality(PendingAs(k)') \in Nat
  <2>1. P \in SUBSET Voters /\ PendingAs(k)' \in SUBSET P
    BY <1>4, <1>6, FeedbackCounted
  <2>. QED
    BY <2>1, MoreVoters, VotersCounted
<1>9. saved # Absent => saved'.feedback[k] = saved.feedback[k] + (IF x = k THEN 1 ELSE 0)
  BY <1>2 DEF InsightTypeOK, Counts
<1>10. /\ saved # Absent =>
             saved.feedback[k] + Cardinality(PendingAs(k)) <= 2 * Cardinality(RatedAs(k))
       /\ cache # Absent => cache.feedback[k] <= Cardinality(RatedAs(k))
  BY DEF FeedbackIsBacked
<1>11. Cardinality(RatedAs(k)) \in Nat
  BY FeedbackCounted
<1>12. PICK one \in {0, 1} :
          /\ Cardinality(PendingAs(k)) = Cardinality(P) + one
          /\ saved # Absent => saved'.feedback[k] = saved.feedback[k] + one
  BY <1>7, <1>9
<1>13. ASSUME saved # Absent
       PROVE  saved'.feedback[k] + Cardinality(PendingAs(k)') <= 2 * Cardinality(RatedAs(k))
  BY <1>7, <1>8, <1>10, <1>11, <1>12, <1>13, StoredIsNat
<1>. QED
  BY <1>2, <1>3, <1>10, <1>13

LEMMA FeedbackIsSaved ==
    ASSUME InsightTypeOK, CountingIsOwn, CalculationsAreBacked, FeedbackIsBacked,
           NEW r \in Readings, SaveAnalytics(r)
    PROVE  FeedbackIsBacked'
<1>. SUFFICES ASSUME NEW k \in Categories
              PROVE  saved' # Absent =>
                       saved'.feedback[k] + Cardinality(PendingAs(k))
                         <= 2 * Cardinality(RatedAs(k))
  BY DEF FeedbackIsBacked, SaveAnalytics, PendingAs, RatedAs, Submitting
<1>1. /\ readings[r] # Absent /\ readings[r].left = {}
      /\ readings[r].data \in Counts(Groups)
  BY DEF SaveAnalytics, Calculating, InsightTypeOK
<1>2. readings[r].data.feedback[k] <= Cardinality(RatedAs(k))
  <2>1. RatedAs(k) \ {} = RatedAs(k)
    OBVIOUS
  <2>. QED
    BY <1>1, <2>1 DEF CalculationsAreBacked
<1>3. readings[r].data.feedback[k] \in Nat
  BY <1>1 DEF Counts
<1>4. CASE saved' = saved
  BY <1>4 DEF FeedbackIsBacked
<1>5. CASE saved' = Stored(readings[r].data)
  <2>1. saved'.feedback[k] = readings[r].data.feedback[k]
    BY <1>1, <1>5, StoredCounts
  <2>. QED
    BY <1>2, <1>3, <2>1, FeedbackCounted
<1>. QED
  BY <1>4, <1>5 DEF SaveAnalytics

LEMMA FeedbackIsCached ==
    ASSUME InsightTypeOK, CalculationsAreBacked, FeedbackIsBacked,
           NEW r \in Readings, AnswerAnalytics(r)
    PROVE  FeedbackIsBacked'
<1>. SUFFICES ASSUME NEW k \in Categories
              PROVE  cache'.feedback[k] <= Cardinality(RatedAs(k))
  BY DEF FeedbackIsBacked, AnswerAnalytics, PendingAs, RatedAs, Submitting
<1>1. /\ readings[r] # Absent /\ readings[r].left = {} /\ cache' = readings[r].data
  BY DEF AnswerAnalytics, Calculating, InsightTypeOK
<1>2. RatedAs(k) \ {} = RatedAs(k)
  OBVIOUS
<1>. QED
  BY <1>1, <1>2 DEF CalculationsAreBacked

LEMMA FeedbackStays ==
    ASSUME InsightTypeOK, CountingIsOwn, CalculationsAreBacked, FeedbackIsBacked,
           [InsightNext]_insightVars
    PROVE  FeedbackIsBacked'
<1>. DEFINE Waits == /\ UNCHANGED saved /\ cache' \in {cache, Absent}
                     /\ \A f \in Feedbacks : Submitting(f, "count")' =>
                           Submitting(f, "count") /\ feedbacks'[f] = feedbacks[f]
<1>1. ASSUME NEW f \in Feedbacks, NEW u \in Voters, SubmitVoterFeedback(f, u)
      PROVE  Waits
  BY <1>1 DEF SubmitVoterFeedback, Submitting, InsightTypeOK
<1>2. ASSUME NEW f \in Feedbacks, FindFeedback(f)
      PROVE  Waits
  BY <1>2 DEF FindFeedback, Submitting, Finish, Proceed, InsightTypeOK
<1>3. ASSUME NEW f \in Feedbacks, CreateFeedback(f), ratings[feedbacks[f].voter] # Absent
      PROVE  Waits
  BY <1>3 DEF CreateFeedback, Submitting, Finish, InsightTypeOK
<1>4. ASSUME NEW f \in Feedbacks, FeedbackFails(f)
      PROVE  Waits
  BY <1>4 DEF FeedbackFails, Submitting, Finish, InsightTypeOK
<1>5. InsightRestart => Waits
  BY DEF InsightRestart, Submitting
<1>6. UNCHANGED feedbacks => \A f \in Feedbacks : Submitting(f, "count")' =>
                                Submitting(f, "count") /\ feedbacks'[f] = feedbacks[f]
  BY DEF Submitting
<1>7. UNCHANGED feedbacks /\ UNCHANGED saved /\ cache' \in {cache, Absent} => Waits
  BY <1>6
<1>. HIDE DEF Waits
<1>8. \/ Waits
      \/ \E f \in Feedbacks : \/ CountFeedback(f)
                              \/ CreateFeedback(f) /\ ratings[feedbacks[f].voter] = Absent
      \/ \E r \in Readings : SaveAnalytics(r) \/ AnswerAnalytics(r)
  BY <1>1, <1>2, <1>3, <1>4, <1>5, <1>7
  DEF InsightNext, InsightService, insightVars, VoteMirrored, FeedbackStep, AnalyticsStep,
      GetElectionAnalytics, CountVote, AnalyticsFail, CacheExpires
<1>9. CASE Waits
  BY <1>9, FeedbackWaits DEF Waits
<1>. QED
  BY <1>8, <1>9, FeedbackCreated, FeedbackIsCounted, FeedbackIsSaved, FeedbackIsCached

-----------------------------------------------------------------------------
(* What is answered, saved and cached *)

LEMMA AnswersDescribe ==
    InsightTypeOK /\ CalculationsAreBacked =>
        \A r \in Readings : readings[r] # Absent /\ readings[r].step # "count" =>
            \E S \in SUBSET mirrored : Describes(readings[r].data, S)
<1>. SUFFICES ASSUME InsightTypeOK, CalculationsAreBacked, NEW r \in Readings,
                     readings[r] # Absent, readings[r].step # "count"
              PROVE  \E S \in SUBSET mirrored : Describes(readings[r].data, S)
  OBVIOUS
<1>1. readings[r].left = {}
  BY DEF InsightTypeOK
<1>2. PICK S \in SUBSET mirrored :
        readings[r].data.total = Cardinality(S) /\ CountsOf(readings[r].data, S \ {})
  BY <1>1 DEF CalculationsAreBacked
<1>3. S \ {} = S
  OBVIOUS
<1>. QED
  BY <1>2, <1>3 DEF Describes

LEMMA PastStays ==
    ASSUME InsightTypeOK, CalculationsAreBacked, AnalyticsDescribeThePast,
           [InsightNext]_insightVars, InsightTypeOK', CalculationsAreBacked'
    PROVE  AnalyticsDescribeThePast'
<1>1. (\A r \in Readings : readings[r] # Absent /\ readings[r].step # "count" =>
          \E S \in SUBSET mirrored : Describes(readings[r].data, S))'
  BY AnswersDescribe, PTL
<1>2. \A r \in Readings : Calculating(r, "answer")' =>
         \E S \in SUBSET mirrored' : Describes(readings'[r].data, S)
  BY <1>1 DEF Calculating, Describes, CountsOf
<1>3. \A data, S : Describes(data, S)' <=> Describes(data, S)
  BY DEF Describes, CountsOf, GroupOf
<1>4. mirrored \subseteq mirrored'
  BY VotesStay
<1>5. saved' # Absent => \E S \in SUBSET mirrored' : Describes(saved', S)
  <2>1. ASSUME NEW r \in Readings, SaveAnalytics(r), saved' # saved
        PROVE  \E S \in SUBSET mirrored' : Describes(saved', S)
    <3>1. /\ saved' = Stored(readings[r].data) /\ readings[r] # Absent
          /\ readings[r].step = "save" /\ readings[r].data \in Counts(Groups)
      BY <2>1 DEF SaveAnalytics, Calculating, InsightTypeOK
    <3>2. PICK S \in SUBSET mirrored : Describes(readings[r].data, S)
      BY <3>1, AnswersDescribe
    <3>3. Describes(saved', S)
      BY <3>1, <3>2, StoredCounts DEF Describes
    <3>. QED
      BY <1>4, <3>3
  <2>2. ASSUME NEW f \in Feedbacks, CountFeedback(f), saved # Absent
        PROVE  \E S \in SUBSET mirrored' : Describes(saved', S)
    <3>1. PICK S \in SUBSET mirrored : Describes(saved, S)
      BY <2>2 DEF AnalyticsDescribeThePast
    <3>2. PICK x : saved' = [saved EXCEPT !.feedback[x] = @ + 1]
      BY <2>2 DEF CountFeedback
    <3>3. /\ saved'.total = saved.total /\ saved'.candidates = saved.candidates
          /\ saved'.ages = saved.ages /\ saved'.places = saved.places
      BY <2>2, <3>2 DEF InsightTypeOK, Counts
    <3>4. Describes(saved', S)
      BY <3>1, <3>3 DEF Describes, CountsOf
    <3>. QED
      BY <1>4, <3>4
  <2>3. CASE UNCHANGED saved
    BY <1>4, <2>3 DEF AnalyticsDescribeThePast
  <2>4. ASSUME NEW f \in Feedbacks, CountFeedback(f), saved = Absent
        PROVE  saved' = Absent
    BY <2>4 DEF CountFeedback
  <2>. QED
    BY <2>1, <2>2, <2>3, <2>4
    DEF InsightNext, InsightService, insightVars, VoteMirrored, FeedbackStep, AnalyticsStep,
        SubmitVoterFeedback, FindFeedback, CreateFeedback, FeedbackFails,
        GetElectionAnalytics, CountVote, AnswerAnalytics, AnalyticsFail, CacheExpires,
        InsightRestart
<1>6. cache' # Absent => \E S \in SUBSET mirrored' : Describes(cache', S)
  <2>1. ASSUME NEW r \in Readings, AnswerAnalytics(r)
        PROVE  \E S \in SUBSET mirrored' : Describes(cache', S)
    <3>1. cache' = readings[r].data /\ readings[r] # Absent /\ readings[r].step = "answer"
      BY <2>1 DEF AnswerAnalytics, Calculating
    <3>. QED
      BY <1>4, <3>1, AnswersDescribe
  <2>2. CASE UNCHANGED cache
    BY <1>4, <2>2 DEF AnalyticsDescribeThePast
  <2>3. CASE cache' = Absent
    BY <2>3
  <2>. QED
    BY <2>1, <2>2, <2>3
    DEF InsightNext, InsightService, insightVars, VoteMirrored, FeedbackStep, AnalyticsStep,
        SubmitVoterFeedback, FindFeedback, CreateFeedback, CountFeedback, FeedbackFails,
        GetElectionAnalytics, CountVote, SaveAnalytics, AnalyticsFail, CacheExpires,
        InsightRestart
<1>. QED
  BY <1>2, <1>3, <1>5, <1>6 DEF AnalyticsDescribeThePast

-----------------------------------------------------------------------------
LEMMA InsightStarts == InsightInit => InsightIInv
<1>. SUFFICES ASSUME InsightInit
              PROVE  InsightIInv
  OBVIOUS
<1>1. InsightTypeOK
  BY DEF InsightInit, InsightTypeOK
<1>. QED
  BY <1>1 DEF InsightInit, InsightIInv, CountingIsOwn, CalculationsAreBacked, FeedbackIsBacked,
              AnalyticsDescribeThePast, Submitting, Calculating

LEMMA InsightStays == InsightIInv /\ [InsightNext]_insightVars => InsightIInv'
<1>. SUFFICES ASSUME InsightIInv, [InsightNext]_insightVars
              PROVE  InsightIInv'
  OBVIOUS
<1>. USE DEF InsightIInv
<1>1. InsightTypeOK'
  BY TypesStay
<1>2. CountingIsOwn'
  BY CountingStays
<1>3. CalculationsAreBacked'
  BY CalculationsStay
<1>4. FeedbackIsBacked'
  BY FeedbackStays
<1>5. AnalyticsDescribeThePast'
  BY <1>1, <1>3, PastStays
<1>. QED
  BY <1>1, <1>2, <1>3, <1>4, <1>5

LEMMA CountedAtMostTwice == InsightIInv => FeedbackIsCountedAtMostTwice
<1>. SUFFICES ASSUME InsightIInv, NEW k \in Categories
              PROVE  /\ saved # Absent => saved.feedback[k] <= 2 * Cardinality(RatedAs(k))
                     /\ cache # Absent => cache.feedback[k] <= Cardinality(RatedAs(k))
  BY DEF FeedbackIsCountedAtMostTwice
<1>1. /\ Cardinality(PendingAs(k)) \in Nat /\ Cardinality(RatedAs(k)) \in Nat
      /\ saved # Absent => saved.feedback[k] \in Nat
  BY FeedbackCounted, StoredIsNat DEF InsightIInv
<1>. QED
  BY <1>1 DEF InsightIInv, FeedbackIsBacked

\* Feedback and analytics never leave the inductive invariant, for any voters, choices
\* and number of overlapping calls.
THEOREM InsightInvariance == InsightSpec => []InsightIInv
BY InsightStarts, InsightStays, PTL DEF InsightSpec

\* Though votes and feedback arrive and other calculations run between the awaits of a
\* calculation: what is answered, saved or cached are the counts of one past set of
\* mirrored votes (analytics.controller.ts:83-176).
THEOREM AnalyticsAreOfThePast == InsightSpec => []AnalyticsDescribeThePast
<1>1. InsightIInv => AnalyticsDescribeThePast
  BY DEF InsightIInv
<1>. QED
  BY <1>1, InsightInvariance, PTL

\* However calculations and $inc overlap, the document never holds a feedback more than
\* twice, and an answer from the cache never more than once (vote.controller.ts:162-197).
THEOREM FeedbackAtMostTwice == InsightSpec => []FeedbackIsCountedAtMostTwice
BY CountedAtMostTwice, InsightInvariance, PTL

-----------------------------------------------------------------------------
(* The server process *)

LEMMA ServicesSteps ==
    [ServicesNext]_servicesVars =>
        [SigningNext]_signingVars /\ [SecretsNext]_secretVars /\ [InsightNext]_insightVars
BY DEF ServicesNext, servicesVars, ServerRestart, SigningNext, SecretsNext, InsightNext

\* Each service behaves as it would alone, though they stop together: what is proved
\* of its own specification holds of the server.
THEOREM ServicesKeepTheirSpecs == ServicesSpec => SigningSpec /\ SecretsSpec /\ InsightSpec
BY ServicesSteps, PTL DEF ServicesSpec, ServicesInit, SigningSpec, SecretsSpec, InsightSpec

\* The server never leaves the inductive invariants of its services.
THEOREM ServicesInvariance == ServicesSpec => []ServicesIInv
<1>1. ServicesSpec => []SigningInv
  BY ServicesKeepTheirSpecs, SigningInvInit, SigningInvStep, PTL DEF SigningSpec
<1>2. ServicesSpec => []SecretsInv
  <2>1. SecretsInv /\ [SecretsNext]_secretVars => SecretsInv'
    BY SecretsStep
  <2>. QED
    BY <2>1, ServicesKeepTheirSpecs, SecretsInvInit, PTL DEF SecretsSpec
<1>3. ServicesSpec => []InsightIInv
  BY ServicesKeepTheirSpecs, InsightInvariance, PTL
<1>. QED
  BY <1>1, <1>2, <1>3, PTL DEF ServicesIInv
=============================================================================
