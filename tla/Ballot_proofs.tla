---------------------------- MODULE Ballot_proofs ----------------------------
(***************************************************************************)
(* VotingContract implements Ballot, for every number of users, elections, *)
(* votes and transactions in flight.                                       *)
(***************************************************************************)
EXTENDS VotingContract_proofs

(* Choices *)

\* The choice of a user is the candidate of any vote of theirs.
LEMMA ChoiceIsVote ==
    ASSUME OneVotePerElection, NEW u, NEW e, NEW v \in VotesOf(u, e)
    PROVE  VotesOf(u, e) = {v} /\ ChoiceOf(u, e) = worldState[VoteKey(v)].candidate
<1>1. VotesOf(u, e) = {v}
  BY DEF VotesOf, OneVotePerElection
<1>2. (CHOOSE w \in VotesOf(u, e) : TRUE) = v
  BY <1>1
<1>. QED
  BY <1>1, <1>2 DEF ChoiceOf

\* Where the votes of a user stay, the choice stays.
LEMMA ChoiceStays ==
    ASSUME NEW u, NEW e, VotesOf(u, e)' = VotesOf(u, e),
           \A v \in VotesOf(u, e) : worldState'[VoteKey(v)] = worldState[VoteKey(v)]
    PROVE  ChoiceOf(u, e)' = ChoiceOf(u, e)
<1>. DEFINE V == VotesOf(u, e)
            v == CHOOSE w \in V : TRUE
<1>1. ChoiceOf(u, e) = IF V = {} THEN Nil ELSE worldState[VoteKey(v)].candidate
  BY DEF ChoiceOf
<1>2. ChoiceOf(u, e)' = IF V = {} THEN Nil ELSE worldState'[VoteKey(v)].candidate
  BY DEF ChoiceOf
<1>3. V # {} => worldState'[VoteKey(v)] = worldState[VoteKey(v)]
  OBVIOUS
<1>. QED
  BY <1>1, <1>2, <1>3

\* The users who chose a candidate are the voters of the votes for that candidate.
LEMMA SupportersVote ==
    ASSUME TypeOK, OneVotePerElection, NEW e \in Elections, NEW c \in Candidates
    PROVE  {u \in Users : ChoiceOf(u, e) = c} =
               {u \in Users : \E v \in VotesFor(worldState, e, c) :
                                  worldState[VoteKey(v)].voter = u}
<1>1. ASSUME NEW u \in Users, ChoiceOf(u, e) = c
      PROVE  \E v \in VotesFor(worldState, e, c) : worldState[VoteKey(v)].voter = u
  <2>1. PICK v : v \in VotesOf(u, e)
    BY <1>1, NilIsNoCandidate DEF ChoiceOf
  <2>2. worldState[VoteKey(v)].candidate = c
    BY <1>1, <2>1, ChoiceIsVote
  <2>3. v \in VotesFor(worldState, e, c) /\ worldState[VoteKey(v)].voter = u
    BY <2>1, <2>2 DEF VotesOf, VotesFor, Cast
  <2>. QED
    BY <2>3
<1>2. ASSUME NEW u \in Users, NEW v \in VotesFor(worldState, e, c),
             worldState[VoteKey(v)].voter = u
      PROVE  ChoiceOf(u, e) = c
  <2>1. v \in VotesOf(u, e) /\ worldState[VoteKey(v)].candidate = c
    BY <1>2 DEF VotesOf, VotesFor, Cast
  <2>. QED
    BY <2>1, ChoiceIsVote
<1>. QED
  BY <1>1, <1>2

-----------------------------------------------------------------------------
(* What a commit leaves alone *)

Choices == [u \in Users |-> [e \in Elections |-> ChoiceOf(u, e)]]
Results == [e \in Elections |-> DeclaredResult(e)]

LEMMA ChoicesStay ==
    ASSUME \A v \in VoteIds : worldState'[VoteKey(v)] = worldState[VoteKey(v)]
    PROVE  Choices' = Choices
<1>1. ASSUME NEW u \in Users, NEW e \in Elections PROVE ChoiceOf(u, e)' = ChoiceOf(u, e)
  <2>1. VotesOf(u, e)' = VotesOf(u, e)
    BY DEF VotesOf, Cast
  <2>2. \A v \in VotesOf(u, e) : worldState'[VoteKey(v)] = worldState[VoteKey(v)]
    BY DEF VotesOf
  <2>. QED
    BY <2>1, <2>2, ChoiceStays
<1>. QED
  BY <1>1 DEF Choices

LEMMA ResultsStay ==
    ASSUME \A e \in Elections : worldState'[FinalTallyKey(e)] = worldState[FinalTallyKey(e)]
    PROVE  Results' = Results
BY DEF Results, DeclaredResult

LEMMA ElectorsStay ==
    ASSUME \A u \in Users : worldState'[UserKey(u)] = worldState[UserKey(u)]
    PROVE  ActiveUsers' = ActiveUsers
BY DEF ActiveUsers

LEMMA OpenStays ==
    ASSUME \A e \in Elections : worldState'[ElectionKey(e)] = worldState[ElectionKey(e)]
    PROVE  LiveElections' = LiveElections
BY DEF LiveElections

-----------------------------------------------------------------------------
(* What a commit does *)

LEMMA ElectionCommitBallot ==
    ASSUME IInv, NEW t \in Txs, Commit(t), NEW e \in Elections, ElectionProposal(inflight[t], e)
    PROVE  /\ UNCHANGED <<Choices, Results, ActiveUsers>>
           /\ LiveElections' = LiveElections \cup {e} \/ LiveElections' = LiveElections \ {e}
<1>1. \A k \in Keys \ {ElectionKey(e)} : worldState'[k] = worldState[k]
  BY CommitFacts DEF IInv, ElectionProposal
<1>2. /\ \A v \in VoteIds : worldState'[VoteKey(v)] = worldState[VoteKey(v)]
      /\ \A f \in Elections : worldState'[FinalTallyKey(f)] = worldState[FinalTallyKey(f)]
      /\ \A u \in Users : worldState'[UserKey(u)] = worldState[UserKey(u)]
  BY <1>1, KeysTyped, KeysDiffer
<1>3. \A f \in Elections \ {e} : worldState'[ElectionKey(f)] = worldState[ElectionKey(f)]
  <2>1. ASSUME NEW f \in Elections \ {e} PROVE ElectionKey(f) \in Keys \ {ElectionKey(e)}
    BY KeysTyped DEF ElectionKey
  <2>. QED
    BY <1>1, <2>1
<1>4. \A f \in Elections \ {e} : f \in LiveElections' <=> f \in LiveElections
  BY <1>3 DEF LiveElections
<1>5. LiveElections \subseteq Elections /\ LiveElections' \subseteq Elections
  BY DEF LiveElections
<1>. QED
  BY <1>2, <1>4, <1>5, ChoicesStay, ResultsStay, ElectorsStay

LEMMA UserCommitBallot ==
    ASSUME IInv, NEW t \in Txs, Commit(t), NEW u \in Users, UserProposal(inflight[t], u)
    PROVE  /\ UNCHANGED <<Choices, Results, LiveElections>>
           /\ ActiveUsers' = ActiveUsers \cup {u} \/ ActiveUsers' = ActiveUsers \ {u}
<1>1. \A k \in Keys \ {UserKey(u), RevocationKey(u)} : worldState'[k] = worldState[k]
  BY CommitFacts DEF IInv, UserProposal
<1>2. /\ \A v \in VoteIds : worldState'[VoteKey(v)] = worldState[VoteKey(v)]
      /\ \A e \in Elections : /\ worldState'[FinalTallyKey(e)] = worldState[FinalTallyKey(e)]
                              /\ worldState'[ElectionKey(e)] = worldState[ElectionKey(e)]
  BY <1>1, KeysTyped, KeysDiffer
<1>3. \A w \in Users \ {u} : worldState'[UserKey(w)] = worldState[UserKey(w)]
  <2>1. ASSUME NEW w \in Users \ {u}
        PROVE  UserKey(w) \in Keys \ {UserKey(u), RevocationKey(u)}
    BY KeysTyped, KeysDiffer DEF UserKey
  <2>. QED
    BY <1>1, <2>1
<1>4. \A w \in Users \ {u} : w \in ActiveUsers' <=> w \in ActiveUsers
  BY <1>3 DEF ActiveUsers
<1>5. ActiveUsers \subseteq Users /\ ActiveUsers' \subseteq Users
  BY DEF ActiveUsers
<1>. QED
  BY <1>2, <1>4, <1>5, ChoicesStay, ResultsStay, OpenStays

LEMMA VoteCommitBallot ==
    ASSUME IInv, NEW t \in Txs, Commit(t),
           NEW u \in Users, NEW v \in VoteIds, NEW e \in Elections, NEW c \in Candidates,
           VoteProposal(inflight[t], u, v, e, c)
    PROVE  /\ UNCHANGED <<Results, LiveElections, ActiveUsers>>
           /\ e \in LiveElections /\ u \in ActiveUsers
           /\ ChoiceOf(u, e) = Nil
           /\ Choices' = [Choices EXCEPT ![u][e] = c]
<1>1. /\ CanVote(worldState[ElectionKey(e)], worldState[UserKey(u)], e, c)
      /\ ~Cast(v)
      /\ worldState'[VoteKey(v)] = [voter |-> u, election |-> e, candidate |-> c]
      /\ worldState'[VoteKey(v)] # Nil /\ worldState'[UserKey(u)] # Nil
      /\ worldState'[UserKey(u)] = [worldState[UserKey(u)] EXCEPT !.voted = @ \cup {e}]
      /\ \A k \in Keys \ {VoteKey(v), UserKey(u)} : worldState'[k] = worldState[k]
  BY VoteCommitFacts
<1>2. \A f \in Elections : /\ worldState'[FinalTallyKey(f)] = worldState[FinalTallyKey(f)]
                           /\ worldState'[ElectionKey(f)] = worldState[ElectionKey(f)]
  BY <1>1, KeysTyped, KeysDiffer
<1>3. \A w \in Users \ {u} : worldState'[UserKey(w)] = worldState[UserKey(w)]
  <2>1. ASSUME NEW w \in Users \ {u} PROVE UserKey(w) \in Keys \ {VoteKey(v), UserKey(u)}
    BY KeysTyped, KeysDiffer DEF UserKey
  <2>. QED
    BY <1>1, <2>1
<1>4. \A w \in VoteIds \ {v} : worldState'[VoteKey(w)] = worldState[VoteKey(w)]
  <2>1. ASSUME NEW w \in VoteIds \ {v} PROVE VoteKey(w) \in Keys \ {VoteKey(v), UserKey(u)}
    BY KeysTyped, KeysDiffer DEF VoteKey
  <2>. QED
    BY <1>1, <2>1
<1>5. worldState[UserKey(u)] \in User /\ worldState[UserKey(u)].status = "active"
  BY <1>1, KeysTyped DEF IInv, TypeOK, WellTyped, CanVote
<1>6. worldState'[UserKey(u)].status = "active"
  BY <1>1, <1>5 DEF User
<1>7. e \in LiveElections /\ u \in ActiveUsers /\ ActiveUsers' = ActiveUsers
  <2>1. e \in LiveElections
    BY <1>1 DEF LiveElections, CanVote
  <2>2. u \in ActiveUsers
    BY <1>1, <1>5 DEF ActiveUsers, CanVote
  <2>3. u \in ActiveUsers'
    BY <1>1, <1>6 DEF ActiveUsers
  <2>4. \A w \in Users \ {u} : w \in ActiveUsers' <=> w \in ActiveUsers
    BY <1>3 DEF ActiveUsers
  <2>5. ActiveUsers \subseteq Users /\ ActiveUsers' \subseteq Users
    BY DEF ActiveUsers
  <2>. QED
    BY <2>1, <2>2, <2>3, <2>4, <2>5
<1>8. VotesOf(u, e) = {}
  <2>1. ~HasVoted(u, e)
    BY <1>1 DEF HasVoted, CanVote
  <2>. QED
    BY <2>1 DEF VotesOf, IInv, VotedMarksMatchVotes
<1>9. VotesOf(u, e)' = {v}
  BY <1>1, <1>4, <1>8 DEF VotesOf, Cast
<1>10. ChoiceOf(u, e) = Nil /\ ChoiceOf(u, e)' = c
  <2>1. (CHOOSE w \in {v} : TRUE) = v
    OBVIOUS
  <2>2. ChoiceOf(u, e)' = worldState'[VoteKey(CHOOSE w \in {v} : TRUE)].candidate
    BY <1>9 DEF ChoiceOf
  <2>. QED
    BY <1>1, <1>8, <2>1, <2>2 DEF ChoiceOf
<1>11. ASSUME NEW w \in Users, NEW f \in Elections, w # u \/ f # e
       PROVE  ChoiceOf(w, f)' = ChoiceOf(w, f)
  <2>1. VotesOf(w, f)' = VotesOf(w, f) /\ v \notin VotesOf(w, f)
    BY <1>1, <1>4, <1>11 DEF VotesOf, Cast
  <2>2. \A x \in VotesOf(w, f) : worldState'[VoteKey(x)] = worldState[VoteKey(x)]
    BY <1>4, <2>1 DEF VotesOf
  <2>. QED
    BY <2>1, <2>2, ChoiceStays
<1>12. Choices' = [Choices EXCEPT ![u][e] = c]
  BY <1>10, <1>11 DEF Choices
<1>. QED
  BY <1>2, <1>7, <1>10, <1>12, ResultsStay, OpenStays

\* A final tally is the number of users who chose each candidate, as it commits.
LEMMA TallyCommitBallot ==
    ASSUME IInv, NEW t \in Txs, Commit(t), NEW e \in Elections, TallyProposal(inflight[t], e)
    PROVE  /\ UNCHANGED <<Choices, LiveElections, ActiveUsers>>
           /\ \/ Results' = Results
              \/ \E standing \in SUBSET Candidates :
                    /\ \A c \in Candidates \ standing : {u \in Users : ChoiceOf(u, e) = c} = {}
                    /\ Results' = [Results EXCEPT ![e] =
                          [c \in standing |-> Cardinality({u \in Users : ChoiceOf(u, e) = c})]]
<1>. DEFINE tx == inflight[t]
            standing == worldState[ElectionKey(e)].candidates
<1>1. /\ DOMAIN tx.reads = {ElectionKey(e)} \cup VoteKeys
      /\ tx.reads[ElectionKey(e)] # Nil
      /\ AllVotesOnBallot(tx.reads, e)
      /\ DOMAIN tx.writes \subseteq {TallyKey(e), FinalTallyKey(e)}
      /\ tx.result.tallies = CountVotes(tx.reads, e)
      /\ FinalTallyKey(e) \in DOMAIN tx.writes => tx.writes[FinalTallyKey(e)] = tx.result
  BY DEF TallyProposal
<1>2. /\ \A k \in DOMAIN tx.reads : tx.reads[k] = worldState[k]
      /\ \A k \in Keys \ DOMAIN tx.writes : worldState'[k] = worldState[k]
      /\ \A k \in Keys \cap DOMAIN tx.writes : worldState'[k] = tx.writes[k]
      /\ \A k \in DOMAIN tx.writes : tx.writes[k] # Nil
  BY CommitFacts DEF IInv, ReadsAreCurrent, WellFormed
<1>. HIDE DEF tx
<1>3. \A c : VotesFor(tx.reads, e, c) = VotesFor(worldState, e, c)
  BY <1>1, <1>2, KeysTyped DEF VotesFor
<1>4. /\ tx.reads[ElectionKey(e)] = worldState[ElectionKey(e)]
      /\ standing \in SUBSET Candidates
  <2>1. tx.reads[ElectionKey(e)] = worldState[ElectionKey(e)]
    BY <1>1, <1>2
  <2>2. worldState[ElectionKey(e)] \in Election
    BY <1>1, <2>1, KeysTyped DEF IInv, TypeOK, WellTyped
  <2>. QED
    BY <2>1, <2>2 DEF Election
<1>5. /\ \A v \in VoteIds : worldState'[VoteKey(v)] = worldState[VoteKey(v)]
      /\ \A u \in Users : worldState'[UserKey(u)] = worldState[UserKey(u)]
      /\ \A f \in Elections : worldState'[ElectionKey(f)] = worldState[ElectionKey(f)]
  <2>1. DOMAIN tx.writes \subseteq {TallyKey(e), FinalTallyKey(e)}
    BY <1>1
  <2>2. ASSUME NEW k \in Keys \ {TallyKey(e), FinalTallyKey(e)}
        PROVE  worldState'[k] = worldState[k]
    BY <1>2, <2>1
  <2>. QED
    BY <2>2, KeysTyped, KeysDiffer
<1>6. \A f \in Elections \ {e} : worldState'[FinalTallyKey(f)] = worldState[FinalTallyKey(f)]
  <2>1. ASSUME NEW f \in Elections \ {e}
        PROVE  FinalTallyKey(f) \in Keys /\ FinalTallyKey(f) \notin {TallyKey(e), FinalTallyKey(e)}
    BY KeysTyped DEF FinalTallyKey, TallyKey
  <2>. QED
    BY <1>1, <1>2, <2>1
<1>7. ASSUME NEW c \in Candidates
      PROVE  Cardinality(VotesFor(worldState, e, c)) =
                 Cardinality({u \in Users : ChoiceOf(u, e) = c})
  BY SupportersVote, VotesAndVoters DEF IInv
<1>8. CASE FinalTallyKey(e) \notin DOMAIN tx.writes
  <2>1. worldState'[FinalTallyKey(e)] = worldState[FinalTallyKey(e)]
    BY <1>2, <1>8, KeysTyped
  <2>. QED
    BY <1>5, <1>6, <2>1, ChoicesStay, ResultsStay, ElectorsStay, OpenStays
<1>9. CASE FinalTallyKey(e) \in DOMAIN tx.writes
  <2>1. worldState'[FinalTallyKey(e)] = tx.result /\ tx.result # Nil
    BY <1>1, <1>2, <1>9, KeysTyped
  <2>2. DeclaredResult(e)' = CountVotes(tx.reads, e)
    BY <1>1, <2>1 DEF DeclaredResult
  <2>3. CountVotes(tx.reads, e) = [c \in standing |-> Cardinality(VotesFor(worldState, e, c))]
    BY <1>3, <1>4 DEF CountVotes
  <2>4. CountVotes(tx.reads, e) =
            [c \in standing |-> Cardinality({u \in Users : ChoiceOf(u, e) = c})]
    BY <1>4, <1>7, <2>3
  <2>5. \A f \in Elections \ {e} : DeclaredResult(f)' = DeclaredResult(f)
    BY <1>6 DEF DeclaredResult
  <2>6. Results' = [Results EXCEPT ![e] =
                       [c \in standing |-> Cardinality({u \in Users : ChoiceOf(u, e) = c})]]
    BY <2>2, <2>4, <2>5 DEF Results
  <2>7. ASSUME NEW c \in Candidates \ standing
        PROVE  {u \in Users : ChoiceOf(u, e) = c} = {}
    <3>1. VotesFor(worldState, e, c) = {}
      BY <1>1, <1>3, <1>4 DEF AllVotesOnBallot
    <3>. QED
      BY <3>1, SupportersVote DEF IInv
  <2>. QED
    BY <1>4, <1>5, <2>6, <2>7, ChoicesStay, ElectorsStay, OpenStays
<1>. QED
  BY <1>8, <1>9

-----------------------------------------------------------------------------
(* The refinement *)

LEMMA BallotInit == Init => Abstract!Init
<1>. SUFFICES ASSUME Init PROVE Abstract!Init
  OBVIOUS
<1>1. \A k \in Keys : worldState[k] = Nil
  BY DEF Init
<1>2. /\ \A u \in Users, e \in Elections : ChoiceOf(u, e) = Nil
      /\ LiveElections = {} /\ ActiveUsers = {}
      /\ \A e \in Elections : DeclaredResult(e) = Nil
  BY <1>1, KeysTyped DEF ChoiceOf, VotesOf, Cast, LiveElections, ActiveUsers, DeclaredResult
<1>. QED
  BY <1>2 DEF Abstract!Init

LEMMA BallotStep == IInv /\ [Next]_ledgerVars => [Abstract!Next]_(Abstract!vars)
<1>. SUFFICES ASSUME IInv, [Next]_ledgerVars
              PROVE  [Abstract!Next]_(Abstract!vars)
  OBVIOUS
<1>1. CASE worldState' = worldState
  <2>1. UNCHANGED <<Choices, LiveElections, ActiveUsers, Results>>
    BY <1>1, ChoicesStay, ResultsStay, ElectorsStay, OpenStays
  <2>. QED
    BY <2>1 DEF Abstract!vars, Choices, Results
<1>2. CASE worldState' # worldState
  <2>1. PICK t \in Txs : Commit(t)
    BY <1>2, WorldStateChanges
  <2>2. Proposal(inflight[t])
    BY <2>1 DEF IInv, AllAreProposals, Commit
  <2>3. ASSUME NEW e \in Elections, ElectionProposal(inflight[t], e)
        PROVE  Abstract!Open(e) \/ Abstract!Close(e)
    BY <2>1, <2>3, ElectionCommitBallot DEF Abstract!Open, Abstract!Close, Choices, Results
  <2>4. ASSUME NEW u \in Users, UserProposal(inflight[t], u)
        PROVE  Abstract!Admit(u) \/ Abstract!Bar(u)
    BY <2>1, <2>4, UserCommitBallot DEF Abstract!Admit, Abstract!Bar, Choices, Results
  <2>5. ASSUME NEW u \in Users, NEW v \in VoteIds, NEW e \in Elections, NEW c \in Candidates,
               VoteProposal(inflight[t], u, v, e, c)
        PROVE  Abstract!Choose(u, e, c)
    BY <2>1, <2>5, VoteCommitBallot DEF Abstract!Choose, Choices, Results
  <2>6. ASSUME NEW e \in Elections, TallyProposal(inflight[t], e)
        PROVE  \/ \E standing \in SUBSET Candidates : Abstract!Declare(e, standing)
               \/ UNCHANGED Abstract!vars
    <3>1. \A c : Abstract!Supporters(e, c) = {u \in Users : ChoiceOf(u, e) = c}
      BY DEF Abstract!Supporters
    <3>2. ASSUME NEW S PROVE Abstract!Cardinality(S) = Cardinality(S)
      BY DEF Abstract!Cardinality, Cardinality
    <3>3. UNCHANGED <<Choices, LiveElections, ActiveUsers>>
      BY <2>1, <2>6, TallyCommitBallot
    <3>4. CASE Results' = Results
      BY <3>3, <3>4 DEF Abstract!vars, Choices, Results
    <3>5. ASSUME NEW standing \in SUBSET Candidates,
                 \A c \in Candidates \ standing : {u \in Users : ChoiceOf(u, e) = c} = {},
                 Results' = [Results EXCEPT ![e] =
                     [c \in standing |-> Cardinality({u \in Users : ChoiceOf(u, e) = c})]]
          PROVE  Abstract!Declare(e, standing)
      <4>1. [c \in standing |-> Cardinality({u \in Users : ChoiceOf(u, e) = c})] =
                [c \in standing |-> Abstract!Cardinality(Abstract!Supporters(e, c))]
        BY <3>1, <3>2
      <4>2. \A c \in Candidates \ standing : Abstract!Supporters(e, c) = {}
        BY <3>1, <3>5
      <4>. QED
        BY <3>3, <3>5, <4>1, <4>2 DEF Abstract!Declare, Choices, Results
    <3>. QED
      BY <2>1, <2>6, <3>4, <3>5, TallyCommitBallot
  <2>. QED
    BY <2>2, <2>3, <2>4, <2>5, <2>6 DEF Proposal, Abstract!Next
<1>. QED
  BY <1>1, <1>2

\* The contract is a ballot box: whatever is endorsed, ordered, invalidated or lost,
\* what is committed changes as Ballot allows.
THEOREM ContractIsBallotBox == Spec => ImplementsBallot
BY Invariance, BallotInit, BallotStep, PTL DEF Spec, ImplementsBallot, Abstract!Spec
=============================================================================
