------------------------ MODULE VotingContract_proofs ------------------------
(***************************************************************************)
(* Theorems about VotingContract, for every number of users, elections,    *)
(* votes and transactions in flight.                                       *)
(***************************************************************************)
EXTENDS VotingInvariant, FiniteSetTheorems, TLAPS

(* Keys *)

\* Keys with different prefixes differ, and a prefix and an id make one key.
LEMMA KeysDiffer ==
    ASSUME NEW x, NEW y
    PROVE  /\ ElectionKey(x) # UserKey(y) /\ ElectionKey(x) # VoteKey(y)
           /\ ElectionKey(x) # TallyKey(y) /\ ElectionKey(x) # FinalTallyKey(y)
           /\ ElectionKey(x) # RevocationKey(y)
           /\ UserKey(x) # VoteKey(y) /\ UserKey(x) # TallyKey(y)
           /\ UserKey(x) # FinalTallyKey(y) /\ UserKey(x) # RevocationKey(y)
           /\ VoteKey(x) # TallyKey(y) /\ VoteKey(x) # FinalTallyKey(y)
           /\ VoteKey(x) # RevocationKey(y)
           /\ TallyKey(x) # FinalTallyKey(y) /\ TallyKey(x) # RevocationKey(y)
           /\ FinalTallyKey(x) # RevocationKey(y)
           /\ ElectionKey(x) = ElectionKey(y) => x = y
           /\ UserKey(x) = UserKey(y) => x = y
           /\ VoteKey(x) = VoteKey(y) => x = y
           /\ TallyKey(x) = TallyKey(y) => x = y
           /\ FinalTallyKey(x) = FinalTallyKey(y) => x = y
           /\ RevocationKey(x) = RevocationKey(y) => x = y
BY DEF ElectionKey, UserKey, VoteKey, TallyKey, FinalTallyKey, RevocationKey

LEMMA KeysTyped ==
    /\ \A e \in Elections : /\ ElectionKey(e) \in Keys
                            /\ TallyKey(e) \in Keys
                            /\ FinalTallyKey(e) \in Keys
    /\ \A u \in Users : UserKey(u) \in Keys /\ RevocationKey(u) \in Keys
    /\ \A v \in VoteIds : VoteKey(v) \in Keys /\ VoteKey(v) \in VoteKeys
BY DEF Keys, VoteKeys

-----------------------------------------------------------------------------
(* What the functions propose *)

\* What the peers endorse: typed, computed from what is committed, with an
\* unused id for a vote.
Endorsed(tx) ==
    /\ WellFormed(tx)
    /\ ~tx.stale
    /\ Proposal(tx)
    /\ \A k \in DOMAIN tx.reads : tx.reads[k] = worldState[k]
    /\ \A v \in VoteIds : VoteKey(v) \in DOMAIN tx.writes => FreshVoteId(v)

\* A read set is a part of the world state.
LEMMA ReadTyped ==
    ASSUME TypeOK, NEW K \in SUBSET Keys
    PROVE  /\ WellTyped(Read(K))
           /\ DOMAIN Read(K) = K
           /\ \A k \in K : Read(K)[k] = worldState[k]
BY DEF TypeOK, WellTyped, Read

\* A transaction made of typed parts is typed, and its fields are these parts.
LEMMA TransactionTyped ==
    ASSUME NEW reads, NEW writes, NEW event, NEW result \in Tally \cup {Nil},
           WellTyped(reads), WellTyped(writes),
           \A k \in DOMAIN writes : writes[k] # Nil
    PROVE  LET tx == Transaction(reads, writes, event, result)
           IN  /\ WellFormed(tx)
               /\ tx.reads = reads
               /\ tx.writes = writes
               /\ tx.result = result
               /\ ~tx.stale
BY DEF WellFormed, Transaction

LEMMA CreateElectionEndorsed ==
    ASSUME TypeOK, NEW t \in Txs, NEW e \in Elections,
           NEW candidates \in SUBSET Candidates, NEW eligible \in SUBSET Governorates,
           CreateElection(t, e, candidates, eligible)
    PROVE  \E tx : Submit(t, tx) /\ Endorsed(tx)
<1>. DEFINE reads == Read({ElectionKey(e)})
            election == [candidates |-> candidates, eligible |-> eligible,
                         status |-> "scheduled"]
            writes == [k \in {ElectionKey(e)} |-> election]
            tx == Transaction(reads, writes,
                              [name |-> "election_created", election |-> e], Nil)
<1>1. election \in Election
  BY DEF Election, Statuses
<1>2. WellTyped(writes) /\ \A k \in DOMAIN writes : writes[k] # Nil
  <2>. HIDE DEF election
  <2>. QED
    BY <1>1, KeysDiffer, KeysTyped, NilIsNoRecord DEF WellTyped
<1>3. /\ WellTyped(reads) /\ DOMAIN reads = {ElectionKey(e)}
      /\ reads[ElectionKey(e)] = worldState[ElectionKey(e)]
  BY ReadTyped, KeysTyped
<1>4. /\ WellFormed(tx) /\ ~tx.stale
      /\ tx.reads = reads /\ tx.writes = writes /\ tx.result = Nil
  <2>. HIDE DEF writes, reads
  <2>. QED
    BY <1>2, <1>3, TransactionTyped
<1>5. reads[ElectionKey(e)] = Nil /\ Submit(t, tx)
  BY DEF CreateElection, CanCreate
<1>. HIDE DEF tx, reads, election
<1>6. ElectionProposal(tx, e)
  BY <1>3, <1>4, <1>5 DEF ElectionProposal
<1>7. Endorsed(tx)
  BY <1>3, <1>4, <1>6, KeysDiffer DEF Endorsed, Proposal
<1>. QED
  BY <1>5, <1>7

LEMMA UpdateElectionStatusEndorsed ==
    ASSUME TypeOK, NEW t \in Txs, NEW e \in Elections, NEW status,
           UpdateElectionStatus(t, e, status)
    PROVE  \E tx : Submit(t, tx) /\ Endorsed(tx)
<1>. DEFINE reads == Read({ElectionKey(e)})
            old == reads[ElectionKey(e)]
            election == [old EXCEPT !.status = status]
            writes == [k \in {ElectionKey(e)} |-> election]
            tx == Transaction(reads, writes,
                              [name |-> "election_status_changed", election |-> e,
                               from |-> old.status, to |-> status], Nil)
<1>1. /\ WellTyped(reads) /\ DOMAIN reads = {ElectionKey(e)}
      /\ reads[ElectionKey(e)] = worldState[ElectionKey(e)]
  BY ReadTyped, KeysTyped
<1>2. old # Nil /\ status \in Statuses /\ Submit(t, tx)
  BY DEF UpdateElectionStatus
<1>. HIDE DEF reads
<1>3. old \in Election
  BY <1>1, <1>2 DEF WellTyped
<1>4. /\ election \in Election
      /\ election.candidates = old.candidates
      /\ election.eligible = old.eligible
  BY <1>2, <1>3 DEF Election
<1>5. WellTyped(writes) /\ \A k \in DOMAIN writes : writes[k] # Nil
  <2>. HIDE DEF election
  <2>. QED
    BY <1>4, KeysDiffer, KeysTyped, NilIsNoRecord DEF WellTyped
<1>6. /\ WellFormed(tx) /\ ~tx.stale
      /\ tx.reads = reads /\ tx.writes = writes /\ tx.result = Nil
  <2>. HIDE DEF writes
  <2>. QED
    BY <1>1, <1>5, TransactionTyped
<1>. HIDE DEF tx, election
<1>7. ElectionProposal(tx, e)
  BY <1>1, <1>4, <1>6 DEF ElectionProposal
<1>8. Endorsed(tx)
  BY <1>1, <1>6, <1>7, KeysDiffer DEF Endorsed, Proposal
<1>. QED
  BY <1>2, <1>8

\* The counts of an election are natural numbers bounded by the votes there are.
LEMMA CountTyped ==
    ASSUME NEW state, NEW e, NEW c
    PROVE  Cardinality(VotesFor(state, e, c)) \in 0..Cardinality(VoteIds)
<1>1. VotesFor(state, e, c) \subseteq VoteIds
  BY DEF VotesFor
<1>2. /\ IsFiniteSet(VotesFor(state, e, c))
      /\ Cardinality(VotesFor(state, e, c)) <= Cardinality(VoteIds)
  BY <1>1, FiniteVotes, FS_Subset
<1>3. Cardinality(VotesFor(state, e, c)) \in Nat /\ Cardinality(VoteIds) \in Nat
  BY <1>2, FiniteVotes, FS_CardinalityType
<1>. QED
  BY <1>2, <1>3

\* What both tally functions compute from their read set is a tally.
LEMMA TallyTyped ==
    ASSUME NEW reads, NEW e \in Elections, reads[ElectionKey(e)] \in Election,
           NEW isFinal \in BOOLEAN
    PROVE  [election |-> e, tallies |-> CountVotes(reads, e), isFinal |-> isFinal] \in Tally
<1>. DEFINE S == reads[ElectionKey(e)].candidates
<1>1. S \in SUBSET Candidates
  BY DEF Election
<1>2. CountVotes(reads, e) \in [S -> 0..Cardinality(VoteIds)]
  BY CountTyped DEF CountVotes
<1>3. CountVotes(reads, e) \in Tallies
  BY <1>1, <1>2 DEF Tallies
<1>. QED
  BY <1>3 DEF Tally

LEMMA TallyReadsTyped ==
    ASSUME TypeOK, NEW e \in Elections
    PROVE  /\ WellTyped(TallyReads(e))
           /\ DOMAIN TallyReads(e) = {ElectionKey(e)} \cup VoteKeys
           /\ \A k \in DOMAIN TallyReads(e) : TallyReads(e)[k] = worldState[k]
           /\ TallyReads(e)[ElectionKey(e)] \in Election \cup {Nil}
<1>1. {ElectionKey(e)} \cup VoteKeys \in SUBSET Keys
  BY KeysTyped DEF Keys
<1>2. /\ WellTyped(TallyReads(e))
      /\ DOMAIN TallyReads(e) = {ElectionKey(e)} \cup VoteKeys
      /\ \A k \in DOMAIN TallyReads(e) : TallyReads(e)[k] = worldState[k]
  BY <1>1, ReadTyped DEF TallyReads
<1>. QED
  BY <1>2 DEF WellTyped

LEMMA ComputeVoteTallyEndorsed ==
    ASSUME TypeOK, NEW t \in Txs, NEW e \in Elections, ComputeVoteTally(t, e)
    PROVE  \E tx : Submit(t, tx) /\ Endorsed(tx)
<1>. DEFINE reads == TallyReads(e)
            election == reads[ElectionKey(e)]
            isFinal == election.status = "completed"
            tally == [election |-> e, tallies |-> CountVotes(reads, e),
                      isFinal |-> isFinal]
            writes == [k \in {TallyKey(e)} |-> election]
            tx == Transaction(reads, writes,
                              [name |-> "tally_computed", election |-> e], tally)
<1>1. election # Nil /\ AllVotesOnBallot(reads, e) /\ Submit(t, tx)
  BY DEF ComputeVoteTally
<1>2. /\ WellTyped(reads)
      /\ DOMAIN reads = {ElectionKey(e)} \cup VoteKeys
      /\ \A k \in DOMAIN reads : reads[k] = worldState[k]
      /\ election \in Election
  BY <1>1, TallyReadsTyped
<1>. HIDE DEF reads
<1>3. /\ tally \in Tally
      /\ tally.election = e /\ tally.tallies = CountVotes(reads, e)
  <2>1. isFinal \in BOOLEAN
    OBVIOUS
  <2>. HIDE DEF isFinal
  <2>. QED
    BY <1>2, <2>1, TallyTyped
<1>4. WellTyped(writes) /\ \A k \in DOMAIN writes : writes[k] # Nil
  <2>. HIDE DEF election
  <2>1. DOMAIN writes = {TallyKey(e)} /\ writes[TallyKey(e)] = election
    OBVIOUS
  <2>. HIDE DEF writes
  <2>2. \A k \in DOMAIN writes : k \in Keys /\ writes[k] # Nil
    BY <1>2, <2>1, KeysTyped, NilIsNoRecord
  <2>3. \A f \in Elections :
          /\ ElectionKey(f) \notin DOMAIN writes
          /\ TallyKey(f) \in DOMAIN writes => writes[TallyKey(f)] \in Election
          /\ FinalTallyKey(f) \notin DOMAIN writes
    BY <1>2, <2>1, KeysDiffer
  <2>4. \A u \in Users : UserKey(u) \notin DOMAIN writes /\ RevocationKey(u) \notin DOMAIN writes
    BY <2>1, KeysDiffer
  <2>5. \A v \in VoteIds : VoteKey(v) \notin DOMAIN writes
    BY <2>1, KeysDiffer
  <2>. QED
    BY <2>1, <2>2, <2>3, <2>4, <2>5 DEF WellTyped
<1>5. /\ WellFormed(tx) /\ ~tx.stale
      /\ tx.reads = reads /\ tx.writes = writes /\ tx.result = tally
  <2>. HIDE DEF writes, tally
  <2>. QED
    BY <1>2, <1>3, <1>4, TransactionTyped
<1>. HIDE DEF tx, tally
<1>6. TallyProposal(tx, e)
  BY <1>1, <1>2, <1>3, <1>5, NilIsNoRecord, KeysDiffer DEF TallyProposal
<1>7. Endorsed(tx)
  BY <1>2, <1>5, <1>6, KeysDiffer DEF Endorsed, Proposal
<1>. QED
  BY <1>1, <1>7

LEMMA ComputeFinalTallyEndorsed ==
    ASSUME TypeOK, NEW t \in Txs, NEW e \in Elections, ComputeFinalTally(t, e)
    PROVE  \E tx : Submit(t, tx) /\ Endorsed(tx)
<1>. DEFINE reads == TallyReads(e)
            election == reads[ElectionKey(e)]
            tally == [election |-> e, tallies |-> CountVotes(reads, e), isFinal |-> TRUE]
            writes == [k \in {TallyKey(e), FinalTallyKey(e)} |->
                         IF k = TallyKey(e) THEN election ELSE tally]
            tx == Transaction(reads, writes,
                              [name |-> "final_tally_computed", election |-> e], tally)
<1>1. election # Nil /\ AllVotesOnBallot(reads, e) /\ Submit(t, tx)
  BY DEF ComputeFinalTally
<1>2. /\ WellTyped(reads)
      /\ DOMAIN reads = {ElectionKey(e)} \cup VoteKeys
      /\ \A k \in DOMAIN reads : reads[k] = worldState[k]
      /\ election \in Election
  BY <1>1, TallyReadsTyped
<1>. HIDE DEF reads
<1>3. /\ tally \in Tally
      /\ tally.election = e /\ tally.tallies = CountVotes(reads, e)
  BY <1>2, TallyTyped
<1>. HIDE DEF tally
<1>4. /\ WellTyped(writes) /\ \A k \in DOMAIN writes : writes[k] # Nil
      /\ writes[FinalTallyKey(e)] = tally
  <2>. HIDE DEF election
  <2>1. /\ DOMAIN writes = {TallyKey(e), FinalTallyKey(e)}
        /\ writes[TallyKey(e)] = election
        /\ writes[FinalTallyKey(e)] = tally
    BY KeysDiffer
  <2>. HIDE DEF writes
  <2>2. \A k \in DOMAIN writes : k \in Keys /\ writes[k] # Nil
    BY <1>2, <1>3, <2>1, KeysTyped, NilIsNoRecord
  <2>3. ASSUME NEW f \in Elections
        PROVE  /\ ElectionKey(f) \notin DOMAIN writes
               /\ TallyKey(f) \in DOMAIN writes => writes[TallyKey(f)] \in Election
               /\ FinalTallyKey(f) \in DOMAIN writes => writes[FinalTallyKey(f)] \in Tally
    BY <1>2, <1>3, <2>1, KeysDiffer
  <2>4. \A u \in Users : UserKey(u) \notin DOMAIN writes /\ RevocationKey(u) \notin DOMAIN writes
    BY <2>1, KeysDiffer
  <2>5. \A v \in VoteIds : VoteKey(v) \notin DOMAIN writes
    BY <2>1, KeysDiffer
  <2>. QED
    BY <2>1, <2>2, <2>3, <2>4, <2>5 DEF WellTyped
<1>5. /\ WellFormed(tx) /\ ~tx.stale
      /\ tx.reads = reads /\ tx.writes = writes /\ tx.result = tally
  <2>. HIDE DEF writes
  <2>. QED
    BY <1>2, <1>3, <1>4, TransactionTyped
<1>. HIDE DEF tx
<1>6. TallyProposal(tx, e)
  BY <1>1, <1>2, <1>3, <1>4, <1>5, NilIsNoRecord, KeysDiffer DEF TallyProposal
<1>7. Endorsed(tx)
  BY <1>2, <1>5, <1>6, KeysDiffer DEF Endorsed, Proposal
<1>. QED
  BY <1>1, <1>7

LEMMA RegisterUserEndorsed ==
    ASSUME TypeOK, NEW t \in Txs, NEW u \in Users, NEW g \in Governorates, NEW role,
           RegisterUser(t, u, g, role)
    PROVE  \E tx : Submit(t, tx) /\ Endorsed(tx)
<1>. DEFINE reads == Read({UserKey(u)})
            user == [governorate |-> g, voted |-> {}, role |-> role,
                     status |-> "active"]
            writes == [k \in {UserKey(u)} |-> user]
            tx == Transaction(reads, writes,
                              [name |-> "user_registered", user |-> u], Nil)
<1>1. reads[UserKey(u)] = Nil /\ role \in Roles /\ Submit(t, tx)
  BY DEF RegisterUser, CanRegister, NewUser
<1>2. user \in User /\ user.voted = {} /\ user.status # "suspended"
  BY <1>1 DEF User, UserStatuses
<1>3. WellTyped(writes) /\ \A k \in DOMAIN writes : writes[k] # Nil
  <2>. HIDE DEF user
  <2>. QED
    BY <1>2, KeysDiffer, KeysTyped, NilIsNoRecord DEF WellTyped
<1>4. /\ WellTyped(reads) /\ DOMAIN reads = {UserKey(u)}
      /\ reads[UserKey(u)] = worldState[UserKey(u)]
  BY ReadTyped, KeysTyped
<1>5. /\ WellFormed(tx) /\ ~tx.stale
      /\ tx.reads = reads /\ tx.writes = writes /\ tx.result = Nil
  <2>. HIDE DEF writes, reads
  <2>. QED
    BY <1>3, <1>4, TransactionTyped
<1>. HIDE DEF tx, reads, user
<1>6. UserProposal(tx, u)
  BY <1>1, <1>2, <1>4, <1>5 DEF UserProposal
<1>7. Endorsed(tx)
  BY <1>4, <1>5, <1>6, KeysDiffer DEF Endorsed, Proposal
<1>. QED
  BY <1>1, <1>7

LEMMA UpdateUserStatusEndorsed ==
    ASSUME TypeOK, NEW t \in Txs, NEW caller \in Users, NEW u \in Users, NEW status,
           UpdateUserStatus(t, caller, u, status)
    PROVE  \E tx : Submit(t, tx) /\ Endorsed(tx)
<1>. DEFINE reads == Read({UserKey(caller), UserKey(u)})
            old == reads[UserKey(u)]
            user == [old EXCEPT !.status = status]
            revocation == [revokedBy |-> caller]
            written == StatusWrites(u, status)
            writes == [k \in written |-> IF k = UserKey(u) THEN user ELSE revocation]
            tx == Transaction(reads, writes,
                              [name |-> "user_status_updated", userId |-> u,
                               status |-> status, updatedBy |-> caller], Nil)
<1>1. old # Nil /\ status \in UserStatuses /\ Submit(t, tx)
  BY DEF UpdateUserStatus
<1>2. /\ WellTyped(reads) /\ DOMAIN reads = {UserKey(caller), UserKey(u)}
      /\ \A k \in DOMAIN reads : reads[k] = worldState[k]
  BY ReadTyped, KeysTyped
<1>. HIDE DEF reads
<1>3. old \in User
  BY <1>1, <1>2 DEF WellTyped
<1>4. /\ user \in User
      /\ user.voted = old.voted /\ user.role = old.role
      /\ user.governorate = old.governorate
      /\ user.status = status
  BY <1>1, <1>3 DEF User
<1>5. revocation \in Revocation
  BY DEF Revocation
<1>6. /\ written \subseteq {UserKey(u), RevocationKey(u)}
      /\ UserKey(u) \in written
      /\ status = "suspended" => RevocationKey(u) \in written
  BY DEF StatusWrites
<1>. HIDE DEF user, revocation, written
<1>7. /\ WellTyped(writes) /\ \A k \in DOMAIN writes : writes[k] # Nil
      /\ writes[UserKey(u)] = user
  <2>1. /\ DOMAIN writes = written
        /\ writes[UserKey(u)] = user
        /\ RevocationKey(u) \in written => writes[RevocationKey(u)] = revocation
    BY <1>6, KeysDiffer
  <2>. HIDE DEF writes, old
  <2>2. \A k \in DOMAIN writes : k \in Keys /\ writes[k] # Nil
    BY <1>4, <1>5, <1>6, <2>1, KeysTyped, NilIsNoRecord
  <2>3. \A e \in Elections : /\ ElectionKey(e) \notin DOMAIN writes
                             /\ TallyKey(e) \notin DOMAIN writes
                             /\ FinalTallyKey(e) \notin DOMAIN writes
    BY <1>6, <2>1, KeysDiffer
  <2>4. ASSUME NEW w \in Users
        PROVE  /\ UserKey(w) \in DOMAIN writes => writes[UserKey(w)] \in User
               /\ RevocationKey(w) \in DOMAIN writes => writes[RevocationKey(w)] \in Revocation
    BY <1>4, <1>5, <1>6, <2>1, KeysDiffer
  <2>5. \A v \in VoteIds : VoteKey(v) \notin DOMAIN writes
    BY <1>6, <2>1, KeysDiffer
  <2>. QED
    BY <2>1, <2>2, <2>3, <2>4, <2>5 DEF WellTyped
<1>8. /\ WellFormed(tx) /\ ~tx.stale
      /\ tx.reads = reads /\ tx.writes = writes /\ tx.result = Nil
  <2>. HIDE DEF writes
  <2>. QED
    BY <1>2, <1>7, TransactionTyped
<1>. HIDE DEF tx
<1>9. UserProposal(tx, u)
  BY <1>1, <1>2, <1>4, <1>6, <1>7, <1>8 DEF UserProposal
<1>10. Endorsed(tx)
  BY <1>2, <1>6, <1>8, <1>9, KeysDiffer DEF Endorsed, Proposal
<1>. QED
  BY <1>1, <1>10

LEMMA CastVoteEndorsed ==
    ASSUME TypeOK, NEW t \in Txs, NEW u \in Users, NEW v \in VoteIds,
           NEW e \in Elections, NEW c \in Candidates, CastVote(t, u, v, e, c)
    PROVE  \E tx : Submit(t, tx) /\ Endorsed(tx)
<1>. DEFINE reads == Read({ElectionKey(e), UserKey(u)})
            old == reads[UserKey(u)]
            vote == [voter |-> u, election |-> e, candidate |-> c]
            user == [old EXCEPT !.voted = @ \cup {e}]
            writes == [k \in {VoteKey(v), UserKey(u)} |->
                         IF k = VoteKey(v) THEN vote ELSE user]
            tx == Transaction(reads, writes,
                              [name |-> "vote_cast", id |-> v, vote |-> vote], Nil)
<1>1. /\ FreshVoteId(v)
      /\ CanVote(reads[ElectionKey(e)], old, e, c)
      /\ Submit(t, tx)
  BY DEF CastVote, CastVoteReads, MarkVoted
<1>2. /\ WellTyped(reads) /\ DOMAIN reads = {ElectionKey(e), UserKey(u)}
      /\ \A k \in DOMAIN reads : reads[k] = worldState[k]
  BY ReadTyped, KeysTyped
<1>. HIDE DEF reads
<1>3. old \in User
  BY <1>1, <1>2 DEF WellTyped, CanVote
<1>4. user \in User
  BY <1>3 DEF User
<1>5. vote \in Vote
  BY DEF Vote
<1>6. /\ WellTyped(writes) /\ \A k \in DOMAIN writes : writes[k] # Nil
      /\ writes[VoteKey(v)] = vote
      /\ writes[UserKey(u)] = user
  <2>. HIDE DEF user, vote
  <2>1. /\ DOMAIN writes = {VoteKey(v), UserKey(u)}
        /\ writes[VoteKey(v)] = vote
        /\ writes[UserKey(u)] = user
    BY KeysDiffer
  <2>. HIDE DEF writes
  <2>2. \A k \in DOMAIN writes : k \in Keys /\ writes[k] # Nil
    BY <1>4, <1>5, <2>1, KeysTyped, NilIsNoRecord
  <2>3. \A f \in Elections : /\ ElectionKey(f) \notin DOMAIN writes
                             /\ TallyKey(f) \notin DOMAIN writes
                             /\ FinalTallyKey(f) \notin DOMAIN writes
    BY <2>1, KeysDiffer
  <2>4. \A x \in Users : /\ UserKey(x) \in DOMAIN writes => writes[UserKey(x)] \in User
                         /\ RevocationKey(x) \notin DOMAIN writes
    BY <1>4, <2>1, KeysDiffer
  <2>5. \A w \in VoteIds : VoteKey(w) \in DOMAIN writes => writes[VoteKey(w)] \in Vote
    BY <1>5, <2>1, KeysDiffer
  <2>. QED
    BY <2>1, <2>2, <2>3, <2>4, <2>5 DEF WellTyped
<1>7. /\ WellFormed(tx) /\ ~tx.stale
      /\ tx.reads = reads /\ tx.writes = writes /\ tx.result = Nil
  <2>. HIDE DEF writes
  <2>. QED
    BY <1>2, <1>6, TransactionTyped
<1>. HIDE DEF tx
<1>8. VoteProposal(tx, u, v, e, c)
  BY <1>1, <1>2, <1>6, <1>7 DEF VoteProposal
<1>9. Endorsed(tx)
  BY <1>1, <1>2, <1>7, <1>8, KeysDiffer DEF Endorsed, Proposal
<1>. QED
  BY <1>1, <1>9

\* Every step of the contract endorses a proposal, commits one or discards one.
LEMMA NextCases ==
    ASSUME TypeOK, Next
    PROVE  \E t \in Txs : Commit(t) \/ Discard(t) \/ \E tx : Submit(t, tx) /\ Endorsed(tx)
<1>1. PICK t \in Txs : ElectionCall(t) \/ UserCall(t) \/ Commit(t) \/ Discard(t)
  BY DEF Next
<1>2. CASE ElectionCall(t)
  BY <1>2, CreateElectionEndorsed, UpdateElectionStatusEndorsed,
     ComputeVoteTallyEndorsed, ComputeFinalTallyEndorsed DEF ElectionCall
<1>3. CASE UserCall(t)
  BY <1>3, RegisterUserEndorsed, UpdateUserStatusEndorsed, CastVoteEndorsed DEF UserCall
<1>. QED
  BY <1>1, <1>2, <1>3

-----------------------------------------------------------------------------
(* The invariant is inductive *)

LEMMA InitIInv == Init => IInv
<1>. SUFFICES ASSUME Init PROVE IInv
  OBVIOUS
<1>1. /\ DOMAIN worldState = Keys /\ \A k \in Keys : worldState[k] = Nil
      /\ DOMAIN inflight = Txs /\ \A t \in Txs : ~Pending(t)
  BY DEF Init, Pending
<1>2. \A v \in VoteIds : ~Cast(v)
  BY <1>1, KeysTyped DEF Cast
<1>3. \A u \in Users, e \in Elections : ~HasVoted(u, e)
  BY <1>1, KeysTyped DEF HasVoted
<1>4. TypeOK
  BY <1>1 DEF TypeOK, WellTyped
<1>. QED
  BY <1>1, <1>2, <1>3, <1>4
  DEF IInv, ReadsAreCurrent, AllAreProposals, VoteIdsAreFresh, VotedMarksMatchVotes,
      OneVotePerElection

\* What the votes and marks say is unchanged when their keys are.
LEMMA MarksFrame ==
    ASSUME VotedMarksMatchVotes, OneVotePerElection,
           \A u \in Users, e \in Elections : HasVoted(u, e)' <=> HasVoted(u, e),
           \A v \in VoteIds : worldState'[VoteKey(v)] = worldState[VoteKey(v)]
    PROVE  VotedMarksMatchVotes' /\ OneVotePerElection'
<1>1. \A v \in VoteIds : Cast(v)' <=> Cast(v)
  BY DEF Cast
<1>2. VotedMarksMatchVotes'
  BY <1>1 DEF VotedMarksMatchVotes
<1>3. OneVotePerElection'
  BY <1>1 DEF OneVotePerElection
<1>. QED
  BY <1>2, <1>3

LEMMA SubmitIInv ==
    ASSUME IInv, NEW t \in Txs, NEW tx, Submit(t, tx), Endorsed(tx)
    PROVE  IInv'
<1>1. /\ worldState' = worldState
      /\ DOMAIN inflight' = Txs
      /\ inflight'[t] = tx
      /\ ~Pending(t)
      /\ \A s \in Txs \ {t} : inflight'[s] = inflight[s]
  BY DEF Submit, Pending, IInv, TypeOK
<1>2. \A s \in Txs \ {t} : Pending(s)' <=> Pending(s)
  BY <1>1 DEF Pending
<1>3. TypeOK'
  <2>1. WellTyped(worldState')
    BY <1>1 DEF IInv, TypeOK
  <2>2. \A s \in Txs : Pending(s)' => WellFormed(inflight'[s])
    BY <1>1, <1>2 DEF IInv, TypeOK, Endorsed
  <2>. QED
    BY <1>1, <2>1, <2>2 DEF IInv, TypeOK, WellTyped, WellFormed
<1>4. ReadsAreCurrent'
  BY <1>1, <1>2 DEF IInv, ReadsAreCurrent, Endorsed
<1>5. AllAreProposals'
  <2>1. \A s \in Txs : Pending(s)' => Proposal(inflight'[s])
    BY <1>1, <1>2 DEF IInv, AllAreProposals, Endorsed
  <2>. QED
    BY <2>1 DEF AllAreProposals
<1>6. VoteIdsAreFresh'
  <2>1. \A v \in VoteIds : Cast(v)' <=> Cast(v)
    BY <1>1 DEF Cast
  <2>2. \A v \in VoteIds, s \in Txs \ {t} :
            VoteKey(v) \in DOMAIN tx.writes /\ Pending(s)
            => VoteKey(v) \notin DOMAIN inflight[s].writes
    BY DEF Endorsed, FreshVoteId
  <2>3. \A v \in VoteIds : VoteKey(v) \in DOMAIN tx.writes => ~Cast(v)
    BY DEF Endorsed, FreshVoteId
  <2>. QED
    BY <1>1, <1>2, <2>1, <2>2, <2>3 DEF IInv, VoteIdsAreFresh
<1>7. VotedMarksMatchVotes' /\ OneVotePerElection'
  BY <1>1, MarksFrame DEF IInv, HasVoted
<1>. QED
  BY <1>3, <1>4, <1>5, <1>6, <1>7 DEF IInv

LEMMA DiscardIInv ==
    ASSUME IInv, NEW t \in Txs, Discard(t)
    PROVE  IInv'
<1>1. /\ worldState' = worldState
      /\ DOMAIN inflight' = Txs
      /\ inflight'[t] = Nil
      /\ \A s \in Txs \ {t} : inflight'[s] = inflight[s]
  BY DEF Discard, Pending, IInv, TypeOK
<1>2. \A s \in Txs : Pending(s)' => s # t /\ Pending(s) /\ inflight'[s] = inflight[s]
  BY <1>1 DEF Pending
<1>3. TypeOK'
  BY <1>1, <1>2 DEF IInv, TypeOK, WellTyped, WellFormed
<1>4. ReadsAreCurrent'
  BY <1>1, <1>2 DEF IInv, ReadsAreCurrent
<1>5. AllAreProposals'
  <2>1. \A s \in Txs : Pending(s)' => Proposal(inflight'[s])
    BY <1>2 DEF IInv, AllAreProposals
  <2>. QED
    BY <2>1 DEF AllAreProposals
<1>6. VoteIdsAreFresh'
  BY <1>1, <1>2 DEF IInv, VoteIdsAreFresh, Cast
<1>7. VotedMarksMatchVotes' /\ OneVotePerElection'
  BY <1>1, MarksFrame DEF IInv, HasVoted
<1>. QED
  BY <1>3, <1>4, <1>5, <1>6, <1>7 DEF IInv

\* What a commit does to the world state and to the transactions left in flight.
LEMMA CommitFacts ==
    ASSUME TypeOK, NEW t \in Txs, Commit(t)
    PROVE  LET W == inflight[t].writes
           IN  /\ Pending(t) /\ ~inflight[t].stale
               /\ WellFormed(inflight[t])
               /\ DOMAIN worldState' = Keys
               /\ \A k \in Keys \ DOMAIN W : worldState'[k] = worldState[k]
               /\ \A k \in Keys \cap DOMAIN W : worldState'[k] = W[k]
               /\ DOMAIN inflight' = Txs
               /\ \A s \in Txs : Pending(s)' =>
                    /\ s # t
                    /\ Pending(s)
                    /\ inflight'[s].reads = inflight[s].reads
                    /\ inflight'[s].writes = inflight[s].writes
                    /\ inflight'[s].result = inflight[s].result
                    /\ WellFormed(inflight'[s])
                    /\ ~inflight'[s].stale => /\ ~inflight[s].stale
                                              /\ DOMAIN inflight[s].reads \cap DOMAIN W = {}
<1>. DEFINE W == inflight[t].writes
<1>1. Pending(t) /\ ~inflight[t].stale /\ WellFormed(inflight[t])
  BY DEF Commit, TypeOK
<1>2. /\ DOMAIN worldState' = Keys
      /\ \A k \in Keys \ DOMAIN W : worldState'[k] = worldState[k]
      /\ \A k \in Keys \cap DOMAIN W : worldState'[k] = W[k]
  BY DEF Commit, TypeOK
<1>3. inflight' = AfterCommit(t, DOMAIN W)
  BY DEF Commit
<1>. HIDE DEF W
<1>4. ASSUME NEW s \in Txs, Pending(s)'
      PROVE  /\ s # t
             /\ Pending(s)
             /\ inflight'[s].reads = inflight[s].reads
             /\ inflight'[s].writes = inflight[s].writes
             /\ inflight'[s].result = inflight[s].result
             /\ WellFormed(inflight'[s])
             /\ ~inflight'[s].stale => /\ ~inflight[s].stale
                                       /\ DOMAIN inflight[s].reads \cap DOMAIN W = {}
  <2>1. s # t /\ Pending(s)
    BY <1>3, <1>4 DEF AfterCommit, Pending
  <2>. DEFINE clash == DOMAIN inflight[s].reads \cap DOMAIN W # {}
  <2>2. inflight'[s] = [inflight[s] EXCEPT !.stale = @ \/ clash]
    BY <1>3, <2>1 DEF AfterCommit
  <2>3. WellFormed(inflight[s])
    BY <2>1 DEF TypeOK
  <2>4. clash \in BOOLEAN /\ inflight[s].stale \in BOOLEAN
    BY <2>3 DEF WellFormed
  <2>. DEFINE stale == inflight[s].stale \/ clash
  <2>5. stale \in BOOLEAN
    OBVIOUS
  <2>6. inflight'[s] = [inflight[s] EXCEPT !.stale = stale]
    BY <2>2
  <2>7. ~stale => ~inflight[s].stale /\ DOMAIN inflight[s].reads \cap DOMAIN W = {}
    OBVIOUS
  <2>. HIDE DEF stale
  <2>8. DOMAIN inflight[s] = {"reads", "writes", "event", "result", "stale"}
    BY <2>3 DEF WellFormed
  <2>9. /\ DOMAIN inflight'[s] = DOMAIN inflight[s]
        /\ inflight'[s].reads = inflight[s].reads
        /\ inflight'[s].writes = inflight[s].writes
        /\ inflight'[s].result = inflight[s].result
        /\ inflight'[s].stale = stale
    BY <2>6, <2>8
  <2>10. WellFormed(inflight'[s])
    BY <2>3, <2>5, <2>9 DEF WellFormed
  <2>. QED
    BY <2>1, <2>7, <2>9, <2>10
<1>5. DOMAIN inflight' = Txs
  BY <1>3 DEF AfterCommit
<1>. QED
  BY <1>1, <1>2, <1>4, <1>5 DEF W

\* Whether a transaction is a proposal depends on these fields only.
LEMMA ProposalFrame ==
    ASSUME NEW x, NEW y, Proposal(x),
           y.reads = x.reads, y.writes = x.writes, y.result = x.result
    PROVE  Proposal(y)
<1>1. \A e \in Elections : ElectionProposal(x, e) => ElectionProposal(y, e)
  BY Zenon DEF ElectionProposal
<1>2. \A e \in Elections : TallyProposal(x, e) => TallyProposal(y, e)
  BY Zenon DEF TallyProposal
<1>3. \A u \in Users : UserProposal(x, u) => UserProposal(y, u)
  BY Zenon DEF UserProposal
<1>4. ASSUME NEW u \in Users, NEW v \in VoteIds, NEW e \in Elections, NEW c \in Candidates,
             VoteProposal(x, u, v, e, c)
      PROVE  VoteProposal(y, u, v, e, c)
  BY <1>4 DEF VoteProposal
<1>. QED
  BY <1>1, <1>2, <1>3, <1>4, Zenon DEF Proposal

LEMMA CommitTyped ==
    ASSUME TypeOK, NEW t \in Txs, Commit(t)
    PROVE  TypeOK'
<1>. DEFINE W == inflight[t].writes
<1>1. /\ WellTyped(W)
      /\ DOMAIN worldState' = Keys
      /\ \A k \in Keys \ DOMAIN W : worldState'[k] = worldState[k]
      /\ \A k \in Keys \cap DOMAIN W : worldState'[k] = W[k]
  BY CommitFacts DEF WellFormed
<1>. HIDE DEF W
<1>2. WellTyped(worldState')
  <2>1. \A e \in Elections :
          /\ worldState'[ElectionKey(e)] \in Election \cup {Nil}
          /\ worldState'[TallyKey(e)] \in Election \cup {Nil}
          /\ worldState'[FinalTallyKey(e)] \in Tally \cup {Nil}
    BY <1>1, KeysTyped DEF TypeOK, WellTyped
  <2>2. \A u \in Users :
          /\ worldState'[UserKey(u)] \in User \cup {Nil}
          /\ worldState'[RevocationKey(u)] \in Revocation \cup {Nil}
    BY <1>1, KeysTyped DEF TypeOK, WellTyped
  <2>3. \A v \in VoteIds : worldState'[VoteKey(v)] \in Vote \cup {Nil}
    BY <1>1, KeysTyped DEF TypeOK, WellTyped
  <2>. QED
    BY <1>1, <2>1, <2>2, <2>3 DEF WellTyped
<1>3. /\ DOMAIN inflight' = Txs
      /\ \A s \in Txs : Pending(s)' => WellFormed(inflight'[s])
  BY CommitFacts
<1>. QED
  BY <1>1, <1>2, <1>3 DEF TypeOK, WellTyped, WellFormed

\* Committing a transaction on an election, or a tally, touches no user or vote.
LEMMA ElectionCommitMarks ==
    ASSUME IInv, NEW t \in Txs, Commit(t), NEW e \in Elections,
           ElectionProposal(inflight[t], e) \/ TallyProposal(inflight[t], e)
    PROVE  VotedMarksMatchVotes' /\ OneVotePerElection'
<1>. DEFINE W == inflight[t].writes
<1>1. DOMAIN W \subseteq {ElectionKey(e), TallyKey(e), FinalTallyKey(e)}
  BY DEF ElectionProposal, TallyProposal
<1>2. \A k \in Keys \ DOMAIN W : worldState'[k] = worldState[k]
  BY CommitFacts DEF IInv
<1>. HIDE DEF W
<1>3. \A u \in Users : worldState'[UserKey(u)] = worldState[UserKey(u)]
  <2>1. \A u \in Users : UserKey(u) \in Keys \ DOMAIN W
    BY <1>1, KeysDiffer, KeysTyped
  <2>. QED
    BY <1>2, <2>1
<1>4. \A v \in VoteIds : worldState'[VoteKey(v)] = worldState[VoteKey(v)]
  <2>1. \A v \in VoteIds : VoteKey(v) \in Keys \ DOMAIN W
    BY <1>1, KeysDiffer, KeysTyped
  <2>. QED
    BY <1>2, <2>1
<1>5. \A u \in Users, x \in Elections : HasVoted(u, x)' <=> HasVoted(u, x)
  BY <1>3 DEF HasVoted
<1>. QED
  BY <1>4, <1>5, MarksFrame DEF IInv

\* Committing a registration or a status change leaves the voting history alone:
\* what is written is derived from the committed record.
LEMMA UserCommitMarks ==
    ASSUME IInv, NEW t \in Txs, Commit(t), NEW u \in Users,
           UserProposal(inflight[t], u)
    PROVE  VotedMarksMatchVotes' /\ OneVotePerElection'
<1>. DEFINE W == inflight[t].writes
            old == worldState[UserKey(u)]
<1>1. /\ DOMAIN W \subseteq {UserKey(u), RevocationKey(u)}
      /\ UserKey(u) \in DOMAIN W
      /\ W[UserKey(u)] # Nil
      /\ IF old = Nil THEN W[UserKey(u)].voted = {} ELSE W[UserKey(u)].voted = old.voted
  <2>1. inflight[t].reads[UserKey(u)] = old
    BY CommitFacts DEF IInv, ReadsAreCurrent, UserProposal
  <2>2. WellFormed(inflight[t])
    BY CommitFacts DEF IInv
  <2>. QED
    BY <2>1, <2>2 DEF UserProposal, WellFormed
<1>2. /\ \A k \in Keys \ DOMAIN W : worldState'[k] = worldState[k]
      /\ \A k \in Keys \cap DOMAIN W : worldState'[k] = W[k]
  BY CommitFacts DEF IInv
<1>. HIDE DEF W
<1>3. \A v \in VoteIds : worldState'[VoteKey(v)] = worldState[VoteKey(v)]
  BY <1>1, <1>2, KeysDiffer, KeysTyped
<1>4. \A w \in Users \ {u} : worldState'[UserKey(w)] = worldState[UserKey(w)]
  BY <1>1, <1>2, KeysDiffer, KeysTyped
<1>5. worldState'[UserKey(u)] = W[UserKey(u)]
  BY <1>1, <1>2, KeysTyped
<1>6. \A e \in Elections : HasVoted(u, e)' <=> HasVoted(u, e)
  BY <1>1, <1>5 DEF HasVoted
<1>7. \A w \in Users, e \in Elections : HasVoted(w, e)' <=> HasVoted(w, e)
  BY <1>4, <1>6 DEF HasVoted
<1>. QED
  BY <1>3, <1>7, MarksFrame DEF IInv

\* Committing a vote adds one vote under a new id and the mark that goes with it,
\* for a user who had no vote in that election.
LEMMA VoteCommitFacts ==
    ASSUME IInv, NEW t \in Txs, Commit(t),
           NEW u \in Users, NEW v \in VoteIds, NEW e \in Elections, NEW c \in Candidates,
           VoteProposal(inflight[t], u, v, e, c)
    PROVE  /\ CanVote(worldState[ElectionKey(e)], worldState[UserKey(u)], e, c)
           /\ ~Cast(v)
           /\ worldState'[VoteKey(v)] = [voter |-> u, election |-> e, candidate |-> c]
           /\ worldState'[VoteKey(v)] # Nil
           /\ worldState'[UserKey(u)] # Nil
           /\ worldState'[UserKey(u)] = [worldState[UserKey(u)] EXCEPT !.voted = @ \cup {e}]
           /\ \A k \in Keys \ {VoteKey(v), UserKey(u)} : worldState'[k] = worldState[k]
<1>. DEFINE tx == inflight[t]
<1>1. /\ Pending(t) /\ ~tx.stale /\ WellFormed(tx)
      /\ \A k \in Keys \ DOMAIN tx.writes : worldState'[k] = worldState[k]
      /\ \A k \in Keys \cap DOMAIN tx.writes : worldState'[k] = tx.writes[k]
  BY CommitFacts DEF IInv
<1>2. /\ tx.reads[ElectionKey(e)] = worldState[ElectionKey(e)]
      /\ tx.reads[UserKey(u)] = worldState[UserKey(u)]
  BY <1>1 DEF VoteProposal, IInv, ReadsAreCurrent
<1>3. ~Cast(v)
  BY <1>1 DEF VoteProposal, IInv, VoteIdsAreFresh
<1>4. /\ worldState'[VoteKey(v)] = tx.writes[VoteKey(v)]
      /\ worldState'[UserKey(u)] = tx.writes[UserKey(u)]
      /\ \A k \in Keys \ {VoteKey(v), UserKey(u)} : worldState'[k] = worldState[k]
  BY <1>1, KeysTyped DEF VoteProposal
<1>5. tx.writes[VoteKey(v)] # Nil /\ tx.writes[UserKey(u)] # Nil
  BY <1>1 DEF VoteProposal, WellFormed
<1>. QED
  BY <1>2, <1>3, <1>4, <1>5 DEF VoteProposal

LEMMA VoteCommitMarks ==
    ASSUME IInv, NEW t \in Txs, Commit(t),
           NEW u \in Users, NEW v \in VoteIds, NEW e \in Elections, NEW c \in Candidates,
           VoteProposal(inflight[t], u, v, e, c)
    PROVE  VotedMarksMatchVotes' /\ OneVotePerElection'
<1>. DEFINE old == worldState[UserKey(u)]
            new == worldState'[UserKey(u)]
            vote == worldState'[VoteKey(v)]
<1>0. /\ CanVote(worldState[ElectionKey(e)], old, e, c)
      /\ ~Cast(v)
      /\ vote = [voter |-> u, election |-> e, candidate |-> c]
      /\ vote # Nil
      /\ new # Nil
      /\ new = [old EXCEPT !.voted = @ \cup {e}]
      /\ \A k \in Keys \ {VoteKey(v), UserKey(u)} : worldState'[k] = worldState[k]
  BY VoteCommitFacts
<1>1. /\ old # Nil /\ e \notin old.voted /\ new # Nil
      /\ ~Cast(v) /\ Cast(v)'
      /\ vote.voter = u /\ vote.election = e
  BY <1>0 DEF CanVote, Cast
<1>2. new.voted = old.voted \cup {e}
  <2>1. old \in User
    BY <1>1, KeysTyped DEF IInv, TypeOK, WellTyped
  <2>. QED
    BY <1>0, <2>1 DEF User
<1>3. /\ \A w \in VoteIds \ {v} : worldState'[VoteKey(w)] = worldState[VoteKey(w)]
      /\ \A w \in Users \ {u} : worldState'[UserKey(w)] = worldState[UserKey(w)]
  BY <1>0, KeysTyped, KeysDiffer
<1>4. \A w \in VoteIds \ {v} : Cast(w)' <=> Cast(w)
  BY <1>3 DEF Cast
<1>5. ~HasVoted(u, e)
  BY <1>1 DEF HasVoted
<1>6. \A w \in Users, f \in Elections :
         HasVoted(w, f)' <=> HasVoted(w, f) \/ (w = u /\ f = e)
  BY <1>1, <1>2, <1>3 DEF HasVoted
<1>7. VotedMarksMatchVotes'
  <2>. SUFFICES ASSUME NEW w \in Users, NEW f \in Elections
                PROVE  HasVoted(w, f)' <=>
                         \E x \in VoteIds : /\ Cast(x)'
                                            /\ worldState'[VoteKey(x)].voter = w
                                            /\ worldState'[VoteKey(x)].election = f
    BY DEF VotedMarksMatchVotes
  <2>1. HasVoted(w, f) <=>
          \E x \in VoteIds \ {v} : /\ Cast(x)'
                                   /\ worldState'[VoteKey(x)].voter = w
                                   /\ worldState'[VoteKey(x)].election = f
    BY <1>1, <1>3, <1>4 DEF IInv, VotedMarksMatchVotes
  <2>. QED
    BY <1>1, <1>6, <2>1
<1>8. OneVotePerElection'
  <2>1. \A x \in VoteIds \ {v} :
          ~(/\ Cast(x)'
            /\ worldState'[VoteKey(x)].voter = u
            /\ worldState'[VoteKey(x)].election = e)
    BY <1>3, <1>4, <1>5 DEF IInv, VotedMarksMatchVotes
  <2>. QED
    BY <1>1, <1>3, <1>4, <2>1 DEF IInv, OneVotePerElection
<1>. QED
  BY <1>7, <1>8

LEMMA CommitIInv ==
    ASSUME IInv, NEW t \in Txs, Commit(t)
    PROVE  IInv'
<1>. DEFINE W == inflight[t].writes
<1>1. TypeOK'
  BY CommitTyped DEF IInv
<1>2. ReadsAreCurrent'
  <2>. SUFFICES ASSUME NEW s \in Txs, Pending(s)', ~inflight'[s].stale,
                       NEW k \in DOMAIN inflight'[s].reads
                PROVE  inflight'[s].reads[k] = worldState'[k]
    BY DEF ReadsAreCurrent
  <2>1. /\ Pending(s) /\ ~inflight[s].stale
        /\ inflight'[s].reads = inflight[s].reads
        /\ DOMAIN inflight[s].reads \cap DOMAIN W = {}
        /\ WellFormed(inflight'[s])
        /\ \A x \in Keys \ DOMAIN W : worldState'[x] = worldState[x]
    BY CommitFacts DEF IInv
  <2>2. k \in Keys \ DOMAIN W
    BY <2>1 DEF WellFormed, WellTyped
  <2>. QED
    BY <2>1, <2>2 DEF IInv, ReadsAreCurrent
<1>3. AllAreProposals'
  <2>. SUFFICES ASSUME NEW s \in Txs, Pending(s)' PROVE Proposal(inflight'[s])
    BY DEF AllAreProposals
  <2>1. /\ Pending(s)
        /\ inflight'[s].reads = inflight[s].reads
        /\ inflight'[s].writes = inflight[s].writes
        /\ inflight'[s].result = inflight[s].result
    BY CommitFacts DEF IInv
  <2>2. Proposal(inflight[s])
    BY <2>1 DEF IInv, AllAreProposals
  <2>. QED
    BY <2>1, <2>2, ProposalFrame
<1>4. VoteIdsAreFresh'
  <2>. SUFFICES ASSUME NEW s \in Txs, NEW v \in VoteIds, Pending(s)',
                       VoteKey(v) \in DOMAIN inflight'[s].writes
                PROVE  /\ ~Cast(v)'
                       /\ \A r \in Txs \ {s} :
                            Pending(r)' => VoteKey(v) \notin DOMAIN inflight'[r].writes
    BY DEF VoteIdsAreFresh
  <2>1. \A r \in Txs : Pending(r)' => /\ r # t /\ Pending(r)
                                      /\ inflight'[r].writes = inflight[r].writes
    BY CommitFacts DEF IInv
  <2>2. VoteKey(v) \notin DOMAIN W /\ ~Cast(v)
    BY <2>1 DEF IInv, VoteIdsAreFresh, Commit
  <2>3. worldState'[VoteKey(v)] = worldState[VoteKey(v)]
    BY <2>2, CommitFacts, KeysTyped DEF IInv
  <2>. QED
    BY <2>1, <2>2, <2>3 DEF IInv, VoteIdsAreFresh, Cast
<1>5. VotedMarksMatchVotes' /\ OneVotePerElection'
  <2>1. Proposal(inflight[t])
    BY DEF IInv, AllAreProposals, Commit
  <2>. QED
    BY <2>1, ElectionCommitMarks, UserCommitMarks, VoteCommitMarks DEF Proposal
<1>. QED
  BY <1>1, <1>2, <1>3, <1>4, <1>5 DEF IInv

LEMMA StutterIInv == IInv /\ UNCHANGED ledgerVars => IInv'
<1>. SUFFICES ASSUME IInv, UNCHANGED ledgerVars PROVE IInv'
  OBVIOUS
<1>. USE DEF ledgerVars
<1>1. TypeOK' /\ ReadsAreCurrent' /\ AllAreProposals' /\ VoteIdsAreFresh'
  BY DEF IInv, TypeOK, ReadsAreCurrent, AllAreProposals, VoteIdsAreFresh, Pending, Cast,
         WellTyped, WellFormed
<1>2. VotedMarksMatchVotes' /\ OneVotePerElection'
  BY MarksFrame DEF IInv, HasVoted
<1>. QED
  BY <1>1, <1>2 DEF IInv

LEMMA NextIInv == IInv /\ [Next]_ledgerVars => IInv'
<1>1. ASSUME IInv, Next PROVE IInv'
  <2>1. TypeOK
    BY <1>1 DEF IInv
  <2>2. PICK t \in Txs :
          Commit(t) \/ Discard(t) \/ \E tx : Submit(t, tx) /\ Endorsed(tx)
    BY <1>1, <2>1, NextCases
  <2>. QED
    BY <1>1, <2>2, CommitIInv, DiscardIInv, SubmitIInv
<1>. QED
  BY <1>1, StutterIInv

\* The invariant holds in every reachable state.
THEOREM Invariance == Spec => []IInv
BY InitIInv, NextIInv, PTL DEF Spec

-----------------------------------------------------------------------------
(* The theorems *)

\* Every stored and proposed value has its type, in every reachable state.
THEOREM TypeCorrect == Spec => []TypeOK
<1>1. IInv => TypeOK
  BY DEF IInv
<1>. QED
  BY <1>1, Invariance, PTL

\* A transaction that can still commit read what is committed now: the chaincode
\* functions behave as if each ran alone at the moment it commits.
THEOREM CommitsReadCurrent == Spec => []ReadsAreCurrent
<1>1. IInv => ReadsAreCurrent
  BY DEF IInv
<1>. QED
  BY <1>1, Invariance, PTL

\* No voter ever has two committed votes in one election.
THEOREM AtMostOneVote == Spec => []OneVotePerElection
<1>1. IInv => OneVotePerElection
  BY DEF IInv
<1>. QED
  BY <1>1, Invariance, PTL

\* The marks in the user records are exactly the committed votes.
THEOREM MarksMatchVotes == Spec => []VotedMarksMatchVotes
<1>1. IInv => VotedMarksMatchVotes
  BY DEF IInv
<1>. QED
  BY <1>1, Invariance, PTL

\* Nobody can call SetUserRole or ClearElections with success.
THEOREM NoAdministrators == Spec => []NobodyIsAdmin
<1>1. IInv => NobodyIsAdmin
  BY KeysTyped DEF IInv, TypeOK, WellTyped, User, Roles, NobodyIsAdmin, EnsureAdmin
<1>. QED
  BY <1>1, Invariance, PTL

\* Only a commit changes the world state.
LEMMA WorldStateChanges ==
    ASSUME IInv, [Next]_ledgerVars, worldState' # worldState
    PROVE  \E t \in Txs : Commit(t)
<1>1. Next
  BY DEF ledgerVars
<1>2. PICK t \in Txs : Commit(t) \/ Discard(t) \/ \E tx : Submit(t, tx) /\ Endorsed(tx)
  BY <1>1, NextCases DEF IInv
<1>. QED
  BY <1>2 DEF Discard, Submit

\* A step keeps every committed vote.
LEMMA VotesStayStep ==
    ASSUME IInv, [Next]_ledgerVars, NEW v \in VoteIds, Cast(v)
    PROVE  worldState'[VoteKey(v)] = worldState[VoteKey(v)]
<1>. SUFFICES ASSUME worldState' # worldState
              PROVE  worldState'[VoteKey(v)] = worldState[VoteKey(v)]
  OBVIOUS
<1>1. PICK t \in Txs : Commit(t)
  BY WorldStateChanges
<1>2. VoteKey(v) \notin DOMAIN inflight[t].writes
  BY <1>1 DEF IInv, VoteIdsAreFresh, Commit
<1>. QED
  BY <1>1, <1>2, CommitFacts, KeysTyped DEF IInv

\* A committed vote is never changed or removed.
THEOREM VotesStay == Spec => VotesArePermanent
<1>. DEFINE Kept == \A v \in VoteIds : Cast(v) => worldState'[VoteKey(v)] = worldState[VoteKey(v)]
<1>1. IInv /\ [Next]_ledgerVars => [Kept]_ledgerVars
  BY VotesStayStep
<1>. QED
  BY <1>1, Invariance, PTL DEF Spec, VotesArePermanent

\* A step commits only admissible votes.
LEMMA VotesAllowedStep ==
    ASSUME IInv, [Next]_ledgerVars, NEW v \in VoteIds, ~Cast(v), Cast(v)'
    PROVE  Admissible(worldState'[VoteKey(v)])
<1>1. PICK t \in Txs : Commit(t)
  BY WorldStateChanges DEF Cast
<1>2. VoteKey(v) \in DOMAIN inflight[t].writes
  BY <1>1, CommitFacts, KeysTyped DEF IInv, Cast
<1>3. Proposal(inflight[t])
  BY <1>1 DEF IInv, AllAreProposals, Commit
<1>4. PICK u \in Users, w \in VoteIds, e \in Elections, c \in Candidates :
        VoteProposal(inflight[t], u, w, e, c)
  <2>1. \A e \in Elections : ~ElectionProposal(inflight[t], e)
    BY <1>2, KeysDiffer DEF ElectionProposal
  <2>2. \A e \in Elections : ~TallyProposal(inflight[t], e)
    BY <1>2, KeysDiffer DEF TallyProposal
  <2>3. \A u \in Users : ~UserProposal(inflight[t], u)
    BY <1>2, KeysDiffer DEF UserProposal
  <2>. QED
    BY <1>3, <2>1, <2>2, <2>3, Zenon DEF Proposal
<1>5. w = v
  BY <1>2, <1>4, KeysDiffer DEF VoteProposal
<1>6. /\ CanVote(worldState[ElectionKey(e)], worldState[UserKey(u)], e, c)
      /\ ~Cast(w)
      /\ worldState'[VoteKey(w)] = [voter |-> u, election |-> e, candidate |-> c]
      /\ worldState'[VoteKey(w)] # Nil
      /\ worldState'[UserKey(u)] # Nil
      /\ worldState'[UserKey(u)] = [worldState[UserKey(u)] EXCEPT !.voted = @ \cup {e}]
      /\ \A k \in Keys \ {VoteKey(w), UserKey(u)} : worldState'[k] = worldState[k]
  BY <1>1, <1>4, VoteCommitFacts
<1>7. worldState'[VoteKey(v)] = [voter |-> u, election |-> e, candidate |-> c]
  BY <1>5, <1>6
<1>8. Admissible([voter |-> u, election |-> e, candidate |-> c])
  BY <1>6 DEF Admissible, LiveElections, ActiveUsers, CanVote
<1>. QED
  BY <1>7, <1>8

\* The checks of CastVote hold at the moment the vote commits.
THEOREM VotesWereAllowed == Spec => VotesAreAdmissible
<1>. DEFINE Allowed == \A v \in VoteIds :
                         ~Cast(v) /\ Cast(v)' => Admissible(worldState'[VoteKey(v)])
<1>1. IInv /\ [Next]_ledgerVars => [Allowed]_ledgerVars
  BY VotesAllowedStep
<1>. QED
  BY <1>1, Invariance, PTL DEF Spec, VotesAreAdmissible

\* A commit leaves a user record alone, or it is that of a registration or status
\* change of the user, or of a vote by the user, made from the committed record.
LEMMA UserRecordCommit ==
    ASSUME IInv, NEW t \in Txs, Commit(t), NEW u \in Users
    PROVE  \/ worldState'[UserKey(u)] = worldState[UserKey(u)]
           \/ /\ UserProposal(inflight[t], u)
              /\ inflight[t].reads[UserKey(u)] = worldState[UserKey(u)]
              /\ worldState'[UserKey(u)] = inflight[t].writes[UserKey(u)]
           \/ \E v \in VoteIds, e \in Elections, c \in Candidates :
                VoteProposal(inflight[t], u, v, e, c)
<1>. DEFINE tx == inflight[t]
<1>1. /\ Proposal(tx)
      /\ \A k \in DOMAIN tx.reads : tx.reads[k] = worldState[k]
      /\ \A k \in Keys \ DOMAIN tx.writes : worldState'[k] = worldState[k]
      /\ \A k \in Keys \cap DOMAIN tx.writes : worldState'[k] = tx.writes[k]
  BY CommitFacts DEF IInv, AllAreProposals, ReadsAreCurrent
<1>. HIDE DEF tx
<1>2. UserKey(u) \in Keys
  BY KeysTyped
<1>3. CASE UserKey(u) \notin DOMAIN tx.writes
  BY <1>1, <1>2, <1>3
<1>4. CASE UserKey(u) \in DOMAIN tx.writes
  <2>1. \A e \in Elections : ~ElectionProposal(tx, e)
    BY <1>4, KeysDiffer DEF ElectionProposal
  <2>2. \A e \in Elections : ~TallyProposal(tx, e)
    BY <1>4, KeysDiffer DEF TallyProposal
  <2>3. PICK w \in Users :
          \/ UserProposal(tx, w)
          \/ \E v \in VoteIds, e \in Elections, c \in Candidates : VoteProposal(tx, w, v, e, c)
    BY <1>1, <2>1, <2>2, Zenon DEF Proposal
  <2>4. CASE UserProposal(tx, w)
    <3>1. w = u
      BY <1>4, <2>4, KeysDiffer DEF UserProposal
    <3>. QED
      BY <1>1, <1>2, <1>4, <2>4, <3>1 DEF UserProposal, tx
  <2>5. ASSUME NEW v \in VoteIds, NEW e \in Elections, NEW c \in Candidates,
               VoteProposal(tx, w, v, e, c)
        PROVE  VoteProposal(tx, u, v, e, c)
    <3>1. w = u
      BY <1>4, <2>5, KeysDiffer DEF VoteProposal
    <3>. QED
      BY <2>5, <3>1
  <2>. QED
    BY <2>3, <2>4, <2>5 DEF tx
<1>. QED
  BY <1>3, <1>4

\* A vote that commits marks the committed record of an active user.
LEMMA UserVoteCommit ==
    ASSUME IInv, NEW t \in Txs, Commit(t),
           NEW u \in Users, NEW v \in VoteIds, NEW e \in Elections, NEW c \in Candidates,
           VoteProposal(inflight[t], u, v, e, c)
    PROVE  /\ CanVote(worldState[ElectionKey(e)], worldState[UserKey(u)], e, c)
           /\ worldState'[UserKey(u)] = [worldState[UserKey(u)] EXCEPT !.voted = @ \cup {e}]
           /\ worldState[UserKey(u)] \in User
<1>1. /\ CanVote(worldState[ElectionKey(e)], worldState[UserKey(u)], e, c)
      /\ ~Cast(v)
      /\ worldState'[VoteKey(v)] = [voter |-> u, election |-> e, candidate |-> c]
      /\ worldState'[VoteKey(v)] # Nil
      /\ worldState'[UserKey(u)] # Nil
      /\ worldState'[UserKey(u)] = [worldState[UserKey(u)] EXCEPT !.voted = @ \cup {e}]
      /\ \A k \in Keys \ {VoteKey(v), UserKey(u)} : worldState'[k] = worldState[k]
  BY VoteCommitFacts
<1>2. worldState[UserKey(u)] \in User \cup {Nil}
  BY KeysTyped DEF IInv, TypeOK, WellTyped
<1>3. worldState[UserKey(u)] # Nil
  BY <1>1 DEF CanVote
<1>. QED
  BY <1>1, <1>2, <1>3

\* Every voter has one vote in an election, so votes and their voters are equally many.
LEMMA VotesAndVoters ==
    ASSUME TypeOK, OneVotePerElection, NEW e \in Elections, NEW c
    PROVE  Cardinality(VotesFor(worldState, e, c)) =
               Cardinality({u \in Users : \E v \in VotesFor(worldState, e, c) :
                                              worldState[VoteKey(v)].voter = u})
<1>. DEFINE Votes == VotesFor(worldState, e, c)
            Voters == {u \in Users : \E v \in Votes : worldState[VoteKey(v)].voter = u}
            voterOf == [v \in Votes |-> worldState[VoteKey(v)].voter]
<1>1. \A v \in Votes : /\ v \in VoteIds /\ Cast(v)
                       /\ worldState[VoteKey(v)].election = e
                       /\ worldState[VoteKey(v)].voter \in Users
  <2>1. ASSUME NEW v \in Votes
        PROVE  v \in VoteIds /\ worldState[VoteKey(v)] # Nil /\ worldState[VoteKey(v)].election = e
    BY DEF VotesFor
  <2>2. ASSUME NEW v \in Votes PROVE worldState[VoteKey(v)] \in Vote
    BY <2>1, KeysTyped DEF TypeOK, WellTyped
  <2>. QED
    BY <2>1, <2>2 DEF Cast, Vote
<1>2. Votes \subseteq VoteIds /\ IsFiniteSet(Votes)
  <2>1. Votes \subseteq VoteIds
    BY DEF VotesFor
  <2>. QED
    BY <2>1, FiniteVotes, FS_Subset
<1>. HIDE DEF Votes
<1>3. voterOf \in [Votes -> Voters]
  BY <1>1
<1>4. \A u \in Voters : \E v \in Votes : voterOf[v] = u
  OBVIOUS
<1>5. \A v, w \in Votes : voterOf[v] = voterOf[w] => v = w
  BY <1>1 DEF OneVotePerElection
<1>. HIDE DEF Voters, voterOf
<1>6. voterOf \in Surjection(Votes, Voters) /\ voterOf \in Injection(Votes, Voters)
  BY <1>3, <1>4, <1>5 DEF Surjection, Injection, IsInjective
<1>7. Cardinality(Voters) = Cardinality(Votes)
  BY <1>2, <1>6, FS_Surjection
<1>. QED
  BY <1>7 DEF Votes, Voters

\* A tally that can still commit is the number of voters behind every candidate.
THEOREM TalliesAreVoters == Spec => []TalliesCountVoters
<1>1. IInv => TalliesCountVoters
  <2>. SUFFICES ASSUME IInv, NEW t \in Txs, Pending(t), ~inflight[t].stale,
                       inflight[t].result # Nil,
                       NEW c \in DOMAIN inflight[t].result.tallies
                PROVE  inflight[t].result.tallies[c] =
                         Cardinality({u \in Users :
                           \E v \in VotesFor(worldState, inflight[t].result.election, c) :
                               worldState[VoteKey(v)].voter = u})
    BY DEF TalliesCountVoters
  <2>. DEFINE tx == inflight[t]
  <2>1. PICK e \in Elections : TallyProposal(tx, e)
    BY DEF IInv, AllAreProposals, Proposal, ElectionProposal, UserProposal, VoteProposal
  <2>2. /\ DOMAIN tx.reads = {ElectionKey(e)} \cup VoteKeys
        /\ tx.result.election = e
        /\ tx.result.tallies = CountVotes(tx.reads, e)
    BY <2>1 DEF TallyProposal
  <2>3. \A k \in {ElectionKey(e)} \cup VoteKeys : tx.reads[k] = worldState[k]
    BY <2>2 DEF IInv, ReadsAreCurrent
  <2>. HIDE DEF tx
  <2>4. VotesFor(tx.reads, e, c) = VotesFor(worldState, e, c)
    BY <2>3 DEF VotesFor, VoteKeys
  <2>5. tx.result.tallies[c] = Cardinality(VotesFor(tx.reads, e, c))
    BY <2>2 DEF CountVotes, tx
  <2>6. Cardinality(VotesFor(worldState, e, c)) =
            Cardinality({u \in Users : \E v \in VotesFor(worldState, e, c) :
                                           worldState[VoteKey(v)].voter = u})
    BY VotesAndVoters DEF IInv
  <2>. QED
    BY <2>2, <2>4, <2>5, <2>6 DEF tx
<1>. QED
  BY <1>1, Invariance, PTL

\* What is stored is never removed.
LEMMA NothingIsRemoved ==
    ASSUME IInv, NEW t \in Txs, Commit(t), NEW k \in Keys, worldState[k] # Nil
    PROVE  worldState'[k] # Nil
BY CommitFacts DEF IInv, WellFormed

\* A suspended user has a revocation record.
THEOREM SuspensionsAreRecorded == Spec => []SuspensionIsRecorded
<1>1. Init => SuspensionIsRecorded
  BY KeysTyped DEF Init, SuspensionIsRecorded
<1>2. IInv /\ SuspensionIsRecorded /\ [Next]_ledgerVars => SuspensionIsRecorded'
  <2>. SUFFICES ASSUME IInv, SuspensionIsRecorded, [Next]_ledgerVars, NEW u \in Users,
                       worldState'[UserKey(u)] # Nil,
                       worldState'[UserKey(u)].status = "suspended"
                PROVE  worldState'[RevocationKey(u)] # Nil
    BY DEF SuspensionIsRecorded
  <2>1. CASE worldState' = worldState
    BY <2>1 DEF SuspensionIsRecorded
  <2>2. CASE worldState' # worldState
    <3>1. PICK t \in Txs : Commit(t)
      BY <2>2, WorldStateChanges
    <3>2. CASE worldState'[UserKey(u)] = worldState[UserKey(u)]
      BY <3>1, <3>2, NothingIsRemoved, KeysTyped DEF SuspensionIsRecorded
    <3>3. CASE /\ UserProposal(inflight[t], u)
               /\ worldState'[UserKey(u)] = inflight[t].writes[UserKey(u)]
      <4>1. RevocationKey(u) \in DOMAIN inflight[t].writes
        BY <3>3 DEF UserProposal
      <4>. QED
        BY <3>1, <4>1, CommitFacts, KeysTyped DEF IInv, WellFormed
    <3>4. ASSUME NEW v \in VoteIds, NEW e \in Elections, NEW c \in Candidates,
                 VoteProposal(inflight[t], u, v, e, c)
          PROVE  FALSE
      <4>1. /\ CanVote(worldState[ElectionKey(e)], worldState[UserKey(u)], e, c)
            /\ worldState'[UserKey(u)] = [worldState[UserKey(u)] EXCEPT !.voted = @ \cup {e}]
            /\ worldState[UserKey(u)] \in User
        BY <3>1, <3>4, UserVoteCommit
      <4>2. worldState'[UserKey(u)].status = "active"
        BY <4>1 DEF User, CanVote
      <4>. QED
        BY <4>2
    <3>. QED
      BY <3>1, <3>2, <3>3, <3>4, UserRecordCommit
  <2>. QED
    BY <2>1, <2>2
<1>. QED
  BY <1>1, <1>2, Invariance, PTL DEF Spec

\* What is stored of an election keeps its candidates and governorates.
LEMMA ElectionStaysStep ==
    ASSUME IInv, [Next]_ledgerVars, worldState' # worldState,
           NEW e \in Elections, worldState[ElectionKey(e)] # Nil
    PROVE  /\ worldState'[ElectionKey(e)] # Nil
           /\ worldState'[ElectionKey(e)].candidates = worldState[ElectionKey(e)].candidates
           /\ worldState'[ElectionKey(e)].eligible = worldState[ElectionKey(e)].eligible
<1>1. PICK t \in Txs : Commit(t)
  BY WorldStateChanges
<1>. DEFINE tx == inflight[t]
<1>2. /\ Proposal(tx) /\ WellFormed(tx)
      /\ \A k \in DOMAIN tx.reads : tx.reads[k] = worldState[k]
      /\ \A k \in Keys \ DOMAIN tx.writes : worldState'[k] = worldState[k]
      /\ \A k \in Keys \cap DOMAIN tx.writes : worldState'[k] = tx.writes[k]
  BY <1>1, CommitFacts DEF IInv, AllAreProposals, ReadsAreCurrent
<1>. HIDE DEF tx
<1>3. ElectionKey(e) \in Keys
  BY KeysTyped
<1>4. CASE ElectionKey(e) \notin DOMAIN tx.writes
  BY <1>2, <1>3, <1>4
<1>5. CASE ElectionKey(e) \in DOMAIN tx.writes
  <2>1. \A f \in Elections : ~TallyProposal(tx, f)
    BY <1>5, KeysDiffer DEF TallyProposal
  <2>2. \A u \in Users : ~UserProposal(tx, u)
    BY <1>5, KeysDiffer DEF UserProposal
  <2>3. \A u \in Users, v \in VoteIds, f \in Elections, c \in Candidates :
           ~VoteProposal(tx, u, v, f, c)
    BY <1>5, KeysDiffer DEF VoteProposal
  <2>4. PICK f \in Elections : ElectionProposal(tx, f)
    BY <1>2, <2>1, <2>2, <2>3, Zenon DEF Proposal
  <2>5. f = e
    BY <1>5, <2>4, KeysDiffer DEF ElectionProposal
  <2>. QED
    BY <1>2, <1>3, <1>5, <2>4, <2>5 DEF ElectionProposal, WellFormed
<1>. QED
  BY <1>4, <1>5

\* The ballot of an election and the role and governorate of a user never change.
THEOREM IdentitiesStay == Spec => IdentitiesAreFixed
<1>. DEFINE ElectionsStay ==
              \A e \in Elections :
                LET old == worldState[ElectionKey(e)]
                    new == worldState'[ElectionKey(e)]
                IN  old # Nil => /\ new # Nil
                                 /\ new.candidates = old.candidates
                                 /\ new.eligible = old.eligible
            UsersStay ==
              \A u \in Users :
                LET old == worldState[UserKey(u)]
                    new == worldState'[UserKey(u)]
                IN  old # Nil => /\ new # Nil
                                 /\ new.role = old.role
                                 /\ new.governorate = old.governorate
                                 /\ old.voted \subseteq new.voted
<1>1. IInv /\ [Next]_ledgerVars => [ElectionsStay]_ledgerVars
  BY ElectionStaysStep
<1>2. IInv /\ [Next]_ledgerVars => [UsersStay]_ledgerVars
  <2>. SUFFICES ASSUME IInv, [Next]_ledgerVars, worldState' # worldState,
                       NEW u \in Users, worldState[UserKey(u)] # Nil
                PROVE  /\ worldState'[UserKey(u)] # Nil
                       /\ worldState'[UserKey(u)].role = worldState[UserKey(u)].role
                       /\ worldState'[UserKey(u)].governorate =
                            worldState[UserKey(u)].governorate
                       /\ worldState[UserKey(u)].voted \subseteq worldState'[UserKey(u)].voted
    OBVIOUS
  <2>1. PICK t \in Txs : Commit(t)
    BY WorldStateChanges
  <2>2. worldState'[UserKey(u)] # Nil
    BY <2>1, NothingIsRemoved, KeysTyped
  <2>3. CASE worldState'[UserKey(u)] = worldState[UserKey(u)]
    BY <2>2, <2>3
  <2>4. CASE /\ UserProposal(inflight[t], u)
             /\ inflight[t].reads[UserKey(u)] = worldState[UserKey(u)]
             /\ worldState'[UserKey(u)] = inflight[t].writes[UserKey(u)]
    BY <2>2, <2>4 DEF UserProposal
  <2>5. ASSUME NEW v \in VoteIds, NEW e \in Elections, NEW c \in Candidates,
               VoteProposal(inflight[t], u, v, e, c)
        PROVE  /\ worldState'[UserKey(u)].role = worldState[UserKey(u)].role
               /\ worldState'[UserKey(u)].governorate = worldState[UserKey(u)].governorate
               /\ worldState[UserKey(u)].voted \subseteq worldState'[UserKey(u)].voted
    <3>1. /\ worldState[UserKey(u)] \in User
          /\ worldState'[UserKey(u)] = [worldState[UserKey(u)] EXCEPT !.voted = @ \cup {e}]
      BY <2>1, <2>5, UserVoteCommit
    <3>. QED
      BY <3>1 DEF User
  <2>. QED
    BY <2>1, <2>2, <2>3, <2>4, <2>5, UserRecordCommit
<1>3. IInv /\ [Next]_ledgerVars => [ElectionsStay /\ UsersStay]_ledgerVars
  BY <1>1, <1>2
<1>. QED
  BY <1>3, Invariance, PTL DEF Spec, IdentitiesAreFixed
=============================================================================
