--------------------------- MODULE VotingContract ---------------------------
(***************************************************************************)
(* The voting chaincode (src/chaincode-go/chaincode): elections, users,    *)
(* votes, tallies and revocation records in the world state, and the       *)
(* functions that change them.  Each function is one action: the checks it *)
(* makes on what it reads, and the transaction it proposes.  What it       *)
(* proposes takes effect later, or never (FabricLedger).                   *)
(***************************************************************************)
EXTENDS Naturals, FiniteSets, FabricLedger

CONSTANTS
    Users,          \* identities (the CN of a certificate)
    Elections, Candidates, Governorates,
    VoteIds         \* ids a client can draw for a vote: bounds the votes cast

ASSUME FiniteVotes == IsFiniteSet(VoteIds)

Roles        == {"voter", "election_commission", "auditor"}
UserStatuses == {"active", "suspended"}
Statuses     == {"scheduled", "live", "ended", "published", "cancelled"}

\* The stored records; what no function looks at is left out.
Election == [candidates : SUBSET Candidates, eligible : SUBSET Governorates,
             status : Statuses]
User     == [governorate : Governorates, voted : SUBSET Elections,
             role : Roles, status : UserStatuses]
Vote     == [voter : Users, election : Elections, candidate : Candidates]
Tallies  == UNION {[S -> 0..Cardinality(VoteIds)] : S \in SUBSET Candidates}
Tally    == [election : Elections, tallies : Tallies, isFinal : BOOLEAN]
Revocation == [revokedBy : Users]

ASSUME NilIsNoRecord == Nil \notin Election \cup User \cup Vote \cup Tally \cup Revocation
ASSUME NilIsNoCandidate == Nil \notin Candidates

\* The keys, by prefix.
ElectionKey(e)   == <<"election", e>>
UserKey(u)       == <<"user", u>>
VoteKey(v)       == <<"vote", v>>
TallyKey(e)      == <<"tally", e>>
FinalTallyKey(e) == <<"tally_final_tally", e>>
RevocationKey(u) == <<"revocation", u>>

VoteKeys == {VoteKey(v) : v \in VoteIds}
Keys == {ElectionKey(e) : e \in Elections} \cup {UserKey(u) : u \in Users}
          \cup VoteKeys \cup {TallyKey(e) : e \in Elections}
          \cup {FinalTallyKey(e) : e \in Elections}
          \cup {RevocationKey(u) : u \in Users}

Cast(v) == worldState[VoteKey(v)] # Nil

HasVoted(u, e) ==
    worldState[UserKey(u)] # Nil /\ e \in worldState[UserKey(u)].voted

LiveElections ==
    {e \in Elections : /\ worldState[ElectionKey(e)] # Nil
                       /\ worldState[ElectionKey(e)].status = "live"}

ActiveUsers ==
    {u \in Users : /\ worldState[UserKey(u)] # Nil
                   /\ worldState[UserKey(u)].status = "active"}

\* The ids of the votes for candidate c in election e among the votes of a state.
VotesFor(state, e, c) ==
    {v \in VoteIds : /\ state[VoteKey(v)] # Nil
                     /\ state[VoteKey(v)].election = e
                     /\ state[VoteKey(v)].candidate = c}

-----------------------------------------------------------------------------
(* Elections *)

\* Mutant: no check that the id is unused.
CanCreateAgain(stored, candidates) == candidates # {}

CanCreate(stored, candidates) == stored = Nil /\ candidates # {}

\* The input is stored as given: the application always passes "scheduled"
\* (createElection of ElectionRepository.ts).
CreateElection(t, e, candidates, eligible) ==
    LET reads    == Read({ElectionKey(e)})
        election == [candidates |-> candidates, eligible |-> eligible,
                     status |-> "scheduled"]
    IN  /\ CanCreate(reads[ElectionKey(e)], candidates)
        /\ Submit(t, Transaction(reads, [k \in {ElectionKey(e)} |-> election],
                                 [name |-> "election_created", election |-> e], Nil))

UpdateElectionStatus(t, e, newStatus) ==
    LET reads    == Read({ElectionKey(e)})
        old      == reads[ElectionKey(e)]
        election == [old EXCEPT !.status = newStatus]
    IN  /\ newStatus \in Statuses
        /\ old # Nil
        /\ Submit(t, Transaction(reads, [k \in {ElectionKey(e)} |-> election],
                                 [name |-> "election_status_changed", election |-> e,
                                  from |-> old.status, to |-> newStatus],
                                 Nil))

\* The counts of an election over the range of all votes.  A range read also
\* protects the keys that are absent: the whole range is in the read set.
CountVotes(state, e) ==
    [c \in state[ElectionKey(e)].candidates |-> Cardinality(VotesFor(state, e, c))]

TallyReads(e) == Read({ElectionKey(e)} \cup VoteKeys)

AllVotesOnBallot(state, e) ==
    \A c \in Candidates \ state[ElectionKey(e)].candidates : VotesFor(state, e, c) = {}

\* Mutant: the votes are found by a rich query, which is not validated again.
QueryVoteTally(t, e) ==
    LET reads    == TallyReads(e)
        election == reads[ElectionKey(e)]
        tally    == [election |-> e, tallies |-> CountVotes(reads, e),
                     isFinal |-> election.status = "completed"]
    IN  /\ election # Nil
        /\ AllVotesOnBallot(reads, e)
        /\ Submit(t, Transaction(Read({ElectionKey(e)}), [k \in {TallyKey(e)} |-> election],
                                 [name |-> "tally_computed", election |-> e], tally))

\* The record is written under the tally key and then replaced there by the
\* election: the last write of a transaction to a key is the one that counts.
ComputeVoteTally(t, e) ==
    LET reads    == TallyReads(e)
        election == reads[ElectionKey(e)]
        tally    == [election |-> e, tallies |-> CountVotes(reads, e),
                     isFinal |-> election.status = "completed"]
    IN  /\ election # Nil
        /\ AllVotesOnBallot(reads, e)
        /\ Submit(t, Transaction(reads, [k \in {TallyKey(e)} |-> election],
                                 [name |-> "tally_computed", election |-> e], tally))

ComputeFinalTally(t, e) ==
    LET reads    == TallyReads(e)
        election == reads[ElectionKey(e)]
        tally    == [election |-> e, tallies |-> CountVotes(reads, e), isFinal |-> TRUE]
    IN  /\ election # Nil
        /\ AllVotesOnBallot(reads, e)
        /\ Submit(t, Transaction(reads,
                                 [k \in {TallyKey(e), FinalTallyKey(e)} |->
                                    IF k = TallyKey(e) THEN election ELSE tally],
                                 [name |-> "final_tally_computed", election |-> e],
                                 tally))

-----------------------------------------------------------------------------
(* Users *)

\* Mutant: a status outside the known ones.
NewPendingUser(governorate, role) ==
    [governorate |-> governorate, voted |-> {}, role |-> role, status |-> "pending"]

NewUser(governorate, role) ==
    [governorate |-> governorate, voted |-> {}, role |-> role, status |-> "active"]

\* Mutant: a second registration replaces the first.
CanRegisterAgain(stored, role) == role \in Roles

CanRegister(stored, role) == stored = Nil /\ role \in Roles

RegisterUser(t, u, governorate, role) ==
    LET reads == Read({UserKey(u)})
    IN  /\ CanRegister(reads[UserKey(u)], role)
        /\ Submit(t, Transaction(reads,
                                 [k \in {UserKey(u)} |-> NewUser(governorate, role)],
                                 [name |-> "user_registered", user |-> u], Nil))

\* Mutant: the revocation is never recorded.
StatusWritesOnly(u, status) == {UserKey(u)}

\* recordUserRevocation adds a record when the new status is "suspended".
StatusWrites(u, status) ==
    {UserKey(u)} \cup (IF status = "suspended" THEN {RevocationKey(u)} ELSE {})

MayUpdateStatus(caller) ==
    caller # Nil /\ caller.role \in {"election_commission", "auditor"}

UpdateUserStatus(t, caller, u, status) ==
    LET reads   == Read({UserKey(caller), UserKey(u)})
        user    == [reads[UserKey(u)] EXCEPT !.status = status]
    IN  /\ MayUpdateStatus(reads[UserKey(caller)])
        /\ status \in UserStatuses
        /\ reads[UserKey(u)] # Nil
        /\ Submit(t, Transaction(reads,
                                 [k \in StatusWrites(u, status) |->
                                    IF k = UserKey(u) THEN user
                                                      ELSE [revokedBy |-> caller]],
                                 [name |-> "user_status_updated", userId |-> u,
                                  status |-> status, updatedBy |-> caller],
                                 Nil))

\* ensureAdmin, which SetUserRole and ClearElections begin with.
EnsureAdmin(u) ==
    /\ worldState[UserKey(u)] # Nil
    /\ worldState[UserKey(u)].role = "admin"

-----------------------------------------------------------------------------
(* Votes *)

\* Mutant: only the committed votes are compared with the id.
UncommittedVoteId(v) == ~Cast(v)

\* castVote of vote.controller.ts draws the id with crypto.randomUUID: it is
\* neither committed nor in flight.  CastVote itself does not look.
FreshVoteId(v) ==
    /\ ~Cast(v)
    /\ \A s \in Txs : Pending(s) => VoteKey(v) \notin DOMAIN inflight[s].writes

\* Mutant: the list of elections the user has voted in is not consulted.
CanVoteTwice(election, user, e, c) ==
    /\ election # Nil
    /\ election.status = "live"
    /\ user # Nil
    /\ user.status = "active"
    /\ user.governorate \in election.eligible
    /\ c \in election.candidates

\* Mutant: the election may have any status.
CanVoteAnyTime(election, user, e, c) ==
    /\ election # Nil
    /\ user # Nil
    /\ user.status = "active"
    /\ e \notin user.voted
    /\ user.governorate \in election.eligible
    /\ c \in election.candidates

\* Mutant: the governorate of the user is not looked at.
CanVoteAnywhere(election, user, e, c) ==
    /\ election # Nil
    /\ election.status = "live"
    /\ user # Nil
    /\ user.status = "active"
    /\ e \notin user.voted
    /\ c \in election.candidates

\* Mutant: a suspended user may vote.
SuspendedCanVote(election, user, e, c) ==
    /\ election # Nil
    /\ election.status = "live"
    /\ user # Nil
    /\ e \notin user.voted
    /\ user.governorate \in election.eligible
    /\ c \in election.candidates

CanVote(election, user, e, c) ==
    /\ election # Nil
    /\ election.status = "live"
    /\ user # Nil
    /\ user.status = "active"
    /\ e \notin user.voted
    /\ user.governorate \in election.eligible
    /\ c \in election.candidates

CastVoteReads(u, e) == Read({ElectionKey(e), UserKey(u)})

\* Mutant: the list is replaced instead of appended to.
MarkOnly(user, e) == [user EXCEPT !.voted = {e}]

MarkVoted(user, e) == [user EXCEPT !.voted = @ \cup {e}]

CastVote(t, u, v, e, c) ==
    LET reads == CastVoteReads(u, e)
        vote  == [voter |-> u, election |-> e, candidate |-> c]
        user  == MarkVoted(reads[UserKey(u)], e)
    IN  /\ FreshVoteId(v)
        /\ CanVote(reads[ElectionKey(e)], reads[UserKey(u)], e, c)
        /\ Submit(t, Transaction(reads,
                                 [k \in {VoteKey(v), UserKey(u)} |->
                                    IF k = VoteKey(v) THEN vote ELSE user],
                                 [name |-> "vote_cast", id |-> v, vote |-> vote],
                                 Nil))

-----------------------------------------------------------------------------
Init ==
    /\ worldState = [k \in Keys |-> Nil]
    /\ inflight = [t \in Txs |-> Nil]

ElectionCall(t) ==
    \E e \in Elections :
        \/ \E candidates \in SUBSET Candidates, eligible \in SUBSET Governorates :
              CreateElection(t, e, candidates, eligible)
        \/ \E status \in Statuses : UpdateElectionStatus(t, e, status)
        \/ ComputeVoteTally(t, e)
        \/ ComputeFinalTally(t, e)

UserCall(t) ==
    \E u \in Users :
        \/ \E g \in Governorates, role \in Roles : RegisterUser(t, u, g, role)
        \/ \E caller \in Users, status \in UserStatuses :
              UpdateUserStatus(t, caller, u, status)
        \/ \E v \in VoteIds, e \in Elections, c \in Candidates : CastVote(t, u, v, e, c)

Next == \E t \in Txs : ElectionCall(t) \/ UserCall(t) \/ Commit(t) \/ Discard(t)

Spec == Init /\ [][Next]_ledgerVars
-----------------------------------------------------------------------------
(* Properties *)

\* The values a partial function on the keys may hold.
WellTyped(f) ==
    /\ DOMAIN f \subseteq Keys
    /\ \A e \in Elections :
        /\ ElectionKey(e) \in DOMAIN f => f[ElectionKey(e)] \in Election \cup {Nil}
        /\ TallyKey(e) \in DOMAIN f => f[TallyKey(e)] \in Election \cup {Nil}
        /\ FinalTallyKey(e) \in DOMAIN f => f[FinalTallyKey(e)] \in Tally \cup {Nil}
    /\ \A u \in Users :
        /\ UserKey(u) \in DOMAIN f => f[UserKey(u)] \in User \cup {Nil}
        /\ RevocationKey(u) \in DOMAIN f => f[RevocationKey(u)] \in Revocation \cup {Nil}
    /\ \A v \in VoteIds : VoteKey(v) \in DOMAIN f => f[VoteKey(v)] \in Vote \cup {Nil}

WellFormed(tx) ==
    /\ DOMAIN tx = {"reads", "writes", "event", "result", "stale"}
    /\ WellTyped(tx.reads)
    /\ WellTyped(tx.writes)
    /\ \A k \in DOMAIN tx.writes : tx.writes[k] # Nil
    /\ tx.result \in Tally \cup {Nil}
    /\ tx.stale \in BOOLEAN

\* Every stored and every proposed value has the shape of its key's record.
TypeOK ==
    /\ DOMAIN worldState = Keys
    /\ WellTyped(worldState)
    /\ DOMAIN inflight = Txs
    /\ \A t \in Txs : Pending(t) => WellFormed(inflight[t])

\* A voter has at most one committed vote in an election, however many calls of
\* CastVote are in flight for that voter at once (vote_operations.go:62).
OneVotePerElection ==
    \A v, w \in VoteIds :
        /\ Cast(v) /\ Cast(w)
        /\ worldState[VoteKey(v)].voter = worldState[VoteKey(w)].voter
        /\ worldState[VoteKey(v)].election = worldState[VoteKey(w)].election
        => v = w

\* A user is marked as having voted in exactly the elections that hold a vote of
\* theirs: no status change, registration or second vote in flight at the same
\* time drops a mark or leaves one without its vote (vote_operations.go:101-125).
VotedMarksMatchVotes ==
    \A u \in Users, e \in Elections :
        HasVoted(u, e) <=> \E v \in VoteIds : /\ Cast(v)
                                              /\ worldState[VoteKey(v)].voter = u
                                              /\ worldState[VoteKey(v)].election = e

\* A suspended user has a revocation record, whichever calls of UpdateUserStatus
\* for that user were in flight together (user_operations.go:211-218).
SuspensionIsRecorded ==
    \A u \in Users :
        worldState[UserKey(u)] # Nil /\ worldState[UserKey(u)].status = "suspended"
        => worldState[RevocationKey(u)] # Nil

\* No sequence of calls gives anyone the role that SetUserRole and ClearElections
\* ask of their caller: both refuse every call (auth_utils.go:33, user_operations.go:25).
NobodyIsAdmin == \A u \in Users : ~EnsureAdmin(u)

\* A tally that can still commit counts, for every candidate, the voters whose
\* committed vote is for that candidate, although the votes were read before the
\* transaction was ordered; whoever asks for one, the scheduler or an auditor while
\* the election is live (election_operations.go:116-148).
TalliesCountVoters ==
    \A t \in Txs : Pending(t) /\ ~inflight[t].stale /\ inflight[t].result # Nil =>
        LET tally == inflight[t].result
        IN  \A c \in DOMAIN tally.tallies :
                tally.tallies[c] =
                    Cardinality({u \in Users : \E v \in VotesFor(worldState, tally.election, c) :
                                                  worldState[VoteKey(v)].voter = u})

\* The vote may be cast now.
Admissible(vote) ==
    LET election == worldState[ElectionKey(vote.election)]
        user     == worldState[UserKey(vote.voter)]
    IN  /\ vote.election \in LiveElections
        /\ vote.voter \in ActiveUsers
        /\ vote.election \notin user.voted
        /\ user.governorate \in election.eligible
        /\ vote.candidate \in election.candidates

\* A vote enters the world state only while its election is live, for a candidate
\* of that election, and from a user who at that moment is active, lives in an
\* eligible governorate and has not voted: the checks of CastVote hold when the
\* vote commits, not only when it was endorsed (vote_operations.go:31-82).
VotesAreAdmissible ==
    [][\A v \in VoteIds :
         ~Cast(v) /\ Cast(v)' => Admissible(worldState'[VoteKey(v)])]_ledgerVars

\* A committed vote is never changed or removed.  CastVote writes its key without
\* reading it (vote_operations.go:108), so this rests on fresh ids.
VotesArePermanent ==
    [][\A v \in VoteIds : Cast(v) => worldState'[VoteKey(v)] = worldState[VoteKey(v)]]_ledgerVars

\* The candidates and eligible governorates of an election, and a user's role and
\* governorate, never change once stored: concurrent calls for one new id do not
\* replace each other's record (election_operations.go:77, user_operations.go:20).
IdentitiesAreFixed ==
    [][/\ \A e \in Elections :
            LET old == worldState[ElectionKey(e)]
                new == worldState'[ElectionKey(e)]
            IN  old # Nil => /\ new # Nil
                             /\ new.candidates = old.candidates
                             /\ new.eligible = old.eligible
       /\ \A u \in Users :
            LET old == worldState[UserKey(u)]
                new == worldState'[UserKey(u)]
            IN  old # Nil => /\ new # Nil
                             /\ new.role = old.role
                             /\ new.governorate = old.governorate
                             /\ old.voted \subseteq new.voted]_ledgerVars

-----------------------------------------------------------------------------
(* What the contract implements *)

VotesOf(u, e) ==
    {v \in VoteIds : /\ Cast(v)
                     /\ worldState[VoteKey(v)].voter = u
                     /\ worldState[VoteKey(v)].election = e}

ChoiceOf(u, e) ==
    IF VotesOf(u, e) = {} THEN Nil
    ELSE worldState[VoteKey(CHOOSE v \in VotesOf(u, e) : TRUE)].candidate

DeclaredResult(e) ==
    IF worldState[FinalTallyKey(e)] = Nil THEN Nil
    ELSE worldState[FinalTallyKey(e)].tallies

Abstract == INSTANCE Ballot WITH
    None     <- Nil,
    ballot   <- [u \in Users |-> [e \in Elections |-> ChoiceOf(u, e)]],
    open     <- LiveElections,
    electors <- ActiveUsers,
    declared <- [e \in Elections |-> DeclaredResult(e)]

\* The contract is a ballot box: whatever is endorsed, ordered, invalidated or
\* lost, what is committed changes as Ballot allows, and a final tally counts the
\* voters behind every candidate (vote_operations.go:15, update_election_status.go:72).
ImplementsBallot == Abstract!Spec
=============================================================================
