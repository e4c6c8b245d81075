# Verification of nody-fabric

nody-fabric is an electronic voting application. Elections, users and votes are
records of a Hyperledger Fabric ledger, changed by a Go chaincode; a TypeScript
server runs the life of every election, serves the voters and officials, and
mirrors the ledger into MongoDB. This directory holds TLA+ modules translated
from that code, the TLC configurations that check them and TLAPS proofs about
them. `PROJECT.json` lists the components, the runs, the variant definitions
every property is tested with, the source lines behind every definition, the
hazards and the theorems.

To check a run: `tlc -workers 2 -config MCVoting.cfg MCVotingContract`.
To check the proofs: `tlapm X_proofs.tla`, for X each of `VotingContract`, `Ballot`,
`ElectionScheduler`, `VotingSystem`, `Answers`, `Accounts`, `Secrets`, `Services`.

## 1. The system

| component | state it keeps | operations | talks to |
|---|---|---|---|
| voting chaincode (`chaincode-go/chaincode`) | world state: elections, users, votes, tallies, revocations | CreateElection, UpdateElectionStatus, ComputeVoteTally, ComputeFinalTally, RegisterUser, UpdateUserStatus, SetUserRole, ClearElections, CastVote, queries | called through the ledger; emits one event per transaction |
| ledger (Fabric, external) | committed values, transactions between endorsement and commit | endorse, order, validate, commit or invalidate | the server awaits its answers; events go to the listener |
| election scheduler (`election-scheduler.service.ts`) | nothing of its own; local variables of running calls | `processElections` every minute, `publishElectionResults` | submits status updates and tallies, writes `VoteTally` |
| event listener (`fabric-event.service.ts`) | position in the event stream; MongoDB documents Vote, VoteTally, AuditEvent | one handler per chaincode event | reads the ledger when it creates a tally |
| election, vote, audit, analytics controllers | analytics cache, Feedback and Analytics documents | create, vote, publish, recalculate, feedback, analytics | ledger, MongoDB |
| registration, invitations, revocation (`auth.controller.ts`, `users.controller.ts`, `invitation.service.ts`) | User and InvitationCode documents | register, reRegister, loginWithPhone, revokeUser, generate and use a code | certificate authority, wallet, ledger, MongoDB |
| remote signing (`fabric.ts`, `socket-io.service.ts`) | rooms of the sockets, table of pending handlers | request, answer, timeout | a signing client by socket.io |
| secrets (challenges, one-time codes, face verification) | in-memory maps with expiry | issue, verify, resend | SMS service, recognition server |
| wallet (`identityManager.ts`) | certificate and key files | enroll, save, load, revoke | certificate authority |

What is hard in it:

- *Endorse, then commit.* A chaincode function reads when it is endorsed and
  writes when its transaction commits, seconds later, with other transactions in
  between. Only the validation of the read set stands between two votes of one
  user, or between a vote and the end of its election.
- *Awaits.* The scheduler and the listener await the ledger and MongoDB between
  every two steps, both write the same tally document, the timer starts a
  call while another runs, and every await may throw at a deadline although the
  transaction behind it still commits.
- *Events.* Delivered in order while the stream holds, and not at all for what
  commits while it is broken. A handler takes up to four awaits.
- *Four stores for one person.* A registration writes the invitation, the
  administrator's files, the certificate authority, the user's files, MongoDB and
  the ledger one after the other, and undoes nothing when it fails in between; a
  revocation goes through most of them again in another order.
- *State in memory.* Handlers, secrets and cached analytics live in maps of the
  process, are changed by whoever comes first, and outlive what they were made from.
- *Crashes.* A restart keeps the ledger, the orderer's queue and MongoDB, and
  drops every call and handler under way; before it serves again, the process
  enrolls the administrator for itself.

What makes each part correct:

- chaincode: one vote per voter and election, for a live election, an active and
  eligible voter and a candidate on its ballot, at the moment of the commit;
  votes never change; identities never change; tallies count voters;
- scheduler: elections open and close on time and for good; the counts saved at
  the end are complete; only ended elections are published;
- listener: documents are copies of committed votes; the live count never
  exceeds them and is exact when nothing has failed; a count once shown is never
  taken back;
- registration and revocation: one identity on the ledger per national id (except
  for the values of section 3, `unique_ids`); a document for everybody on the
  ledger, never behind it; officials only by invitation; whoever is active on the
  ledger can sign and can log in again;
- remote signing: a handler for exactly the requests that wait; every request ends;
- secrets: a secret is accepted once, before its expiry, while it is the newest of
  its owner; the code stored for a number is the newest one;
- answers and analytics: nothing that is answered contradicts the ledger; a recount
  differs from the document by the votes that came in between and by nothing else;
  figures describe one set of votes in all their parts.

## 2. The modules

    Ballot                      what the chaincode promises, without keys or transactions
      ^ refinement
    FabricLedger -> VotingContract -> VotingInvariant -> VotingContract_proofs -> Ballot_proofs
                          |                 |                   |                      |
                          |                 v                   v                      |
                          +-> ElectionScheduler -> SchedulerInvariant -> ElectionScheduler_proofs
                          |         |                     |                      |     |
                          |         v                     v                      v     v
                          |    VotingSystem -----> MirrorInvariant ------> VotingSystem_proofs
                          |         |                     |                      |
                          |         +-> Answers -> FaultFree -> Recounts -> Answers_proofs
                          |
                          +-> Accounts -> AccountsInvariant -> Accounts_proofs

    SingleUse                   what challenges and secrets promise
      ^ refinement
    Secrets --------------> Services -> Services_proofs
      |                        ^             ^
      +-> Secrets_proofs ------|-------------+
    RemoteSigning -------------+
    Insight -> InsightInvariant   feedback and analytics of one election

    MCVotingContract, MCElectionScheduler, MCVotingSystem (of Recounts), MCAccounts,
    MCServices (of Services): what TLC runs

### FabricLedger (external)

The platform as the application uses it. `worldState` maps keys to committed
values; `inflight` holds the transactions between endorsement and commit, in the
places `Txs`. `Submit` is an endorsed proposal handed to the orderer, `Commit` a
transaction that passes validation, `Discard` one that does not or is lost. A
transaction becomes stale when another one commits a write to a key that it read:
the platform's comparison of key versions without the version numbers, so the
state space stays finite without a bound on the number of transactions. A range
read puts the whole range in the read set, which is the platform's protection
against phantoms. A transaction need not be stale to be discarded.

### VotingContract

One action per chaincode function. A function whose checks fail proposes nothing
and has no effect, so its checks are the guards. Each action reads, with `Read`,
the keys the code reads, computes the writes from what it read and submits both
together with the event (the last `SetEvent` of the function) and the result.

- Records keep the fields that a check, a count or a property looks at. Names,
  texts, times, images and receipts are left out; a list of voted elections is a
  set, since `CastVote` never appends an element twice.
- `ComputeVoteTally` writes the tally and then the election under the tally key
  (lines 176 and 201); the last write wins and the model has only that one.
- `CreateElection` stores the status of its input. Every caller passes
  `scheduled` (ElectionRepository.ts:89), so the model stores that.
- `SetUserRole` and `ClearElections` begin with `ensureAdmin`. The theorem
  `NoAdministrators` shows that it refuses every call, so their bodies, which
  never run, are not modelled.
- `InitLedger` is never called by the application. It stores a status that
  UpdateElectionStatus does not accept and that no function looks for.
- A function calls `time.Now()` on every endorsing peer. Where the answers
  differ the endorsements differ, the call fails and nothing changes.
- `FreshVoteId` says of ids drawn with `crypto.randomUUID()` (vote.controller.ts:23)
  that they do not repeat. The chaincode itself does not look.

### ElectionScheduler

`ticks` holds the running calls of `processElections`, `requests` the publish
requests being served; each is a record of the await it is at (`step`), what it
still has to do and the transaction it waits for. One action per await:

| code | action |
|---|---|
| the clock and `getAllElections` (l.60-61), and the choice of what to do | `StartTick`, `Due` |
| `await updateElectionStatus` (l.71, 78) | `TickUpdates`, answered by `CommitTx`, `DiscardTx` |
| `await computeVoteTally` (l.83) | `TickTallies`, answered likewise |
| `await VoteTallyModel.updateOne` (l.93) | `TickSaves` |
| an await that throws (l.100) | `TickFails`; a submitted transaction stays in flight |
| controller, l.247-274 | `AskPublish` |
| `publishElectionResults` (l.112, 120) | `CheckPublish`, `Publish` |
| the answer, an error or a lost connection | `EndRequest` |

Time is two sets: the elections whose start time and end time have come.
`createElection` compares neither with the other nor with the present, so they
come in either order. `ClientCall` is everything else that reaches the chaincode:
elections are created, with a candidate and a governorate at least, users registered
and suspended, votes cast, tallies recalculated. `UpdateElectionStatus` is not among them: the scheduler and the
publish request are its only callers in the application.

A query is answered from the latest committed state, and the clock is read
together with it (the code reads it just before). The order of the loop is
arbitrary, since the keys of elections end in random ids. Two calls overlap when
one takes longer than the minute between them: one election alone may take
30 s to endorse, 10 s to submit and 120 s to commit (fabric.ts:193-204).

### VotingSystem

Adds the listener: `connected` and `stream` (the events under way), `handler`
(the event being handled and its next await), `voteDocs`, `audits`, and shares
`tallyDocs` with the scheduler. `SystemCommit` appends the event of the
transaction to the stream if there is one; `Disconnect` drops it; the checkpointer
passed to `getChaincodeEvents` is never moved, so `Connect` resumes at the
present. `CreateVote`, `IncrementTally`, `CreateTally` and `CreateAudit` are the
awaits of the handlers, `HandlerFails` an await that throws (`AfterError`:
updateVoteTally catches its own errors, so the audit follows), `Restart` a stop and start of the
process. `total_votes` is left out: every write keeps it the sum of the counts.
An await that throws is taken to have had no effect.

### Answers

What the server answers from that state: elections and tallies
(election.controller.ts), votes, receipts and verification (vote.controller.ts),
audited events, the activity of a voter and the comparison that recalculateTally
makes (audits.controller.ts). Each request reads and changes nothing, so each is
an operator. Who may ask is modelled where the answer depends on it. `Details`
gives an audit document the fields that the handler finds in the payload; what is
undefined there is not stored, which is why an event about a status names no user.

### Recounts

The recount an auditor asks for, beside everything FaultFree has. `recalculateTally`
awaits the commit of a tally (l.136-139), `AskRecount` answered by `RecountAnswered` or
`RecountRefused`, and only then reads the document (l.142) and compares: `EndRecount`,
in any later state. `counted` remembers the votes that were committed when the tally was;
it is there for the properties and nothing else reads it.

### FaultFree

VotingSystem with one more variable, `faulty`, that remembers whether an await of the
listener failed, the process stopped, the stream broke or a transaction committed while
nobody listened. No step depends on it (`FaultFreeIsSystem`). With it one can say what
the listener owes as long as nothing failed: `CaughtUpAnswersAreExact`. The module also
holds the inductive invariant behind that property.

### Accounts

A person is spread over four stores: `userDocs` (MongoDB), `authority` (the
certificate authority), `wallet` (certificate and key files) and the user record
of the ledger, in `worldState` of VotingContract. `registrations` holds the call
of `register` that drew a user id, `revocations` the calls of `revokeUser`:

| code | action |
|---|---|
| `findUserByNationalId`, and the drawing of the id (auth.controller.ts:59-67) | `Register` |
| `findUserByPhone` (l.69) | `CheckPhone` |
| `validateAndUseCode`: find, then save (invitation.service.ts:51-86) | `FindCode`, `UseCode` |
| `enrollAdmin`: load, or enroll and write two files (identityManager.ts:43-130) | `EnrollAdmin`, `EnrollNewAdmin`, `SaveAdminFile` |
| `registerUser`, `enrollUser` (l.132-177) | `RegisterAtCA`, `EnrollAtCA`, `SaveFile` |
| `validate` and `save` of the document (auth.controller.ts:118-143) | `SaveUser` |
| `registerUser` on the ledger (l.145) | `RegisterOnLedger`, answered by `AccountCommit`, `AccountDiscard` |
| any await that throws (l.164) | `RegisterFails`; a submitted transaction stays in flight |
| `updateUserStatus` of the document (users.controller.ts:142) | `SuspendInDatabase` |
| `updateUserStatus` on the ledger (l.151) | `SuspendOnLedger`, answered likewise |
| `revokeUserCertificate` (identityManager.ts:253-288) | `RevokeAtCA`, `RemoveFiles` |
| an error answered or logged | `RevokeFails` |
| `createServerApp` up to the first request (server.ts:62-66, 110-113) | `StartAdmin`, `StartEnrolls`, `StartSavesFile`, `StartFails` |
| the process stops (server.ts:96-108) and starts again | `AccountRestart` |

User ids are drawn at random and never repeat, so a call of `register` is known by
its id. A national id and a phone number are members of sets; a document has their
hashes, by which it is looked up and by which it is unique (`UniqueHash`, `Unique`).
SHA-256 is taken to be injective. `HashLike` are the values that start with `$2`:
the model of a user takes them for hashes, so they pass the format checks and are
stored without a unique hash (user.model.ts:63, 103, 195, 208), and neither the sparse
indexes nor the look-ups see them. Of the format checks nothing else is modelled,
and blanks around a value, which MongoDB trims, are left out. `Login` and `ReRegister`
are the answers that lead a person back to the account.

The two files of an enrollment are written in parallel, and `Promise.all` answers with
the first error while the other write may go on: a call that fails there may leave the
write of the other file behind, and that file is written at any later time or never
(`late_admin`, `late_files`, `Left`). The write of one file is taken to be atomic, and a
write that throws to have had no effect. Nothing is undone.

### RemoteSigning

`calls` are the promises of requestRemoteSignature, `handlers` the table of
socket-io.service.ts, `asked` and `answers` the messages under way. A request is
sent to every socket, not only to those of the user, so `Answer` comes from any
client. `Settle` is a promise: the first outcome counts.

### Secrets, SingleUse

`store` is the challenge store and the two secret stores, keyed by user, number
or the secret itself. Expiry is a state of the entry, looked at when it is used. A
value that is drawn is new. `uses` counts acceptances, `logins` remembers who was given
a token for an accepted challenge, `newest` the code last drawn for a number: all three
are there for the properties and nothing else reads them. A signature is known by what
`crypto.verify` says of it; `VerifyChallenge` consumes the challenge first and branches
on that verdict as the code does (auth.controller.ts:393). A failed SMS deletes the entry of the number, whichever code it holds by then;
this is part of `SmsFails`, and a number left without a code is a possible outcome.
The secret that verifyOtp issues is drawn and kept, but no code validates it
(`validateSecret` of otp-verification.service.ts has no caller). The guess of a
one-time code is left out: `VerifyOtp` is the right code.

`ImplementsSingleUse` maps an owner to its secret if it is there and not expired;
issuing, accepting and lapsing are the three abstract steps.

### Insight

`mirrored` are the votes with a document, by voter; `feedbacks` and `readings` are
the calls of submitVoterFeedback and getElectionAnalytics, one action per await;
`saved` is the analytics document, `cache` the entry in memory. A calculation takes
the votes once and reads feedback vote by vote. The schema of the document has no
field for the youngest group, so `Stored` drops that count. `AgeGroup` is the
classification in analytics.controller.ts, `getAgeGroup` the one of nationalId.utils.ts,
against which the properties compare it.

### Services

RemoteSigning, Secrets and Insight as parts of one server process: each moves on its
own, and `ServerRestart` stops all three at once. They share no state.

### Ballot

What a voter is promised: one choice per election, made while it is open, kept
for ever; a declared result counts the voters. `ImplementsBallot` maps the
contract to it: a ballot is the committed vote, the open elections are the live
ones, the electors are the active users, the declared result is the committed
final tally.

### VotingInvariant, SchedulerInvariant, MirrorInvariant, AccountsInvariant, InsightInvariant

The inductive invariants, in modules of their own so that both TLC and the proofs
use them (section 5). Those of RemoteSigning and Secrets are short and stand in these
modules, that of FaultFree likewise.

Definitions marked "Mutant" in a comment are not part of a model: each is the
variant of a definition that a plausible mistake would give. Substituted for
that definition it makes a run report a violation, which shows that the property
can fail (`mutants` in PROJECT.json names the pairs).

## 3. The runs

| run | bounds | shows |
|---|---|---|
| `contract` | all calls and arguments; 1 user, election, candidate, governorate, vote; 2 transactions | shapes, fixed identities, admissible votes, refinement of `Ballot` |
| `voting` | 2 users, 2 created elections, 2 votes, 1 candidate; 2 transactions | the inductive invariant, one vote, marks, revocations, admissible and permanent votes |
| `scheduler` | 1 of each, 2 transactions, 1 call, 1 publish request, from the empty ledger | closed for good, complete counts, published from ended, the inductive invariant |
| `scheduler_progress` | 2 elections, 2 overlapping calls, 1 transaction, fairness | elections close, none early |
| `final_tally` | 1 election, 1 call, fairness | *violation*: ended without counts for ever |
| `publish_ended` | 1 election, 2 overlapping calls, 1 request, 2 transactions | *violation*: a live election is published |
| `mirror` | 2 users, votes, candidates, 1 election, 2 transactions, 1 call, 1 recount, stream of 2 | documents, live counts, no count taken back, tallies, answers, recounts, the inductive invariants |
| `published_tally` | 1 user and vote, 1 call, 1 request, 2 transactions, stream of 2 | *violation*: a published count has a vote twice |
| `accounts` | 2 users, 2 persons and 2 phones, one of each like a hash, 1 governorate, 1 code, 1 revocation, 1 transaction | one identity per person, documents ahead of the ledger, the way back in, invitations, the administrator's wallet, the inductive invariant |
| `services` | 2 signers, clients and requests; 1 account, 1 number, 3 secrets, 2 codes; 2 voters and candidates, 2 calls at once | handlers, every request ends, single use, newest code, analytics, feedback, the inductive invariants |
| `unique_ids` | 2 users, 2 phones, 1 person like a hash and 1 other, no codes or revocations | *violation*: one national id is saved for two users |
| `signed_logins` | 1 account, 1 challenge | *violation*: who signs is refused, who does not gets the token |

Why the bounds are enough. A conflict is between two transactions, and a third one
adds only what the first two can do to it one after the other; two places also give
one transaction in flight while any number commit, since places are reused and
nothing counts how often. Two users and two elections are needed to confuse one
with another; two votes for a second vote and for counts other than 0 and 1. In
`contract` the arguments are complete and the sets small, in `voting` the sets are
larger and the arguments those that matter: both roles
that may suspend pass the same test, so one stands for both. `mirror` starts with
registered voters and a live election, since how one opens is what the two runs of
the scheduler are about, and has one election because the
listener's steps look at one at a time. With a stream of 2 events wait behind
the one that is handled. Of the recounts it keeps those of a live election with which
nothing has failed so far (`RecountMatters`), the only ones `DiscrepanciesAreNewVotes`
says anything about; their tallies stay in flight, live votes commit meanwhile and
make them stale, which is the case `TalliesCountVoters` is about. `scheduler_progress` has no votes or publish requests:
neither writes `scheduled` or `live`, the only states this property can hang in,
and its start, one scheduled election each, is where every election starts.

In `accounts` two registrations are enough to compete for a person, a phone number,
a code, the place of a transaction or the administrator's files, with each other and
with the server that starts, and one of them has to become an official before the
revocation can start. No form has both a person and a phone that look like hashes
(`SomeForms`): such a user is in no index, nothing is claimed of either value, and its
steps are those of the others. Nor has one with such a phone an invitation code: the
other user, whose person looks like a hash, is the official. The run has nine hundred
thousand states. One transaction in
flight at a time: the interleavings of transactions on user records are those of
`contract` and `voting`, and a transaction whose caller gave up still commits.
`services` checks three modules that share no state in one run: a behaviour moves
one of them, chosen at the start (`part`), and may stop all of them. Two requests with two clients give
answers that come twice, late and crossed; three secrets let one be replaced after
another was used; `OverlapBound` = 2 lets two calculations, two feedbacks, or one
of each interleave. The ages 17 and 25 meet the group that is not saved and one that
is; the theorem `AgeGroupsAgree` compares the two classifications for every age.

Deadlock is checked in every run but `services` and `signed_logins`, which may run out
of requests and secrets to draw.

### Fairness

`Fairness` of ElectionScheduler is what the deployment gives:

- the timer fires every minute and every await has a deadline (fabric.ts:193-204
  for the ledger, the driver's for MongoDB), so a call of `processElections` moves
  on or is given up: weak fairness of `ProcessElections(p)`, which includes
  `TickFails`;
- a transaction with the orderer is committed or dropped: weak fairness of
  `CommitTx \/ DiscardTx`;
- endorsing and committing a status update does not fail each time it is tried
  again: strong fairness of `TickUpdates` and `CommitElection`. It may fail any
  finite number of times.

No fairness is assumed of voters, publish requests, or the passing of time.

`SigningFairness` is weak fairness of `Timeout`: a timer that was set goes off. It is
all that `RequestsEnd` needs; clients and messages owe nothing.

### What the violations say

- `final_tally`: ending an election is three awaits. After a failure in between
  the election is `ended`, and no later call looks at it. Its document keeps the
  listener's live count, or does not exist.
- `publish_ended`: two calls overlap. The first opens and ends an election
  while the second still holds a reading in which it was scheduled. A publish
  request finds it ended; the second call sets it live; the publish update,
  which checks no old status, commits. One call at a time is enough for a
  published election to fall back to `ended`, when the first update timed out at
  the client and commits late; and that is as far as it goes: `ClosedForGood`
  holds in `scheduler`.
- `published_tally`: the final counts are a `$set` of what the ledger holds, and
  the listener's `$inc` for a vote event still under way counts that vote again.
  This is why `LiveTallyNeverOvercounts` is about live elections only, and why
  `SavedTallyIsComplete` is checked and proved in the module without the listener.
- `unique_ids`: a national id that starts with `$2` is stored without its hash, so the
  index that should refuse the second document has neither of them, and the look-up of
  `register` finds none. The comment at auth.controller.ts:107 relies on that index.
  The same holds for phone numbers. This is why `OneIdentityPerPerson` and the way
  back in `ActiveUsersCanReturn` except such values, and the run `accounts` has one of
  each kind, to show that nobody else is affected.
- `signed_logins`: the branch at auth.controller.ts:393 refuses a signature that verifies
  and goes on to the token with one that does not, against the comment at line 403. The
  challenge is spent either way.

Three differences are plain from the definitions, on every call, and have no run:

- `ComputeVoteTally` saves the tally under its key ("Save tally to state",
  election_operations.go:170) and then the election under the same key (line 201): what
  is stored is the election. `ComputeFinalTally`, which nothing calls, would save the
  counts.
- The activity of a voter is to have "registration, voting, and any status changes"
  (audits-api.md:7). Registrations and status changes are audited with the field
  `user_id` or none at all (`Details`), and the activity is looked up by `voter_id`,
  which only vote events have; these are then filtered out. `AnswersAreBacked` and
  `CaughtUpAnswersAreExact` say what does hold of the activity: it lists each vote once,
  and all of them when nothing has failed.
- A failed SMS deletes the stored code of its number, even if that is the newer code of
  another request (twilio.service.ts:96), and two registrations that are under way
  together may both use one invitation code (invitation.service.ts:51-78). The models
  have both; nothing in the repository promises otherwise. `NewestCodeIsStored`
  therefore ends its promise with a failed call, and `OfficialsWereInvited` says that an
  official used a code of that role, not that nobody else did.

## 4. Assumptions on the constants

`FiniteVotes`: the ids of votes are a finite set, so that counts are numbers.
`NilIsNoRecord`, `NilIsNoStatus`, `NilIsNoPlace`: the value for "absent" is not a
record, a status or a place for a transaction; `NilIsNoAccount`, `EmptyIsNoEntry`:
nor a document, a hash, a call or a secret. `NilIsNoCandidate`: nor a choice, so that who has
chosen nothing supports nobody. `NilIsNoTally`, `NilIsNoHandler`: nor a document of
counts or an event in hand. `AbsentIsNoRating`: nor a rating. `VotersAreFinite`: those who
vote in an election are a finite set. `StreamIsBounded`: the bound of the stream is a
number. `CodesAreNoValues`: one-time codes are not
secrets. `RatingsRange`, `PeopleAreVoters`: ratings are 1 to 5, and every voter
has an age, a place and a choice. TLC evaluates them all.

Two conditions are hypotheses of theorems instead, since not every instance meets
the first and TLC cannot evaluate the second:

- `OneAtATime`: calls of `processElections` do not overlap (one place in `Ticks`).
  The run `publish_ended` shows what happens without it;
- `NilIsNoTransaction`: "absent" is not a record with the fields of a transaction,
  so that a place that holds a transaction is seen to be taken. The theorems about
  Accounts and about the answers, some of those about the scheduler and the listener
  need it.

## 5. What is proved

`VotingContract_proofs` proves, for any sets of users, elections, candidates and
governorates, any finite set of vote ids and any number of transactions in flight:

| theorem | property |
|---|---|
| `Invariance` | `IInv` always holds |
| `TypeCorrect` | `TypeOK` |
| `AtMostOneVote` | `OneVotePerElection` |
| `MarksMatchVotes` | `VotedMarksMatchVotes` |
| `NoAdministrators` | `NobodyIsAdmin` |
| `VotesStay` | `VotesArePermanent` |
| `VotesWereAllowed` | `VotesAreAdmissible` |
| `SuspensionsAreRecorded` | `SuspensionIsRecorded` |
| `IdentitiesStay` | `IdentitiesAreFixed` |
| `TalliesAreVoters` | `TalliesCountVoters` |

`ElectionScheduler_proofs` proves, for any number of elections, running calls,
publish requests and transactions in flight as well:

| theorem | property | condition |
|---|---|---|
| `SchedulerImplementsContract` | `SchedulerSpec => Spec`: the theorems above hold here | |
| `ServerTypeCorrect` | `ServerTypeOK` | |
| `SchedulerTypeCorrect` | `SchedulerTypeOK` | `NilIsNoTransaction` |
| `ElectionsAreOnTime` | `OnTime` | |
| `EndedStaysClosed` | `ClosedForGood` | `OneAtATime` |
| `EndedBeforePublished` | `PublishedFromEnded` | `OneAtATime` |
| `SavedTalliesAreComplete` | `SavedTallyIsComplete` | both |
| `SchedulerInvariants` | `SchedulerIInv` | both |

Why `OneVotePerElection` is not inductive: a transaction in flight could be
anything, say a vote by somebody whose mark is already set. `IInv` adds

- `AllAreProposals`: every transaction in flight is what one of the functions
  makes of what it read: a vote proposal read a user without the mark and writes
  that user with it, a status change keeps the marks, and so on;
- `ReadsAreCurrent`: a transaction that is not stale read exactly what is committed
  now. This is where the validation rule enters: a commit makes every transaction
  stale that read what it writes;
- `VoteIdsAreFresh`: a vote in flight has an id that nobody else uses;
- `VotedMarksMatchVotes`: marks and votes agree.

A vote that commits is not stale, so by `ReadsAreCurrent` the user record has no
mark now, so by `VotedMarksMatchVotes` there is no vote of that user in that
election now, and both appear together. The proof has one lemma per function for
the shape of its proposal, one for `Submit` in general, and for `Commit` one lemma
per conjunct. TLC checks `IInv` itself in the run `voting`.

`TalliesAreVoters` adds that a tally counts votes, and votes of one election are as
many as their voters (`VotesAndVoters`), since each voter has one.

`Ballot_proofs` proves `ContractIsBallotBox`: the contract implements `Ballot`. There
is a lemma for each kind of proposal that says what its commit does to the choices,
the results, the electors and the open elections. Endorsing, invalidating and losing a
transaction change none of them. A vote that commits finds its election open and
its voter an elector without a choice, because the
checks of CastVote still hold when a vote commits (`VoteCommitFacts`); a final tally that commits has the counts of this
moment, because it read every vote and is not stale (`ReadsAreCurrent`). `ChoiceIsVote` needs
`OneVotePerElection`: only then is the choice of a user well defined.

The scheduler. A status is written long after it was decided, by a transaction
that nobody may be waiting for any more. So the invariants speak of intentions: of
the tasks on the list of a call and of the statuses that transactions in flight
would write.

- `DecidedOnTime`: every such task and status was decided after its time had come;
  time does not go back.
- `ClosingInv`: what can still be written to an election follows its present status
  in the order scheduled, live, ended, published. When a transaction on an election
  commits, every other one on it has read it and becomes stale, so nothing has to be
  shown for those. The delicate case is a call that means to open an election:
  no transaction that ends it may be able to commit, or the election would be ended
  and then opened by the next step of the call. Such a transaction was stale when the
  call read `scheduled`, and the call itself, being the only one, submits none. This
  is where `OneAtATime` is needed.
- `CountsAreFinal`, with its part `CountingIsFinal` about the calls under way: from the
  status update on, the election of the call is closed, and a tally that commits equals the counts of that moment (`ReadsAreCurrent`). A vote
  commits only while its election is live (`VotesAllowedStep`), so the counts no
  longer change.

TLC checks the three as `SchedulerIInv` in the run `scheduler`.

`VotingSystem_proofs` proves, with the listener, broken streams, failing awaits and
restarts, and for any number of events under way:

| theorem | property | condition |
|---|---|---|
| `SystemImplementsContract` | `SystemSpec => Spec`: what is proved of the contract holds here | |
| `SystemIsBallotBox` | `ImplementsBallot` | |
| `MirrorInvariance` | `MirrorIInv` | |
| `MirrorIsFaithful` | `MirroredVotesAreCommitted` | |
| `AuditsAreMirrored` | `AuditedVotesAreMirrored` | |
| `SystemTypeCorrect` | `SystemTypeOK` | `NilIsNoTransaction` |
| `SystemInvariance` | `SystemIInv` | both |
| `LiveCountsAreBacked` | `LiveTallyNeverOvercounts` | both |
| `SystemIsOnTime` | `OnTime` | |
| `SystemStaysClosed` | `ClosedForGood` | both |
| `SystemPublishesEnded` | `PublishedFromEnded` | both |

That a document is a copy of a committed vote depends on what an event says, and an
event is made long before it is handled. `MirrorIInv` follows it from the endorsement
to the audit: an event describes what its transaction writes (`EventsDescribeWrites`),
so when it enters the stream the vote is committed (`StreamIsCommitted`), and so is
the vote in the handler, which has its document once its first await is done
(`HandlerIsBacked`), and what is audited has one too. Committed votes stay
(`VotesStay`), so none of this is lost while the event waits.

The live count is written by the listener and by the scheduler. `CountsAreBacked`
says that until an election closes the count of a candidate, with one added while a
vote for that candidate is between its document and its count (`BeingCounted`), is at
most the number of documents. The listener keeps this by the order of its awaits. The
scheduler overwrites the document with counts of its own, and this is harmless only
because the election is closed by then and stays closed: `ClosingInv` and
`CountingIsFinal`, which need `OneAtATime`, and which survive a restart, since that
only forgets calls; the transactions they submitted are spoken of by the invariants
whether anybody awaits them or not. `SystemIInv` is the conjunction of all this, and
TLC checks it in the run `mirror`, as a part of `RecountIInv`.

The last three rows are the theorems about the scheduler again, now for a server that may
stop between any two awaits. A restart is no step of ElectionScheduler, so they do not
follow from the theorems there; but what the scheduler means to do is decided by its
calls and by the transactions in flight, and a restart only removes calls.

`Answers_proofs` proves what the server answers from this state:

| theorem | property | condition |
|---|---|---|
| `AnswersBacked` | `AnswersAreBacked` | `NilIsNoTransaction` |
| `FaultFreeIsSystem` | `FaultFreeSpec => SystemSpec`: all theorems on the system hold here | |
| `FaultFreeInvariance` | `FaultFreeIInv` | both |
| `CaughtUpAnswers` | `CaughtUpAnswersAreExact` | both |
| `RecountsAreFaultFree` | `RecountSpec => FaultFreeSpec`: all of these hold with recounts, too | |
| `RecountInvariance` | `RecountIInv` | both |
| `RecountsReportNewVotes` | `DiscrepanciesAreNewVotes` | both |

`AnswersBacked` joins invariants of different modules. An answer comes from a
document; the document is a copy of a committed vote (`MirroredVotesAreCommitted`); and of
a voter and an election the ledger has one vote at most (`OneVotePerElection`), so two
receipts, or two entries of an activity, would be of the same vote, whose candidate the
election still names (`VotesOnBallot`). It holds whatever fails, for a fault only loses documents.

`CaughtUpAnswers` is the converse: what is committed is in the documents, unless
something failed. `MirrorIInv` does not help, since it speaks of what was written and
not of what was seen. `FaultFreeIInv` adds, for a server with which nothing failed,

- `VotesArrive`: a committed vote has its document, or its event is in the stream or in
  hand. A commit is what puts it there, because a transaction that writes a vote has the
  event of that vote (`EventsDescribeWrites`);
- `DocumentsAreAudited`: a vote with a document is audited or its event is in hand;
- `CountsAreExact`: until an election closes, its counts are those of the votes with a
  document, but for the one vote between its document and its count. The delicate case is
  the first vote, whose document of counts is made from a fresh reading of the election:
  until then the vote in hand is the only one with a document. The scheduler writes
  counts only of elections that are closed, as for `CountsAreBacked`.

With an empty stream and no event in hand the first says that committed votes have
documents; the second that each is audited, so that audited events of an election and
its votes are equally many; the third that the counts are those of the committed votes.
`VotesOnBallot`, the candidate of a committed vote stays on its ballot, shows that a count
is never for a candidate that the document lacks, and that the counts of the candidates
leave no vote out.

A recount compares counts of one moment with a document of a later one. `RecountIInv`
adds to `FaultFreeIInv` that a request awaits its own tally (`AwaitsTally`), and that what
it holds afterwards are the counts of the votes committed then (`CountedThen`); the
former gives the latter because a tally that commits has read every vote and is not
stale (`ReadsAreCurrent`). Votes only grow, so the counts of now are those of then and
the new votes; `CaughtUpAnswers` makes the document the counts of now, and what is left
of the comparison are the new votes. A sum over the candidates adds no discrepancy of
its own (`RecountsCompare`).

`Accounts_proofs` proves, for any number of users, persons, phones, codes, revocations
and transactions in flight, any of the values taken for hashes, and from
`NilIsNoTransaction`:

| theorem | property |
|---|---|
| `AccountsImplementContract` | `AccountSpec => Spec`: the handlers are clients of the contract |
| `AccountsInvariance` | `AccountIInv` |
| `AccountsTypeCorrect` | `AccountTypeOK` |
| `IdentitiesAreUnique` | `OneIdentityPerPerson` |
| `DocumentsAreAhead` | `LedgerUsersAreDocumented` |
| `ActiveUsersAreServed` | `ActiveUsersCanReturn` |
| `OfficialsAreInvited` | `OfficialsWereInvited` |
| `AdminWalletStays` | `AdminWalletIsFinal` |

The safety properties are not inductive: that the ledger has one identity per person
says nothing of two transactions in flight for the same person. `AccountIInv`, which
is inductive together with `IInv` of the contract, adds three things.
`CallsAreBacked` says what has been done about a person when its call is at a given
await. `DocumentsAreUnique` is the work of the sparse indexes: no hash is stored twice,
which says nothing of documents without one. Every document is that of the call which
saved it, with the hashes of its form (`DocumentsAreBacked`), and different values have
different hashes, so who is not `HashLike` is alone with theirs. And the stores follow one another:
proposals follow documents (`ProposalsAreDocumented`), so records do when they commit
(`RecordsAreDocumented`). A proposal either registers a user the ledger did not have
or suspends one. With `ReadsAreCurrent` of the contract this shows that a suspension is
never undone, which is what lets `RevokeAtCA` and `RemoveFiles` take the certificate
from a suspended user only (`RevocationsAreBacked`). The rest is one lemma per await.
`AdminWalletStays` looks at every action: only `EnrollAdmin` and `StartAdmin`, on an
empty wallet, lead to the steps that write it, and a write left behind by a call that
failed, or by a start that failed, is one of those that must be over first.

`Secrets_proofs` proves for any sets of users, numbers, secrets and codes:

| theorem | property |
|---|---|
| `SecretsImplementSingleUse` | `ImplementsSingleUse`: every step is an abstract step or a stutter |
| `NothingAcceptedTwice` | no secret has two acceptances |
| `NewestStays` | `NewestCodeIsStored` |
| `SecretsTypeCorrect` | `SecretsTypeOK` |

The invariant (`SecretsInv`) adds that a stored secret was drawn, that no two owners hold the same
one, and that a secret still stored was never accepted. A new value is in no entry,
so each entry can be accepted only once.

`Services_proofs` proves, for any number of users, clients, requests, voters, candidates
and overlapping calls:

| theorem | property |
|---|---|
| `HandlersExact` | `HandlersAreWaiting` |
| `SigningTypeCorrect` | `SigningTypeOK` |
| `AgeGroupsAgree` | the two classifications agree on every known age |
| `InsightInvariance` | `InsightIInv` |
| `AnalyticsAreOfThePast` | `AnalyticsDescribeThePast` |
| `FeedbackAtMostTwice` | `FeedbackIsCountedAtMostTwice` |
| `ServicesKeepTheirSpecs` | `ServicesSpec => SigningSpec /\ SecretsSpec /\ InsightSpec` |
| `ServicesInvariance` | `ServicesIInv` |

Handlers and types are inductive together: every action changes the table and the
promise at once.

Of the analytics nothing can be said while a calculation is under way unless one
remembers which votes it took. `CalculationsAreBacked` does: there is a set of mirrored
votes whose size is the total, and the counts so far are those of its votes without the
ones left. Counting a vote moves it from one part to the other, and adds one in exactly one
candidate, group and place (`CountsOf`); when nothing is left the counts are those of the
set, which is what may be saved, cached or answered. Votes that arrive meanwhile only
add to `mirrored`.

A feedback is counted by its own `$inc` and by every calculation that finds its document.
`FeedbackIsBacked` speaks of those about to be counted: in each category, what the
document holds and the calls that still have their `$inc` to do (`PendingAs`) are
together at most twice the feedback there is. A calculation that is saved resets the count to at
most once the feedback there is, and the calls still to come are at most as many again,
for two calls about to count never belong to the same voter (`CountingIsOwn`, from the unique index
on the receipt).

`ServicesKeepTheirSpecs` carries the theorems about each service, and those of
`Secrets_proofs`, to the process in which they run and stop together.

Model-checked only: liveness (`ElectionsClose`, `RequestsEnd`), which is outside the
prover's reach, as is ENABLED; TLC checks both under the fairness of section 3. And
`CountsNeverDrop`, for one call of processElections at a time: its proof would need,
beyond `RecountIInv`, that the counts about to be saved are at least those of the
document they replace. The properties of the violation runs do not hold, and a
counterexample is all there is to show about them. Every other property of a run is
stated by a theorem. What recursive definitions compute for every input would be out of
reach, too; no module has one.

## 6. Not modelled

Recognition of faces and documents is an external service; only the secret that
verifyUserFace issues is modelled. Tokens, uploads, routing and format checks keep
no state between requests; the one exception to the format checks that has an effect,
the values taken for hashes, is in Accounts. Ledger inspection reads blocks and formats
them. The bcrypt hashes of national ids and phone numbers, which nothing is looked up by,
and the birth date and age taken from a national id are left out: an age is calculated once, when the document is created, and is a constant in
Insight. The asset-transfer sample (`smartcontract.go`), mocks, scripts and
documentation are not part of the program's logic. Gateway connections are inside
`Submit`. The block event loop only logs.

Accounts and VotingSystem are not composed: registrations matter to the listener as
one more audited event, and ElectionScheduler has them as `ClientCall`.

## 7. Plan

Done: `FabricLedger`, `VotingContract`, `Ballot`, `ElectionScheduler`, `VotingSystem`,
`Answers`, `FaultFree`, `Recounts`, `Accounts`, `RemoteSigning`, `Secrets`, `SingleUse`, `Insight`,
`Services`, the invariants, and the proofs of section 5.

Left: an abstract specification of the mirror as VotingSystem implements it, that of
registration and revocation as Accounts does, a proof of `CountsNeverDrop`, and Accounts
together with the listener.
