------------------------------ MODULE Accounts ------------------------------
(***************************************************************************)
(* Registration, revocation and the way back in (auth.controller.ts,       *)
(* users.controller.ts, invitation.service.ts, identityManager.ts).  One   *)
(* person is spread over four stores: the User document in MongoDB, the    *)
(* identity at the certificate authority, the certificate and key files of *)
(* the wallet, and the user record of the ledger.  The handlers write them *)
(* one await after the other, many handlers at once; any await may throw,  *)
(* the process may stop, and nothing is ever undone.  When it starts       *)
(* again, it enrolls the administrator itself before it takes requests.    *)
(***************************************************************************)
EXTENDS VotingContract

CONSTANTS
    Persons,        \* what is sent as a national id, or as a phone number
    Phones,
    HashLike,       \* those that start with "$2": the model takes them for hashes
    Codes,          \* invitation codes that can be generated
    Revocations     \* places for calls of revokeUser: bounds how many overlap

VARIABLES
    registrations,  \* the call of register that drew the user id, by user id
    revocations,    \* the calls of revokeUser in progress
    codes,          \* the InvitationCode documents
    userDocs,       \* the User documents in MongoDB, by user id
    authority,      \* what the certificate authority knows of a user id
    wallet,         \* the files there are for a user id
    adminWallet,    \* whose enrollment each of the administrator's files is from
    startup         \* the await createServerApp is at, and the files it still writes

accountVars == <<worldState, inflight, registrations, revocations, codes, userDocs,
                 authority, wallet, adminWallet, startup>>

Files       == {"cert", "key"}
Officials   == {"election_commission", "auditor"}
\* The hash that documents are looked up by; a value taken for a hash gets none.
Sha256(value) == <<"sha256", value>>
UniqueHash(value) == IF value \in HashLike THEN Nil ELSE Sha256(value)

Form        == [person : Persons, phone : Phones, governorate : Governorates,
                code : Codes \cup {Nil}]
Code        == [role : Officials, usedBy : Users \cup {Nil}, expired : BOOLEAN]
UserDoc     == [nationalIdUnique : {UniqueHash(p) : p \in Persons},
                phoneUnique : {UniqueHash(n) : n \in Phones},
                governorate : Governorates, role : Roles, status : UserStatuses]
Over        == {"registered", "refused"}

\* A call names the await it is at, the files it still writes and its transaction.
RegisterSteps ==
    {"phone", "code", "use_code", "admin", "enroll_admin", "save_admin", "ca_register",
     "ca_enroll", "save_files", "save", "ledger", "commit", "late_admin", "late_files"}
      \cup Over
StartSteps == {"admin", "enroll_admin", "save_admin", "serving"}
RevokeSteps == {"ledger", "commit", "ca", "remove"}
RegisterCall ==
    [step : RegisterSteps, form : Form, role : Roles, left : SUBSET Files, tx : Txs \cup {Nil}]
RevokeCall == [step : RevokeSteps, by : Users, user : Users, tx : Txs \cup {Nil}]

ASSUME NilIsNoAccount ==
    Nil \notin Txs \cup Codes \cup Users \cup Code \cup UserDoc \cup RegisterCall
               \cup RevokeCall \cup {"server"}
               \cup {Sha256(value) : value \in Persons \cup Phones}

At(u, step) == registrations[u] # Nil /\ registrations[u].step = step

Moved(call, step) == [call EXCEPT !.step = step]

\* The call for u goes on with the next step.
GoTo(u, step) == registrations' = [registrations EXCEPT ![u] = Moved(@, step)]

\* The documents that a look-up by national id or by phone number finds.
ByPerson(p) == {u \in Users : userDocs[u] # Nil /\ userDocs[u].nationalIdUnique = Sha256(p)}
ByPhone(n)  == {u \in Users : userDocs[u] # Nil /\ userDocs[u].phoneUnique = Sha256(n)}

Serving == startup.step = "serving"

-----------------------------------------------------------------------------
(* Invitation codes *)

\* The script generates codes for officials only.
GenerateCode(c, role) ==
    /\ codes[c] = Nil
    /\ codes' = [codes EXCEPT ![c] = [role |-> role, usedBy |-> Nil, expired |-> FALSE]]
    /\ UNCHANGED <<ledgerVars, registrations, revocations, userDocs, authority, wallet,
                   adminWallet, startup>>

\* Whether a used code has expired is never asked.
ExpireCode(c) ==
    /\ codes[c] # Nil /\ codes[c].usedBy = Nil
    /\ codes' = [codes EXCEPT ![c] = [@ EXCEPT !.expired = TRUE]]
    /\ UNCHANGED <<ledgerVars, registrations, revocations, userDocs, authority, wallet,
                   adminWallet, startup>>

-----------------------------------------------------------------------------
(* register, one action per await *)

\* A request whose national id is taken is refused and leaves no trace.
Register(u, form) ==
    /\ Serving
    /\ registrations[u] = Nil
    /\ ByPerson(form.person) = {}
    /\ registrations' = [registrations EXCEPT ![u] =
          [step |-> "phone", form |-> form, role |-> "voter", left |-> {}, tx |-> Nil]]
    /\ UNCHANGED <<ledgerVars, revocations, codes, userDocs, authority, wallet, adminWallet, startup>>

CheckPhone(u) ==
    /\ At(u, "phone")
    /\ LET form == registrations[u].form
       IN  GoTo(u, IF ByPhone(form.phone) # {} THEN "refused"
                   ELSE IF form.code # Nil THEN "code" ELSE "admin")
    /\ UNCHANGED <<ledgerVars, revocations, codes, userDocs, authority, wallet, adminWallet, startup>>

Valid(code) == code # Nil /\ code.usedBy = Nil /\ ~code.expired

FindCode(u) ==
    /\ At(u, "code")
    /\ GoTo(u, IF Valid(codes[registrations[u].form.code]) THEN "use_code" ELSE "refused")
    /\ UNCHANGED <<ledgerVars, revocations, codes, userDocs, authority, wallet, adminWallet, startup>>

\* The call goes on with the role of its code.
Invited(call, role) == [call EXCEPT !.step = "admin", !.role = role]

\* Mutant: the role is returned but the code is not saved.
UseUnsavedCode(u) ==
    /\ At(u, "use_code")
    /\ registrations' = [registrations EXCEPT ![u] =
          Invited(@, codes[registrations[u].form.code].role)]
    /\ UNCHANGED <<ledgerVars, revocations, codes, userDocs, authority, wallet, adminWallet, startup>>

\* The document that was found is saved as used, whatever happened to it meanwhile.
UseCode(u) ==
    /\ At(u, "use_code")
    /\ LET c == registrations[u].form.code
       IN  /\ codes' = [codes EXCEPT ![c] = [@ EXCEPT !.usedBy = u]]
           /\ registrations' = [registrations EXCEPT ![u] = Invited(@, codes[c].role)]
    /\ UNCHANGED <<ledgerVars, revocations, userDocs, authority, wallet, adminWallet, startup>>

AdminPair == adminWallet.cert # Nil /\ adminWallet.cert = adminWallet.key

\* Mutant: a half-written wallet is enrolled anew.
MustEnrollHalf == adminWallet.cert = Nil \/ adminWallet.key = Nil

MustEnroll == adminWallet.cert = Nil /\ adminWallet.key = Nil

\* enrollAdmin: loads the two files, or enrolls if there are none.  With one file,
\* or with two that do not fit, the call gets no further.
EnrollAdmin(u) ==
    /\ At(u, "admin")
    /\ \/ AdminPair /\ GoTo(u, "ca_register")
       \/ MustEnroll /\ GoTo(u, "enroll_admin")
    /\ UNCHANGED <<ledgerVars, revocations, codes, userDocs, authority, wallet, adminWallet, startup>>

\* The call has an enrollment whose files it writes next.
Enrolled(call, step) == [call EXCEPT !.step = step, !.left = Files]

EnrollNewAdmin(u) ==
    /\ At(u, "enroll_admin")
    /\ registrations' = [registrations EXCEPT ![u] = Enrolled(@, "save_admin")]
    /\ UNCHANGED <<ledgerVars, revocations, codes, userDocs, authority, wallet, adminWallet, startup>>

\* Mutant: the call goes on after the first file.
WrittenOne(call, f, next) == [call EXCEPT !.left = @ \ {f}, !.step = next]

\* The call has written the file f; after the last one it goes on.
Written(call, f, next) ==
    [call EXCEPT !.left = @ \ {f}, !.step = IF call.left = {f} THEN next ELSE @]

\* The two files are written in parallel; when one write has failed, the other may
\* still succeed, although the call has been answered by then.
SaveAdminFile(u, f) ==
    /\ \/ /\ At(u, "save_admin")
          /\ registrations' = [registrations EXCEPT ![u] = Written(@, f, "ca_register")]
       \/ /\ At(u, "late_admin")
          /\ registrations' = [registrations EXCEPT ![u] = Written(@, f, "refused")]
    /\ f \in registrations[u].left
    /\ adminWallet' = [adminWallet EXCEPT ![f] = u]
    /\ UNCHANGED <<ledgerVars, revocations, codes, userDocs, authority, wallet, startup>>

RegisterAtCA(u) ==
    /\ At(u, "ca_register")
    /\ authority[u] = "unknown"
    /\ authority' = [authority EXCEPT ![u] = "registered"]
    /\ GoTo(u, "ca_enroll")
    /\ UNCHANGED <<ledgerVars, revocations, codes, userDocs, wallet, adminWallet, startup>>

EnrollAtCA(u) ==
    /\ At(u, "ca_enroll")
    /\ authority' = [authority EXCEPT ![u] = "enrolled"]
    /\ registrations' = [registrations EXCEPT ![u] = Enrolled(@, "save_files")]
    /\ UNCHANGED <<ledgerVars, revocations, codes, userDocs, wallet, adminWallet, startup>>

SaveFile(u, f) ==
    /\ \/ /\ At(u, "save_files")
          /\ registrations' = [registrations EXCEPT ![u] = Written(@, f, "save")]
       \/ /\ At(u, "late_files")
          /\ registrations' = [registrations EXCEPT ![u] = Written(@, f, "refused")]
    /\ f \in registrations[u].left
    /\ wallet' = [wallet EXCEPT ![u] = @ \cup {f}]
    /\ UNCHANGED <<ledgerVars, revocations, codes, userDocs, authority, adminWallet, startup>>

\* Mutant: the role of the document is left at its default.
NewVoterDoc(form, role) ==
    [nationalIdUnique |-> UniqueHash(form.person), phoneUnique |-> UniqueHash(form.phone),
     governorate |-> form.governorate, role |-> "voter", status |-> "active"]

NewUserDoc(form, role) ==
    [nationalIdUnique |-> UniqueHash(form.person), phoneUnique |-> UniqueHash(form.phone),
     governorate |-> form.governorate, role |-> role, status |-> "active"]

\* Mutant: no index on the national id.
UniquePhone(doc, other) == doc.phoneUnique = other.phoneUnique => doc.phoneUnique = Nil

\* The unique indexes are sparse: a document without the field is not in them.
Unique(doc, other) ==
    /\ doc.nationalIdUnique = other.nationalIdUnique => doc.nationalIdUnique = Nil
    /\ doc.phoneUnique = other.phoneUnique => doc.phoneUnique = Nil

SaveUser(u) ==
    /\ At(u, "save")
    /\ LET doc == NewUserDoc(registrations[u].form, registrations[u].role)
       IN  /\ \A w \in Users : userDocs[w] # Nil => Unique(doc, userDocs[w])
           /\ userDocs' = [userDocs EXCEPT ![u] = doc]
    /\ GoTo(u, "ledger")
    /\ UNCHANGED <<ledgerVars, revocations, codes, authority, wallet, adminWallet, startup>>

\* A call waits for its transaction, and goes on when it is answered.
Waits(call, t) == [call EXCEPT !.step = "commit", !.tx = t]

Resumed(call, step) == [call EXCEPT !.step = step, !.tx = Nil]

RegisterOnLedger(u, t) ==
    /\ At(u, "ledger")
    /\ AdminPair
    /\ RegisterUser(t, u, registrations[u].form.governorate, registrations[u].role)
    /\ registrations' = [registrations EXCEPT ![u] = Waits(@, t)]
    /\ UNCHANGED <<revocations, codes, userDocs, authority, wallet, adminWallet, startup>>

Refused(call) == [call EXCEPT !.step = "refused", !.left = {}, !.tx = Nil]

\* The call has been refused; the files that are left may yet be written.
Left(call, late) ==
    [call EXCEPT !.step = IF call.step \in {"save_admin", "late_admin"} THEN "late_admin"
                          ELSE "late_files",
                 !.left = late]

\* An await throws, or its deadline passes: the call answers with an error.  A file
\* whose write has not failed may be written later, or never.
RegisterFails(u) ==
    /\ registrations[u] # Nil /\ registrations[u].step \notin Over
    /\ \/ registrations' = [registrations EXCEPT ![u] = Refused(@)]
       \/ \E late \in SUBSET registrations[u].left :
             /\ late # {} /\ late # registrations[u].left
             /\ registrations' = [registrations EXCEPT ![u] = Left(@, late)]
    /\ UNCHANGED <<ledgerVars, revocations, codes, userDocs, authority, wallet, adminWallet, startup>>

RegisterStep(u) ==
    \/ CheckPhone(u) \/ FindCode(u) \/ UseCode(u)
    \/ EnrollAdmin(u) \/ EnrollNewAdmin(u) \/ RegisterAtCA(u) \/ EnrollAtCA(u)
    \/ \E f \in Files : SaveAdminFile(u, f) \/ SaveFile(u, f)
    \/ SaveUser(u)
    \/ \E t \in Txs : RegisterOnLedger(u, t)
    \/ RegisterFails(u)

-----------------------------------------------------------------------------
(* revokeUser *)

\* Whoever holds a token with the role of an official; the token is good for a
\* user that was suspended or never reached the ledger, too.
MayRevoke(o) == userDocs[o] # Nil /\ userDocs[o].role \in Officials

Revoking(r, step) == revocations[r] # Nil /\ revocations[r].step = step

SuspendInDatabase(r) ==
    /\ Serving
    /\ revocations[r] = Nil
    /\ \E o, u \in Users :
          /\ MayRevoke(o)
          /\ userDocs[u] # Nil
          /\ userDocs' = [userDocs EXCEPT ![u] = [@ EXCEPT !.status = "suspended"]]
          /\ revocations' = [revocations EXCEPT ![r] =
                [step |-> "ledger", by |-> o, user |-> u, tx |-> Nil]]
    /\ UNCHANGED <<ledgerVars, registrations, codes, authority, wallet, adminWallet, startup>>

\* The transaction is signed with the files of the official.
SuspendOnLedger(r, t) ==
    /\ Revoking(r, "ledger")
    /\ LET call == revocations[r]
       IN  /\ wallet[call.by] = Files
           /\ UpdateUserStatus(t, call.by, call.user, "suspended")
    /\ revocations' = [revocations EXCEPT ![r] = Waits(@, t)]
    /\ UNCHANGED <<registrations, codes, userDocs, authority, wallet, adminWallet, startup>>

RevokeAtCA(r) ==
    /\ Revoking(r, "ca")
    /\ AdminPair
    /\ authority' = [authority EXCEPT ![revocations[r].user] = "revoked"]
    /\ revocations' = [revocations EXCEPT ![r] = Moved(@, "remove")]
    /\ UNCHANGED <<ledgerVars, registrations, codes, userDocs, wallet, adminWallet, startup>>

\* A file that cannot be removed is only logged.
RemoveFiles(r) ==
    /\ Revoking(r, "remove")
    /\ \E left \in SUBSET wallet[revocations[r].user] :
          wallet' = [wallet EXCEPT ![revocations[r].user] = left]
    /\ revocations' = [revocations EXCEPT ![r] = Nil]
    /\ UNCHANGED <<ledgerVars, registrations, codes, userDocs, authority, adminWallet, startup>>

\* An error of the certificate authority is logged, any other one is answered;
\* either way the call is over.
RevokeFails(r) ==
    /\ revocations[r] # Nil
    /\ revocations' = [revocations EXCEPT ![r] = Nil]
    /\ UNCHANGED <<ledgerVars, registrations, codes, userDocs, authority, wallet, adminWallet, startup>>

RevokeStep(r) ==
    \/ SuspendInDatabase(r)
    \/ \E t \in Txs : SuspendOnLedger(r, t)
    \/ RevokeAtCA(r)
    \/ RemoveFiles(r)
    \/ RevokeFails(r)

-----------------------------------------------------------------------------
(* createServerApp, up to the first request *)

Started(step, left) == [step |-> step, left |-> left]

\* enrollAdmin, as in a request.
StartAdmin ==
    /\ startup.step = "admin"
    /\ \/ AdminPair /\ startup' = Started("serving", {})
       \/ MustEnroll /\ startup' = Started("enroll_admin", {})
    /\ UNCHANGED <<ledgerVars, registrations, revocations, codes, userDocs, authority, wallet,
                   adminWallet>>

StartEnrolls ==
    /\ startup.step = "enroll_admin"
    /\ startup' = Started("save_admin", Files)
    /\ UNCHANGED <<ledgerVars, registrations, revocations, codes, userDocs, authority, wallet,
                   adminWallet>>

\* A file that is left when the server serves already is one written late.
StartSavesFile(f) ==
    /\ f \in startup.left
    /\ adminWallet' = [adminWallet EXCEPT ![f] = "server"]
    /\ startup' = Written(startup, f, "serving")
    /\ UNCHANGED <<ledgerVars, registrations, revocations, codes, userDocs, authority, wallet>>

\* Without MongoDB nothing is enrolled, and an error is logged: the server serves all
\* the same.
StartFails ==
    /\ startup.step # "serving" \/ startup.left # {}
    /\ \E late \in SUBSET startup.left :
          /\ late # {} => late # startup.left
          /\ startup' = Started("serving", late)
    /\ UNCHANGED <<ledgerVars, registrations, revocations, codes, userDocs, authority, wallet,
                   adminWallet>>

StartStep == StartAdmin \/ StartEnrolls \/ StartFails \/ \E f \in Files : StartSavesFile(f)

-----------------------------------------------------------------------------
(* The answers of the ledger, and the process *)

\* Mutant: the certificate is revoked whatever the ledger said.
AnsweredAnyway(t, committed, next) ==
    /\ registrations' = [u \in Users |->
          IF At(u, "commit") /\ registrations[u].tx = t
          THEN Resumed(registrations[u], IF committed THEN next ELSE "refused")
          ELSE registrations[u]]
    /\ revocations' = [r \in Revocations |->
          IF Revoking(r, "commit") /\ revocations[r].tx = t
          THEN Resumed(revocations[r], "ca")
          ELSE revocations[r]]

\* The calls that wait for the transaction at t go on, or end with an error.
Answered(t, committed, next) ==
    /\ registrations' = [u \in Users |->
          IF At(u, "commit") /\ registrations[u].tx = t
          THEN Resumed(registrations[u], IF committed THEN next ELSE "refused")
          ELSE registrations[u]]
    /\ revocations' = [r \in Revocations |->
          IF Revoking(r, "commit") /\ revocations[r].tx = t
          THEN IF committed THEN Resumed(revocations[r], "ca") ELSE Nil
          ELSE revocations[r]]

AccountCommit(t) ==
    /\ Commit(t)
    /\ Answered(t, TRUE, "registered")
    /\ UNCHANGED <<codes, userDocs, authority, wallet, adminWallet, startup>>

AccountDiscard(t) ==
    /\ Discard(t)
    /\ Answered(t, FALSE, "registered")
    /\ UNCHANGED <<codes, userDocs, authority, wallet, adminWallet, startup>>

\* The process stops and starts again: no call survives, all four stores do.  The new
\* process begins with the administrator.
AccountRestart ==
    /\ registrations' = [u \in Users |->
          IF registrations[u] = Nil \/ registrations[u].step \in Over
          THEN registrations[u]
          ELSE Refused(registrations[u])]
    /\ revocations' = [r \in Revocations |-> Nil]
    /\ startup' = Started("admin", {})
    /\ UNCHANGED <<ledgerVars, codes, userDocs, authority, wallet, adminWallet>>

AccountInit ==
    /\ Init
    /\ registrations = [u \in Users |-> Nil]
    /\ revocations = [r \in Revocations |-> Nil]
    /\ codes = [c \in Codes |-> Nil]
    /\ userDocs = [u \in Users |-> Nil]
    /\ authority = [u \in Users |-> "unknown"]
    /\ wallet = [u \in Users |-> {}]
    /\ adminWallet = [f \in Files |-> Nil]
    /\ startup = Started("admin", {})

AccountStep ==
    \/ \E c \in Codes : ExpireCode(c)
    \/ \E u \in Users : RegisterStep(u)
    \/ \E r \in Revocations : RevokeStep(r)
    \/ \E t \in Txs : AccountCommit(t) \/ AccountDiscard(t)
    \/ StartStep
    \/ AccountRestart

AccountNext ==
    \/ \E c \in Codes, role \in Officials : GenerateCode(c, role)
    \/ \E u \in Users, form \in Form : Register(u, form)
    \/ AccountStep

AccountSpec == AccountInit /\ [][AccountNext]_accountVars
-----------------------------------------------------------------------------
(* The way back in: what loginWithPhone and reRegister answer *)

Login(n) == {[user |-> u, role |-> userDocs[u].role] : u \in ByPhone(n)}

ReRegister(p) ==
    {[user |-> u, role |-> userDocs[u].role] : u \in {w \in ByPerson(p) : wallet[w] = Files}}

-----------------------------------------------------------------------------
(* Properties *)

OnLedger(u) == worldState[UserKey(u)] # Nil

AccountTypeOK ==
    /\ registrations \in [Users -> RegisterCall \cup {Nil}]
    /\ revocations \in [Revocations -> RevokeCall \cup {Nil}]
    /\ codes \in [Codes -> Code \cup {Nil}]
    /\ userDocs \in [Users -> UserDoc \cup {Nil}]
    /\ authority \in [Users -> {"unknown", "registered", "enrolled", "revoked"}]
    /\ wallet \in [Users -> SUBSET Files]
    /\ adminWallet \in [Files -> Users \cup {"server", Nil}]
    /\ startup \in [step : StartSteps, left : SUBSET Files]
    /\ startup.step = "save_admin" => startup.left # {}
    /\ startup.left # {} => startup.step \in {"save_admin", "serving"}
    /\ \A u \in Users : registrations[u] # Nil =>
          /\ (registrations[u].left = {}) =
                (registrations[u].step \notin
                    {"save_admin", "save_files", "late_admin", "late_files"})
          /\ (registrations[u].tx = Nil) = (registrations[u].step # "commit")
    /\ \A r \in Revocations : revocations[r] # Nil =>
          (revocations[r].tx = Nil) = (revocations[r].step # "commit")

\* A national id that does not look like a hash has at most one identity on the ledger,
\* however often and however concurrently its owner registers, and whatever failed
\* before (auth.controller.ts:61, 143).
OneIdentityPerPerson ==
    \A u, w \in Users :
        /\ OnLedger(u) /\ OnLedger(w)
        /\ registrations[u].form.person \notin HashLike
        /\ registrations[u].form.person = registrations[w].form.person
        => u = w

\* "The uniqueness of nationalId and phone will be enforced by MongoDB unique
\* constraints" (auth.controller.ts:107): no national id is saved for two users.
NationalIdsAreUnique ==
    \A u, w \in Users :
        /\ userDocs[u] # Nil /\ userDocs[w] # Nil
        /\ registrations[u].form.person = registrations[w].form.person
        => u = w

\* Where the ledger and MongoDB may differ, MongoDB is ahead: a user of the ledger has
\* a document with the same role and governorate, and one the ledger has suspended is
\* suspended in the document (auth.controller.ts:143-148, users.controller.ts:142-155).
LedgerUsersAreDocumented ==
    \A u \in Users : OnLedger(u) =>
        LET user == worldState[UserKey(u)]
        IN  /\ userDocs[u] # Nil
            /\ userDocs[u].role = user.role
            /\ userDocs[u].governorate = user.governorate
            /\ user.status = "suspended" => userDocs[u].status = "suspended"

\* A user the ledger counts as active can sign and can come back: both files are in
\* the wallet, the certificate is not revoked, and the phone number and the national id,
\* unless they look like hashes, lead to that user and no other
\* (auth.controller.ts:171-237, 426-453).
ActiveUsersCanReturn ==
    \A u \in ActiveUsers :
        LET form  == registrations[u].form
            token == [user |-> u, role |-> worldState[UserKey(u)].role]
        IN  /\ authority[u] = "enrolled" /\ wallet[u] = Files
            /\ form.phone \notin HashLike => Login(form.phone) = {token}
            /\ form.person \notin HashLike => ReRegister(form.person) = {token}

\* Nobody is an official without having spent an invitation code of that role
\* (auth.controller.ts:87-98), whichever calls overlapped.  Two calls under way together
\* may both have spent the same one.
OfficialsWereInvited ==
    \A u \in Users :
        userDocs[u] # Nil /\ userDocs[u].role \in Officials =>
            LET c == registrations[u].form.code
            IN  c # Nil /\ codes[c].usedBy # Nil /\ codes[c].role = userDocs[u].role

\* Once there is a file of the administrator and nobody is enrolling or has a write
\* under way, the wallet is final, fitting or not: two files that fit are never
\* overwritten, by a request or by a restart, and a wallet cut off between its two
\* files, or mixed by two enrollments at once, is never repaired
\* (identityManager.ts:43-71, 109-130, 212-244, server.ts:65).
AdminWalletSettled ==
    /\ \E f \in Files : adminWallet[f] # Nil
    /\ \A u \in Users, step \in {"enroll_admin", "save_admin", "late_admin"} : ~At(u, step)
    /\ startup.step # "enroll_admin" /\ startup.left = {}

AdminWalletIsFinal ==
    [][AdminWalletSettled => AdminWalletSettled' /\ UNCHANGED adminWallet]_accountVars
=============================================================================
