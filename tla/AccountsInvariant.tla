-------------------------- MODULE AccountsInvariant --------------------------
(***************************************************************************)
(* The inductive invariant behind the safety properties of Accounts.  It   *)
(* says what has been done about a person when its call is at a given      *)
(* await, which no single action shows, and how the transactions in flight *)
(* about a user agree with its document.                                   *)
(***************************************************************************)
EXTENDS Accounts

SuspendedOnLedger(u) == OnLedger(u) /\ worldState[UserKey(u)].status = "suspended"

\* Both files are there and the certificate is good.
Enrolment(u) == authority[u] = "enrolled" /\ wallet[u] = Files

\* A call with the role of an official has used its invitation.
InvitationUsed(call) ==
    LET c == call.form.code
    IN  call.role \in Officials =>
            c # Nil /\ codes[c] # Nil /\ codes[c].usedBy # Nil /\ codes[c].role = call.role

\* What has been done about u when its call of register is at its await.
Backed(u, call) ==
    /\ call.step \in {"code", "use_code"} => call.form.code # Nil
    /\ call.step = "use_code" => codes[call.form.code] # Nil
    /\ InvitationUsed(call)
    /\ call.step = "save_files" =>
          authority[u] = "enrolled" /\ wallet[u] \cup call.left = Files
    /\ call.step = "save" => Enrolment(u)
    /\ call.step \in {"ledger", "commit", "registered"} => userDocs[u] # Nil

CallsAreBacked ==
    \A u \in Users : registrations[u] # Nil => Backed(u, registrations[u])

\* A document is that of a call which has saved it, and the enrolment stays until the
\* ledger has suspended the user.
SavedBy(call, doc) ==
    /\ call.step \in {"ledger", "commit"} \cup Over
    /\ doc.nationalIdUnique = UniqueHash(call.form.person)
    /\ doc.phoneUnique = UniqueHash(call.form.phone)
    /\ doc.governorate = call.form.governorate
    /\ doc.role = call.role

DocumentsAreBacked ==
    \A u \in Users : userDocs[u] # Nil =>
        /\ registrations[u] # Nil
        /\ SavedBy(registrations[u], userDocs[u])
        /\ SuspendedOnLedger(u) \/ Enrolment(u)

\* Two documents share no hash of a national id or phone number, if they have one.
DocumentsAreUnique ==
    \A u, w \in Users :
        userDocs[u] # Nil /\ userDocs[w] # Nil /\ u # w => Unique(userDocs[u], userDocs[w])

\* A record of the user u, on the ledger or proposed, follows its document.
Documented(u, user) ==
    /\ userDocs[u] # Nil
    /\ userDocs[u].role = user.role
    /\ userDocs[u].governorate = user.governorate
    /\ user.status = "suspended" => userDocs[u].status = "suspended"

ProposalsAreDocumented ==
    \A t \in Txs, u \in Users :
        Pending(t) /\ UserKey(u) \in DOMAIN inflight[t].writes =>
            /\ Documented(u, inflight[t].writes[UserKey(u)])
            /\ UserKey(u) \in DOMAIN inflight[t].reads
            /\ \/ inflight[t].reads[UserKey(u)] = Nil
               \/ inflight[t].writes[UserKey(u)].status = "suspended"

RecordsAreDocumented ==
    \A u \in Users : OnLedger(u) => Documented(u, worldState[UserKey(u)])

\* What has been done about the user of a call of revokeUser.
RevocationBacked(call) ==
    LET u == call.user
    IN  /\ userDocs[u] # Nil /\ userDocs[u].status = "suspended"
        /\ call.step \in {"ca", "remove"} => SuspendedOnLedger(u)
        /\ call.step = "commit" =>
              /\ call.tx \in Txs /\ Pending(call.tx)
              /\ UserKey(u) \in DOMAIN inflight[call.tx].writes
              /\ inflight[call.tx].writes[UserKey(u)].status = "suspended"

RevocationsAreBacked ==
    \A r \in Revocations : revocations[r] # Nil => RevocationBacked(revocations[r])

AccountIInv ==
    /\ AccountTypeOK
    /\ CallsAreBacked
    /\ DocumentsAreBacked
    /\ DocumentsAreUnique
    /\ ProposalsAreDocumented
    /\ RecordsAreDocumented
    /\ RevocationsAreBacked
=============================================================================
