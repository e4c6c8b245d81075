--------------------------- MODULE Accounts_proofs ---------------------------
(***************************************************************************)
(* Theorems about Accounts, for every number of users, persons, phones,    *)
(* codes, revocations and transactions in flight.                          *)
(***************************************************************************)
EXTENDS AccountsInvariant, VotingContract_proofs

(* Calls *)

\* What each operator on a call of register changes, and that the result is one.
LEMMA MovedCall ==
    ASSUME NEW call \in RegisterCall, NEW step \in RegisterSteps
    PROVE  /\ Moved(call, step) \in RegisterCall
           /\ Moved(call, step).step = step
           /\ Moved(call, step).form = call.form /\ Moved(call, step).role = call.role
           /\ Moved(call, step).left = call.left /\ Moved(call, step).tx = call.tx
BY DEF Moved, RegisterCall

LEMMA InvitedCall ==
    ASSUME NEW call \in RegisterCall, NEW role \in Roles
    PROVE  /\ Invited(call, role) \in RegisterCall
           /\ Invited(call, role).step = "admin"
           /\ Invited(call, role).form = call.form /\ Invited(call, role).role = role
           /\ Invited(call, role).left = call.left /\ Invited(call, role).tx = call.tx
BY DEF Invited, RegisterCall, RegisterSteps

LEMMA EnrolledCall ==
    ASSUME NEW call \in RegisterCall, NEW step \in RegisterSteps
    PROVE  /\ Enrolled(call, step) \in RegisterCall
           /\ Enrolled(call, step).step = step
           /\ Enrolled(call, step).form = call.form /\ Enrolled(call, step).role = call.role
           /\ Enrolled(call, step).left = Files /\ Enrolled(call, step).tx = call.tx
BY DEF Enrolled, RegisterCall

LEMMA WrittenCall ==
    ASSUME NEW call \in RegisterCall, NEW f, NEW next \in RegisterSteps
    PROVE  /\ Written(call, f, next) \in RegisterCall
           /\ Written(call, f, next).step = IF call.left = {f} THEN next ELSE call.step
           /\ Written(call, f, next).form = call.form
           /\ Written(call, f, next).role = call.role
           /\ Written(call, f, next).left = call.left \ {f}
           /\ Written(call, f, next).tx = call.tx
<1>. DEFINE step == IF call.left = {f} THEN next ELSE call.step
<1>1. step \in RegisterSteps
  BY DEF RegisterCall
<1>2. Written(call, f, next) = [call EXCEPT !.left = call.left \ {f}, !.step = step]
  BY DEF Written, RegisterCall
<1>. HIDE DEF step
<1>3. /\ Written(call, f, next) \in RegisterCall
      /\ Written(call, f, next).step = step
      /\ Written(call, f, next).form = call.form
      /\ Written(call, f, next).role = call.role
      /\ Written(call, f, next).left = call.left \ {f}
      /\ Written(call, f, next).tx = call.tx
  BY <1>1, <1>2 DEF RegisterCall
<1>. QED
  BY <1>3 DEF step

LEMMA WaitingCall ==
    ASSUME NEW call \in RegisterCall, NEW t \in Txs
    PROVE  /\ Waits(call, t) \in RegisterCall
           /\ Waits(call, t).step = "commit"
           /\ Waits(call, t).form = call.form /\ Waits(call, t).role = call.role
           /\ Waits(call, t).left = call.left /\ Waits(call, t).tx = t
BY DEF Waits, RegisterCall, RegisterSteps

LEMMA ResumedCall ==
    ASSUME NEW call \in RegisterCall, NEW step \in RegisterSteps
    PROVE  /\ Resumed(call, step) \in RegisterCall
           /\ Resumed(call, step).step = step
           /\ Resumed(call, step).form = call.form /\ Resumed(call, step).role = call.role
           /\ Resumed(call, step).left = call.left /\ Resumed(call, step).tx = Nil
BY DEF Resumed, RegisterCall

LEMMA RefusedCall ==
    ASSUME NEW call \in RegisterCall
    PROVE  /\ Refused(call) \in RegisterCall
           /\ Refused(call).step = "refused"
           /\ Refused(call).form = call.form /\ Refused(call).role = call.role
           /\ Refused(call).left = {} /\ Refused(call).tx = Nil
BY DEF Refused, RegisterCall, RegisterSteps, Over

LEMMA LeftCall ==
    ASSUME NEW call \in RegisterCall, NEW late \in SUBSET call.left
    PROVE  /\ Left(call, late) \in RegisterCall
           /\ Left(call, late).step =
                 IF call.step \in {"save_admin", "late_admin"} THEN "late_admin" ELSE "late_files"
           /\ Left(call, late).form = call.form /\ Left(call, late).role = call.role
           /\ Left(call, late).left = late /\ Left(call, late).tx = call.tx
<1>. DEFINE step == IF call.step \in {"save_admin", "late_admin"}
                    THEN "late_admin" ELSE "late_files"
<1>1. step \in RegisterSteps /\ late \subseteq Files
  BY DEF RegisterCall, RegisterSteps
<1>2. Left(call, late) = [call EXCEPT !.step = step, !.left = late]
  BY DEF Left
<1>. HIDE DEF step
<1>3. /\ Left(call, late) \in RegisterCall /\ Left(call, late).step = step
      /\ Left(call, late).form = call.form /\ Left(call, late).role = call.role
      /\ Left(call, late).left = late /\ Left(call, late).tx = call.tx
  BY <1>1, <1>2 DEF RegisterCall
<1>. QED
  BY <1>3 DEF step

\* The same for the calls of revokeUser.
LEMMA MovedRevocation ==
    ASSUME NEW call \in RevokeCall
    PROVE  /\ Moved(call, "remove") \in RevokeCall
           /\ Moved(call, "remove").step = "remove"
           /\ Moved(call, "remove").user = call.user /\ Moved(call, "remove").tx = call.tx
BY DEF Moved, RevokeCall, RevokeSteps

LEMMA WaitingRevocation ==
    ASSUME NEW call \in RevokeCall, NEW t \in Txs
    PROVE  /\ Waits(call, t) \in RevokeCall
           /\ Waits(call, t).step = "commit"
           /\ Waits(call, t).user = call.user /\ Waits(call, t).tx = t
BY DEF Waits, RevokeCall, RevokeSteps

LEMMA ResumedRevocation ==
    ASSUME NEW call \in RevokeCall
    PROVE  /\ Resumed(call, "ca") \in RevokeCall
           /\ Resumed(call, "ca").step = "ca"
           /\ Resumed(call, "ca").user = call.user /\ Resumed(call, "ca").tx = Nil
BY DEF Resumed, RevokeCall, RevokeSteps

\* No value is none of these.
LEMMA NilIsNothing ==
    /\ Nil \notin Txs /\ Nil \notin Codes /\ Nil \notin Users /\ Nil \notin Code
    /\ Nil \notin UserDoc /\ Nil \notin RegisterCall /\ Nil \notin RevokeCall
BY NilIsNoAccount

-----------------------------------------------------------------------------
(* A call of register that goes on *)

FileSteps == {"save_admin", "save_files", "late_admin", "late_files"}

\* A call has files to write, and waits for a transaction, at these awaits and no others.
WellPlaced(call) ==
    /\ call.left = {} <=> call.step \notin FileSteps
    /\ call.tx = Nil <=> call.step # "commit"

\* The call for u, and no other one, has gone on.
Progress(u) ==
    /\ registrations' \in [Users -> RegisterCall \cup {Nil}]
    /\ \A w \in Users \ {u} : registrations'[w] = registrations[w]
    /\ registrations'[u] \in RegisterCall
    /\ registrations'[u].form = registrations[u].form
    /\ WellPlaced(registrations'[u])

\* No code loses its role or is unused again.
CodesGrow ==
    /\ codes' \in [Codes -> Code \cup {Nil}]
    /\ \A c \in Codes : codes[c] # Nil =>
          /\ codes'[c] # Nil
          /\ codes'[c].role = codes[c].role
          /\ codes[c].usedBy # Nil => codes'[c].usedBy # Nil

\* The authority and the wallet know as much of everybody but u as before.
OthersKeepFiles(u) ==
    /\ authority' \in [Users -> {"unknown", "registered", "enrolled", "revoked"}]
    /\ wallet' \in [Users -> SUBSET Files]
    /\ adminWallet' \in [Files -> Users \cup {"server", Nil}]
    /\ \A w \in Users \ {u} : authority'[w] = authority[w] /\ wallet'[w] = wallet[w]

\* The files of the administrator, and the start-up, have their types.
AdminTypeOK ==
    /\ adminWallet \in [Files -> Users \cup {"server", Nil}]
    /\ startup \in [step : StartSteps, left : SUBSET Files]
    /\ startup.step = "save_admin" => startup.left # {}
    /\ startup.left # {} => startup.step \in {"save_admin", "serving"}

\* A call of register of a state that satisfies the invariant.
LEMMA CallFacts ==
    ASSUME AccountIInv, NEW u \in Users, registrations[u] # Nil
    PROVE  /\ registrations[u] \in RegisterCall
           /\ registrations[u].form \in Form
           /\ registrations[u].role \in Roles
           /\ WellPlaced(registrations[u])
           /\ Backed(u, registrations[u])
           /\ registrations[u].step \notin {"ledger", "commit"} \cup Over => userDocs[u] = Nil
<1>1. registrations[u] \in RegisterCall
  BY DEF AccountIInv, AccountTypeOK
<1>2. registrations[u].form \in Form /\ registrations[u].role \in Roles
  BY <1>1 DEF RegisterCall
<1>3. WellPlaced(registrations[u])
  BY DEF AccountIInv, AccountTypeOK, WellPlaced, FileSteps
<1>4. Backed(u, registrations[u])
  BY DEF AccountIInv, CallsAreBacked
<1>5. registrations[u].step \notin {"ledger", "commit"} \cup Over => userDocs[u] = Nil
  BY DEF AccountIInv, DocumentsAreBacked, SavedBy
<1>. QED
  BY <1>1, <1>2, <1>3, <1>4, <1>5

\* The stores that a call does not touch keep what they say about the other users.
LEMMA DocumentsFrame ==
    ASSUME AccountIInv, UNCHANGED <<ledgerVars, revocations, userDocs>>
    PROVE  /\ DocumentsAreUnique' /\ ProposalsAreDocumented' /\ RecordsAreDocumented'
           /\ RevocationsAreBacked'
<1>. USE DEF ledgerVars
<1>1. DocumentsAreUnique'
  BY DEF AccountIInv, DocumentsAreUnique
<1>2. ProposalsAreDocumented'
  BY DEF AccountIInv, ProposalsAreDocumented, Documented, Pending
<1>3. RecordsAreDocumented'
  BY DEF AccountIInv, RecordsAreDocumented, Documented, OnLedger
<1>4. RevocationsAreBacked'
  BY DEF AccountIInv, RevocationsAreBacked, RevocationBacked, SuspendedOnLedger, OnLedger, Pending
<1>. QED
  BY <1>1, <1>2, <1>3, <1>4

LEMMA CallReplaced ==
    ASSUME AccountIInv, NEW u \in Users, registrations[u] # Nil,
           NEW call \in RegisterCall, call.form = registrations[u].form, WellPlaced(call),
           registrations' = [registrations EXCEPT ![u] = call]
    PROVE  Progress(u) /\ registrations'[u] = call
BY DEF AccountIInv, AccountTypeOK, Progress

LEMMA CallProgress ==
    ASSUME AccountIInv, NEW u \in Users, Progress(u),
           UNCHANGED <<ledgerVars, revocations, userDocs, startup>>,
           CodesGrow, OthersKeepFiles(u),
           Backed(u, registrations[u])',
           userDocs[u] # Nil => /\ SavedBy(registrations'[u], userDocs[u])
                                /\ authority'[u] = authority[u] /\ wallet'[u] = wallet[u]
    PROVE  AccountIInv'
<1>1. /\ registrations' \in [Users -> RegisterCall \cup {Nil}]
      /\ \A w \in Users \ {u} : registrations'[w] = registrations[w]
      /\ registrations'[u] # Nil
  BY NilIsNothing DEF AccountIInv, AccountTypeOK, Progress
<1>2. \A w \in Users : registrations'[w] # Nil => WellPlaced(registrations'[w])
  BY <1>1, CallFacts DEF Progress
<1>3. AccountTypeOK'
  BY <1>1, <1>2 DEF AccountIInv, AccountTypeOK, CodesGrow, OthersKeepFiles, WellPlaced, FileSteps
<1>4. CallsAreBacked'
  <2>1. ASSUME NEW w \in Users \ {u}, registrations'[w] # Nil
        PROVE  Backed(w, registrations[w])'
    <3>1. Backed(w, registrations[w]) /\ registrations'[w] = registrations[w]
      BY <1>1, <2>1, CallFacts
    <3>2. registrations[w].form.code \in Codes \cup {Nil}
      BY <1>1, <2>1, CallFacts DEF Form
    <3>3. InvitationUsed(registrations[w])'
      BY <3>1, <3>2 DEF Backed, InvitationUsed, CodesGrow
    <3>. QED
      BY <3>1, <3>2, <3>3 DEF Backed, Enrolment, CodesGrow, OthersKeepFiles
  <2>. QED
    BY <2>1 DEF CallsAreBacked
<1>5. DocumentsAreBacked'
  BY <1>1 DEF AccountIInv, DocumentsAreBacked, SavedBy, SuspendedOnLedger, OnLedger, Enrolment,
              OthersKeepFiles, ledgerVars
<1>. QED
  BY <1>3, <1>4, <1>5, DocumentsFrame DEF AccountIInv

\* The same when only the call itself changes, and the person has no document yet.
LEMMA CallMoves ==
    ASSUME AccountIInv, NEW u \in Users, Progress(u),
           UNCHANGED <<ledgerVars, revocations, codes, userDocs, authority, wallet, adminWallet,
                       startup>>,
           Backed(u, registrations[u])',
           userDocs[u] # Nil => SavedBy(registrations'[u], userDocs[u])
    PROVE  AccountIInv'
<1>1. CodesGrow /\ OthersKeepFiles(u)
  BY DEF AccountIInv, AccountTypeOK, CodesGrow, OthersKeepFiles
<1>. QED
  BY <1>1, CallProgress

-----------------------------------------------------------------------------
(* The awaits of register *)

\* The step that GoTo makes.
LEMMA GoToProgress ==
    ASSUME AccountIInv, NEW u \in Users, registrations[u] # Nil,
           NEW step \in RegisterSteps \ (FileSteps \cup {"commit"}),
           registrations[u].step \notin FileSteps \cup {"commit"},
           GoTo(u, step)
    PROVE  /\ Progress(u)
           /\ registrations'[u].step = step
           /\ registrations'[u].role = registrations[u].role
<1>. DEFINE call == Moved(registrations[u], step)
<1>1. /\ call \in RegisterCall /\ call.step = step /\ call.form = registrations[u].form
      /\ call.role = registrations[u].role
      /\ call.left = registrations[u].left /\ call.tx = registrations[u].tx
  BY CallFacts, MovedCall
<1>2. registrations' = [registrations EXCEPT ![u] = call]
  BY DEF GoTo
<1>. HIDE DEF call
<1>3. WellPlaced(call)
  BY <1>1, CallFacts DEF WellPlaced
<1>. QED
  BY <1>1, <1>2, <1>3, CallReplaced

\* An invitation stays used.
LEMMA InvitationStays ==
    ASSUME AccountIInv, NEW u \in Users, registrations[u] # Nil, CodesGrow,
           registrations'[u].form = registrations[u].form,
           registrations'[u].role = registrations[u].role
    PROVE  InvitationUsed(registrations[u])'
<1>1. InvitationUsed(registrations[u]) /\ registrations[u].form.code \in Codes \cup {Nil}
  BY CallFacts DEF Backed, Form
<1>. QED
  BY <1>1 DEF InvitationUsed, CodesGrow

LEMMA CheckPhoneStep ==
    ASSUME AccountIInv, NEW u \in Users, CheckPhone(u)
    PROVE  AccountIInv'
<1>1. registrations[u] # Nil /\ registrations[u].step = "phone"
  BY DEF CheckPhone, At
<1>2. PICK step \in {"refused", "code", "admin"} :
        GoTo(u, step) /\ (step = "code" => registrations[u].form.code # Nil)
  BY DEF CheckPhone
<1>3. /\ Progress(u) /\ registrations'[u].step = step
      /\ registrations'[u].role = registrations[u].role
  BY <1>1, <1>2, GoToProgress DEF RegisterSteps, Over, FileSteps
<1>4. CodesGrow /\ userDocs[u] = Nil
  BY <1>1, CallFacts DEF CheckPhone, CodesGrow, AccountIInv, AccountTypeOK, Over
<1>5. InvitationUsed(registrations[u])'
  BY <1>1, <1>3, <1>4, InvitationStays DEF Progress
<1>6. Backed(u, registrations[u])'
  BY <1>2, <1>3, <1>5 DEF Backed, Progress
<1>. QED
  BY <1>3, <1>4, <1>6, CallMoves DEF CheckPhone

LEMMA FindCodeStep ==
    ASSUME AccountIInv, NEW u \in Users, FindCode(u)
    PROVE  AccountIInv'
<1>1. registrations[u] # Nil /\ registrations[u].step = "code"
  BY DEF FindCode, At
<1>2. PICK step \in {"refused", "use_code"} :
        GoTo(u, step) /\ (step = "use_code" => codes[registrations[u].form.code] # Nil)
  BY DEF FindCode, Valid
<1>3. /\ Progress(u) /\ registrations'[u].step = step
      /\ registrations'[u].role = registrations[u].role
  BY <1>1, <1>2, GoToProgress DEF RegisterSteps, Over, FileSteps
<1>4. CodesGrow /\ userDocs[u] = Nil /\ registrations[u].form.code # Nil /\ codes' = codes
  BY <1>1, CallFacts DEF FindCode, CodesGrow, AccountIInv, AccountTypeOK, Over, Backed
<1>5. InvitationUsed(registrations[u])'
  BY <1>1, <1>3, <1>4, InvitationStays DEF Progress
<1>6. Backed(u, registrations[u])'
  BY <1>2, <1>3, <1>4, <1>5 DEF Backed, Progress
<1>. QED
  BY <1>3, <1>4, <1>6, CallMoves DEF FindCode

\* A code that is used keeps its role, and is a code.
LEMMA UsedCode ==
    ASSUME NEW code \in Code, NEW u \in Users
    PROVE  /\ [code EXCEPT !.usedBy = u] \in Code
           /\ [code EXCEPT !.usedBy = u].usedBy = u
           /\ [code EXCEPT !.usedBy = u].role = code.role
           /\ [code EXCEPT !.expired = TRUE] \in Code
           /\ [code EXCEPT !.expired = TRUE].usedBy = code.usedBy
           /\ [code EXCEPT !.expired = TRUE].role = code.role
           /\ code.role \in Officials /\ Officials \subseteq Roles
BY DEF Code, Officials, Roles

LEMMA UseCodeStep ==
    ASSUME AccountIInv, NEW u \in Users, UseCode(u)
    PROVE  AccountIInv'
<1>. DEFINE c == registrations[u].form.code
            role == codes[c].role
            new == [codes[c] EXCEPT !.usedBy = u]
<1>1. registrations[u] # Nil /\ registrations[u].step = "use_code"
  BY DEF UseCode, At
<1>2. /\ c \in Codes /\ codes[c] \in Code
      /\ registrations[u] \in RegisterCall /\ WellPlaced(registrations[u])
      /\ userDocs[u] = Nil
  <2>1. c \in Codes \cup {Nil} /\ c # Nil /\ codes[c] # Nil
    BY <1>1, CallFacts DEF Form, Backed
  <2>. QED
    BY <1>1, <2>1, CallFacts DEF AccountIInv, AccountTypeOK, Over
<1>. DEFINE call == Invited(registrations[u], role)
<1>3. /\ codes' = [codes EXCEPT ![c] = new]
      /\ registrations' = [registrations EXCEPT ![u] = call]
  BY DEF UseCode
<1>4. role \in Roles /\ role \in Officials /\ new \in Code /\ new.usedBy = u /\ new.role = role
  BY <1>2, UsedCode
<1>. HIDE DEF role, new
<1>5. /\ call \in RegisterCall /\ call.step = "admin" /\ call.form = registrations[u].form
      /\ call.role = role
      /\ WellPlaced(call)
  BY <1>1, <1>2, <1>4, InvitedCall DEF WellPlaced, FileSteps
<1>. HIDE DEF call
<1>6. /\ Progress(u) /\ registrations'[u].step = "admin" /\ registrations'[u].role = role
      /\ registrations'[u].form.code = c
  BY <1>1, <1>3, <1>5, CallReplaced
<1>7. /\ codes' \in [Codes -> Code \cup {Nil}]
      /\ codes'[c] = new
      /\ \A d \in Codes \ {c} : codes'[d] = codes[d]
  BY <1>2, <1>3, <1>4 DEF AccountIInv, AccountTypeOK
<1>8. CodesGrow
  BY <1>2, <1>4, <1>7, NilIsNothing DEF CodesGrow, role
<1>9. Backed(u, registrations[u])'
  BY <1>2, <1>4, <1>6, <1>7, NilIsNothing DEF Backed, InvitationUsed
<1>10. OthersKeepFiles(u)
  BY DEF UseCode, AccountIInv, AccountTypeOK, OthersKeepFiles
<1>. QED
  BY <1>2, <1>6, <1>8, <1>9, <1>10, CallProgress DEF UseCode

LEMMA EnrollAdminStep ==
    ASSUME AccountIInv, NEW u \in Users, EnrollAdmin(u)
    PROVE  AccountIInv'
<1>1. registrations[u] # Nil /\ registrations[u].step = "admin"
  BY DEF EnrollAdmin, At
<1>2. PICK step \in {"ca_register", "enroll_admin"} : GoTo(u, step)
  BY DEF EnrollAdmin
<1>3. /\ Progress(u) /\ registrations'[u].step = step
      /\ registrations'[u].role = registrations[u].role
  BY <1>1, <1>2, GoToProgress DEF RegisterSteps, Over, FileSteps
<1>4. CodesGrow /\ userDocs[u] = Nil
  BY <1>1, CallFacts DEF EnrollAdmin, CodesGrow, AccountIInv, AccountTypeOK, Over
<1>5. InvitationUsed(registrations[u])'
  BY <1>1, <1>3, <1>4, InvitationStays DEF Progress
<1>6. Backed(u, registrations[u])'
  BY <1>3, <1>5 DEF Backed, Progress
<1>. QED
  BY <1>3, <1>4, <1>6, CallMoves DEF EnrollAdmin

LEMMA EnrollNewAdminStep ==
    ASSUME AccountIInv, NEW u \in Users, EnrollNewAdmin(u)
    PROVE  AccountIInv'
<1>1. registrations[u] # Nil /\ registrations[u].step = "enroll_admin"
  BY DEF EnrollNewAdmin, At
<1>. DEFINE call == Enrolled(registrations[u], "save_admin")
<1>2. registrations' = [registrations EXCEPT ![u] = call]
  BY DEF EnrollNewAdmin
<1>3. /\ Progress(u) /\ registrations'[u].step = "save_admin"
      /\ registrations'[u].role = registrations[u].role
  <2>1. Files # {} /\ "save_admin" \in RegisterSteps
    BY DEF Files, RegisterSteps
  <2>2. /\ call \in RegisterCall /\ call.step = "save_admin"
        /\ call.form = registrations[u].form /\ call.role = registrations[u].role
        /\ call.left = Files
        /\ WellPlaced(call)
    BY <1>1, <2>1, CallFacts, EnrolledCall DEF WellPlaced, FileSteps
  <2>. HIDE DEF call
  <2>. QED
    BY <1>1, <1>2, <2>2, CallReplaced
<1>4. CodesGrow /\ userDocs[u] = Nil
  BY <1>1, CallFacts DEF EnrollNewAdmin, CodesGrow, AccountIInv, AccountTypeOK, Over
<1>5. InvitationUsed(registrations[u])'
  BY <1>1, <1>3, <1>4, InvitationStays DEF Progress
<1>6. Backed(u, registrations[u])'
  BY <1>3, <1>5 DEF Backed, Progress
<1>. QED
  BY <1>3, <1>4, <1>6, CallMoves DEF EnrollNewAdmin

\* The step of a call that has written one of its files.
LEMMA WrittenProgress ==
    ASSUME AccountIInv, NEW u \in Users, registrations[u] # Nil,
           registrations[u].step \in FileSteps,
           NEW f \in registrations[u].left, NEW next \in {"ca_register", "save", "refused"},
           registrations' = [registrations EXCEPT ![u] = Written(@, f, next)]
    PROVE  /\ Progress(u)
           /\ registrations'[u].role = registrations[u].role
           /\ registrations'[u].left = registrations[u].left \ {f}
           /\ registrations'[u].step = next \/ registrations'[u].step = registrations[u].step
           /\ registrations'[u].step = next => registrations[u].left = {f}
<1>. DEFINE call == Written(registrations[u], f, next)
<1>1. next \in RegisterSteps /\ next \notin FileSteps /\ next # "commit"
  BY DEF RegisterSteps, FileSteps, Over
<1>2. registrations[u] \in RegisterCall /\ WellPlaced(registrations[u])
  BY CallFacts
<1>3. /\ call \in RegisterCall /\ call.form = registrations[u].form
      /\ call.role = registrations[u].role /\ call.tx = registrations[u].tx
      /\ call.left = registrations[u].left \ {f}
      /\ call.step = IF registrations[u].left = {f} THEN next ELSE registrations[u].step
  BY <1>1, <1>2, WrittenCall
<1>. HIDE DEF call
<1>4. WellPlaced(call)
  BY <1>1, <1>2, <1>3 DEF WellPlaced, FileSteps
<1>5. Progress(u) /\ registrations'[u] = call
  BY <1>3, <1>4, CallReplaced DEF call
<1>6. next # registrations[u].step
  BY <1>1
<1>. QED
  BY <1>3, <1>5, <1>6

LEMMA SaveAdminFileStep ==
    ASSUME AccountIInv, NEW u \in Users, NEW f \in Files, SaveAdminFile(u, f)
    PROVE  AccountIInv'
<1>1. /\ registrations[u] # Nil /\ registrations[u].step \in {"save_admin", "late_admin"}
      /\ f \in registrations[u].left
  BY DEF SaveAdminFile, At
<1>2. PICK next \in {"ca_register", "refused"} :
        registrations' = [registrations EXCEPT ![u] = Written(@, f, next)]
  BY DEF SaveAdminFile
<1>3. /\ Progress(u) /\ registrations'[u].role = registrations[u].role
      /\ registrations'[u].step \in {"ca_register", "refused", "save_admin", "late_admin"}
  BY <1>1, <1>2, WrittenProgress DEF FileSteps
<1>4. CodesGrow /\ userDocs[u] = Nil
  BY <1>1, CallFacts DEF SaveAdminFile, CodesGrow, AccountIInv, AccountTypeOK, Over
<1>5. InvitationUsed(registrations[u])'
  BY <1>1, <1>3, <1>4, InvitationStays DEF Progress
<1>6. Backed(u, registrations[u])'
  BY <1>3, <1>5 DEF Backed
<1>7. OthersKeepFiles(u)
  BY DEF SaveAdminFile, AccountIInv, AccountTypeOK, OthersKeepFiles
<1>. QED
  BY <1>3, <1>4, <1>6, <1>7, CallProgress DEF SaveAdminFile

LEMMA RegisterAtCAStep ==
    ASSUME AccountIInv, NEW u \in Users, RegisterAtCA(u)
    PROVE  AccountIInv'
<1>1. registrations[u] # Nil /\ registrations[u].step = "ca_register"
  BY DEF RegisterAtCA, At
<1>2. /\ Progress(u) /\ registrations'[u].step = "ca_enroll"
      /\ registrations'[u].role = registrations[u].role
  BY <1>1, GoToProgress DEF RegisterAtCA, RegisterSteps, Over, FileSteps
<1>3. CodesGrow /\ userDocs[u] = Nil
  BY <1>1, CallFacts DEF RegisterAtCA, CodesGrow, AccountIInv, AccountTypeOK, Over
<1>4. InvitationUsed(registrations[u])'
  BY <1>1, <1>2, <1>3, InvitationStays DEF Progress
<1>5. Backed(u, registrations[u])'
  BY <1>2, <1>4 DEF Backed
<1>6. OthersKeepFiles(u)
  BY DEF RegisterAtCA, AccountIInv, AccountTypeOK, OthersKeepFiles
<1>. QED
  BY <1>2, <1>3, <1>5, <1>6, CallProgress DEF RegisterAtCA

LEMMA EnrollAtCAStep ==
    ASSUME AccountIInv, NEW u \in Users, EnrollAtCA(u)
    PROVE  AccountIInv'
<1>1. registrations[u] # Nil /\ registrations[u].step = "ca_enroll"
  BY DEF EnrollAtCA, At
<1>. DEFINE call == Enrolled(registrations[u], "save_files")
<1>2. registrations' = [registrations EXCEPT ![u] = call]
  BY DEF EnrollAtCA
<1>3. /\ Progress(u) /\ registrations'[u].step = "save_files"
      /\ registrations'[u].role = registrations[u].role
      /\ registrations'[u].left = Files
  <2>1. Files # {} /\ "save_files" \in RegisterSteps
    BY DEF Files, RegisterSteps
  <2>2. /\ call \in RegisterCall /\ call.step = "save_files"
        /\ call.form = registrations[u].form /\ call.role = registrations[u].role
        /\ call.left = Files
        /\ WellPlaced(call)
    BY <1>1, <2>1, CallFacts, EnrolledCall DEF WellPlaced, FileSteps
  <2>. HIDE DEF call
  <2>. QED
    BY <1>1, <1>2, <2>2, CallReplaced
<1>4. CodesGrow /\ userDocs[u] = Nil
  BY <1>1, CallFacts DEF EnrollAtCA, CodesGrow, AccountIInv, AccountTypeOK, Over
<1>5. InvitationUsed(registrations[u])'
  BY <1>1, <1>3, <1>4, InvitationStays DEF Progress
<1>6. OthersKeepFiles(u) /\ authority'[u] = "enrolled" /\ wallet'[u] \subseteq Files
  BY DEF EnrollAtCA, AccountIInv, AccountTypeOK, OthersKeepFiles
<1>7. Backed(u, registrations[u])'
  BY <1>3, <1>5, <1>6 DEF Backed
<1>. QED
  BY <1>3, <1>4, <1>6, <1>7, CallProgress DEF EnrollAtCA

LEMMA SaveFileStep ==
    ASSUME AccountIInv, NEW u \in Users, NEW f \in Files, SaveFile(u, f)
    PROVE  AccountIInv'
<1>1. /\ registrations[u] # Nil /\ f \in registrations[u].left
      /\ \E next \in {"save", "refused"} :
            /\ registrations[u].step = IF next = "save" THEN "save_files" ELSE "late_files"
            /\ registrations' = [registrations EXCEPT ![u] = Written(@, f, next)]
  BY DEF SaveFile, At
<1>2. PICK next \in {"save", "refused"} :
        /\ registrations[u].step = IF next = "save" THEN "save_files" ELSE "late_files"
        /\ registrations' = [registrations EXCEPT ![u] = Written(@, f, next)]
  BY <1>1
<1>3. /\ Progress(u) /\ registrations'[u].role = registrations[u].role
      /\ registrations'[u].left = registrations[u].left \ {f}
      /\ registrations'[u].step \in {next, registrations[u].step}
      /\ registrations'[u].step = next => registrations[u].left = {f}
  BY <1>1, <1>2, WrittenProgress DEF FileSteps
<1>4. CodesGrow /\ userDocs[u] = Nil
  BY <1>1, <1>2, CallFacts DEF SaveFile, CodesGrow, AccountIInv, AccountTypeOK, Over
<1>5. InvitationUsed(registrations[u])'
  BY <1>1, <1>3, <1>4, InvitationStays DEF Progress
<1>6. OthersKeepFiles(u) /\ authority' = authority /\ wallet'[u] = wallet[u] \cup {f}
  BY DEF SaveFile, AccountIInv, AccountTypeOK, OthersKeepFiles
<1>7. next = "save" => authority[u] = "enrolled" /\ wallet[u] \cup registrations[u].left = Files
  BY <1>1, <1>2, CallFacts DEF Backed
<1>8. Backed(u, registrations[u])'
  BY <1>1, <1>2, <1>3, <1>5, <1>6, <1>7 DEF Backed, Enrolment
<1>. QED
  BY <1>3, <1>4, <1>6, <1>8, CallProgress DEF SaveFile

LEMMA RegisterFailsStep ==
    ASSUME AccountIInv, NEW u \in Users, RegisterFails(u)
    PROVE  AccountIInv'
<1>1. registrations[u] # Nil /\ registrations[u] \in RegisterCall
  BY CallFacts DEF RegisterFails
<1>2. PICK call : /\ registrations' = [registrations EXCEPT ![u] = call]
                  /\ \/ call = Refused(registrations[u])
                     \/ \E late \in SUBSET registrations[u].left :
                           late # {} /\ call = Left(registrations[u], late)
  BY DEF RegisterFails
<1>3. /\ call \in RegisterCall /\ call.step \in {"refused", "late_admin", "late_files"}
      /\ call.form = registrations[u].form /\ call.role = registrations[u].role
      /\ WellPlaced(call)
      /\ call.step # "refused" => registrations[u].left # {}
  <2>1. CASE call = Refused(registrations[u])
    BY <1>1, <2>1, RefusedCall DEF WellPlaced, FileSteps
  <2>2. ASSUME NEW late \in SUBSET registrations[u].left, late # {},
               call = Left(registrations[u], late)
        PROVE  /\ call \in RegisterCall /\ call.step \in {"late_admin", "late_files"}
               /\ call.form = registrations[u].form /\ call.role = registrations[u].role
               /\ WellPlaced(call)
               /\ registrations[u].left # {}
    <3>1. /\ call \in RegisterCall /\ call.step \in {"late_admin", "late_files"}
          /\ call.form = registrations[u].form /\ call.role = registrations[u].role
          /\ call.left = late /\ call.tx = registrations[u].tx
      BY <1>1, <2>2, LeftCall
    <3>2. registrations[u].tx = Nil
      BY <1>1, <2>2, CallFacts DEF WellPlaced, FileSteps
    <3>. QED
      BY <2>2, <3>1, <3>2 DEF WellPlaced, FileSteps
  <2>. QED
    BY <1>2, <2>1, <2>2
<1>4. Progress(u) /\ registrations'[u] = call
  BY <1>1, <1>2, <1>3, CallReplaced
<1>5. CodesGrow
  BY DEF RegisterFails, CodesGrow, AccountIInv, AccountTypeOK
<1>6. InvitationUsed(registrations[u])'
  BY <1>1, <1>3, <1>4, <1>5, InvitationStays DEF Progress
<1>7. Backed(u, registrations[u])'
  BY <1>3, <1>4, <1>6 DEF Backed
<1>8. userDocs[u] # Nil => SavedBy(registrations'[u], userDocs[u])
  <2>1. SUFFICES ASSUME userDocs[u] # Nil PROVE SavedBy(registrations'[u], userDocs[u])
    OBVIOUS
  <2>2. registrations[u].step \in {"ledger", "commit"} \cup Over /\ SavedBy(registrations[u], userDocs[u])
    BY <1>1, <2>1 DEF AccountIInv, DocumentsAreBacked, SavedBy
  <2>3. call.step = "refused"
    BY <1>1, <1>3, <2>2, CallFacts DEF WellPlaced, FileSteps, Over
  <2>. QED
    BY <1>3, <1>4, <2>2, <2>3 DEF SavedBy, Over
<1>. QED
  BY <1>4, <1>7, <1>8, CallMoves DEF RegisterFails

LEMMA RegisterStart ==
    ASSUME AccountIInv, NEW u \in Users, NEW form \in Form, Register(u, form)
    PROVE  AccountIInv'
<1>1. registrations' = [registrations EXCEPT ![u] =
            [step |-> "phone", form |-> form, role |-> "voter", left |-> {}, tx |-> Nil]]
  BY DEF Register
<1>. DEFINE call ==
        [step |-> "phone", form |-> form, role |-> "voter", left |-> {}, tx |-> Nil]
<1>2. /\ call \in RegisterCall /\ call.step = "phone" /\ call.role \notin Officials
      /\ WellPlaced(call)
  BY DEF RegisterCall, RegisterSteps, Roles, Officials, WellPlaced, FileSteps
<1>3. userDocs[u] = Nil
  BY DEF Register, AccountIInv, DocumentsAreBacked
<1>. HIDE DEF call
<1>4. /\ registrations' \in [Users -> RegisterCall \cup {Nil}]
      /\ registrations'[u] = call
      /\ \A w \in Users \ {u} : registrations'[w] = registrations[w]
  BY <1>1, <1>2 DEF AccountIInv, AccountTypeOK, call
<1>5. AccountTypeOK'
  BY <1>2, <1>4 DEF Register, AccountIInv, AccountTypeOK, WellPlaced, FileSteps
<1>6. CallsAreBacked'
  <2>1. Backed(u, registrations[u])'
    BY <1>2, <1>4 DEF Backed, InvitationUsed
  <2>2. ASSUME NEW w \in Users \ {u}, registrations'[w] # Nil
        PROVE  Backed(w, registrations[w])'
    BY <1>4, <2>2, CallFacts DEF Register, Backed, InvitationUsed, Enrolment
  <2>. QED
    BY <2>1, <2>2 DEF CallsAreBacked
<1>7. DocumentsAreBacked'
  BY <1>3, <1>4 DEF Register, AccountIInv, DocumentsAreBacked, SavedBy, SuspendedOnLedger,
                    OnLedger, Enrolment, ledgerVars
<1>. QED
  BY <1>5, <1>6, <1>7, DocumentsFrame DEF Register, AccountIInv

\* Codes that grow change nothing else.
LEMMA CodesProgress ==
    ASSUME AccountIInv, CodesGrow,
           UNCHANGED <<ledgerVars, registrations, revocations, userDocs, authority, wallet,
                       adminWallet, startup>>
    PROVE  AccountIInv'
<1>1. AccountTypeOK'
  BY DEF AccountIInv, AccountTypeOK, CodesGrow
<1>2. CallsAreBacked'
  <2>1. ASSUME NEW w \in Users, registrations[w] # Nil
        PROVE  Backed(w, registrations[w])'
    <3>1. Backed(w, registrations[w]) /\ registrations[w].form.code \in Codes \cup {Nil}
      BY <2>1, CallFacts DEF Form
    <3>2. InvitationUsed(registrations[w])'
      BY <2>1, InvitationStays
    <3>. QED
      BY <3>1, <3>2 DEF Backed, Enrolment, CodesGrow
  <2>. QED
    BY <2>1 DEF CallsAreBacked
<1>3. DocumentsAreBacked'
  BY DEF AccountIInv, DocumentsAreBacked, SavedBy, SuspendedOnLedger, OnLedger, Enrolment,
         ledgerVars
<1>. QED
  BY <1>1, <1>2, <1>3, DocumentsFrame DEF AccountIInv

LEMMA GenerateCodeStep ==
    ASSUME AccountIInv, NEW c \in Codes, NEW role \in Officials, GenerateCode(c, role)
    PROVE  AccountIInv'
<1>1. codes' = [codes EXCEPT ![c] = [role |-> role, usedBy |-> Nil, expired |-> FALSE]]
  BY DEF GenerateCode
<1>. DEFINE new == [role |-> role, usedBy |-> Nil, expired |-> FALSE]
<1>2. new \in Code
  BY DEF Code
<1>. HIDE DEF new
<1>3. CodesGrow
  BY <1>1, <1>2 DEF GenerateCode, CodesGrow, AccountIInv, AccountTypeOK, new
<1>. QED
  BY <1>3, CodesProgress DEF GenerateCode

LEMMA ExpireCodeStep ==
    ASSUME AccountIInv, NEW c \in Codes, ExpireCode(c)
    PROVE  AccountIInv'
<1>. DEFINE new == [codes[c] EXCEPT !.expired = TRUE]
<1>1. codes' = [codes EXCEPT ![c] = new]
  BY DEF ExpireCode
<1>2. codes[c] \in Code
  BY DEF ExpireCode, AccountIInv, AccountTypeOK
<1>3. new \in Code /\ new.usedBy = codes[c].usedBy /\ new.role = codes[c].role
  BY <1>2 DEF Code
<1>. HIDE DEF new
<1>4. CodesGrow
  BY <1>1, <1>3, NilIsNothing DEF CodesGrow, AccountIInv, AccountTypeOK
<1>. QED
  BY <1>4, CodesProgress DEF ExpireCode

\* A user without a document is in no store behind it.
LEMMA NoDocument ==
    ASSUME AccountIInv, NEW u \in Users, userDocs[u] = Nil
    PROVE  /\ ~OnLedger(u)
           /\ \A t \in Txs : Pending(t) => UserKey(u) \notin DOMAIN inflight[t].writes
           /\ \A r \in Revocations : revocations[r] # Nil => revocations[r].user # u
BY DEF AccountIInv, RecordsAreDocumented, ProposalsAreDocumented, RevocationsAreBacked,
       Documented, RevocationBacked

LEMMA SaveUserStep ==
    ASSUME AccountIInv, NEW u \in Users, SaveUser(u)
    PROVE  AccountIInv'
<1>. DEFINE form == registrations[u].form
            role == registrations[u].role
            doc == NewUserDoc(form, role)
<1>1. registrations[u] # Nil /\ registrations[u].step = "save"
  BY DEF SaveUser, At
<1>2. /\ form \in Form /\ role \in Roles /\ Enrolment(u) /\ userDocs[u] = Nil
  BY <1>1, CallFacts DEF Backed, Over
<1>3. /\ \A w \in Users : userDocs[w] # Nil => Unique(doc, userDocs[w])
      /\ userDocs' = [userDocs EXCEPT ![u] = doc]
      /\ GoTo(u, "ledger")
  BY DEF SaveUser
<1>4. /\ Progress(u) /\ registrations'[u].step = "ledger"
      /\ registrations'[u].role = role
  BY <1>1, <1>3, GoToProgress DEF RegisterSteps, Over, FileSteps
<1>5. /\ doc \in UserDoc
      /\ doc.nationalIdUnique = UniqueHash(form.person)
      /\ doc.phoneUnique = UniqueHash(form.phone)
      /\ doc.governorate = form.governorate /\ doc.role = role
  BY <1>2 DEF NewUserDoc, UserDoc, Form, UserStatuses
<1>. HIDE DEF doc
<1>6. /\ userDocs' \in [Users -> UserDoc \cup {Nil}]
      /\ userDocs'[u] = doc /\ doc # Nil
      /\ \A w \in Users \ {u} : userDocs'[w] = userDocs[w]
  BY <1>3, <1>5, NilIsNothing DEF AccountIInv, AccountTypeOK
<1>7. /\ CodesGrow
      /\ UNCHANGED <<ledgerVars, revocations, codes, authority, wallet, adminWallet, startup>>
  BY DEF SaveUser, CodesGrow, AccountIInv, AccountTypeOK
<1>8. \A w \in Users : registrations'[w] # Nil => WellPlaced(registrations'[w])
  BY <1>4, CallFacts DEF Progress
<1>9. AccountTypeOK'
  BY <1>4, <1>6, <1>7, <1>8 DEF Progress, AccountIInv, AccountTypeOK, WellPlaced, FileSteps
<1>10. CallsAreBacked'
  <2>1. InvitationUsed(registrations[u])'
    BY <1>1, <1>4, <1>7, InvitationStays DEF Progress
  <2>2. Backed(u, registrations[u])'
    BY <1>4, <1>6, <2>1 DEF Backed
  <2>3. ASSUME NEW w \in Users \ {u}, registrations'[w] # Nil
        PROVE  Backed(w, registrations[w])'
    BY <1>4, <1>6, <1>7, <2>3, CallFacts DEF Progress, Backed, InvitationUsed, Enrolment
  <2>. QED
    BY <2>2, <2>3 DEF CallsAreBacked
<1>11. DocumentsAreBacked'
  <2>1. SavedBy(registrations[u], userDocs[u])' /\ Enrolment(u)'
    BY <1>2, <1>4, <1>5, <1>6, <1>7 DEF SavedBy, Progress, Enrolment
  <2>2. ASSUME NEW w \in Users \ {u}, userDocs'[w] # Nil
        PROVE  /\ registrations'[w] # Nil
               /\ SavedBy(registrations[w], userDocs[w])'
               /\ (SuspendedOnLedger(w) \/ Enrolment(w))'
    BY <1>4, <1>6, <1>7, <2>2
    DEF AccountIInv, DocumentsAreBacked, SavedBy, Progress, SuspendedOnLedger, OnLedger,
        Enrolment, ledgerVars
  <2>. QED
    BY <1>4, <2>1, <2>2, NilIsNothing DEF DocumentsAreBacked, Progress
<1>12. DocumentsAreUnique'
  <2>1. \A w \in Users \ {u} : userDocs[w] # Nil =>
            Unique(doc, userDocs[w]) /\ Unique(userDocs[w], doc)
    BY <1>3 DEF Unique
  <2>2. ASSUME NEW v \in Users, NEW w \in Users,
               userDocs'[v] # Nil, userDocs'[w] # Nil, v # w
        PROVE  Unique(userDocs'[v], userDocs'[w])
    BY <1>6, <2>1, <2>2 DEF AccountIInv, DocumentsAreUnique
  <2>. QED
    BY <2>2 DEF DocumentsAreUnique, Unique
<1>13. ProposalsAreDocumented' /\ RecordsAreDocumented' /\ RevocationsAreBacked'
  <2>. USE DEF ledgerVars
  <2>1. ProposalsAreDocumented'
    BY <1>2, <1>6, <1>7, NoDocument DEF AccountIInv, ProposalsAreDocumented, Documented, Pending
  <2>2. RecordsAreDocumented'
    BY <1>2, <1>6, <1>7, NoDocument DEF AccountIInv, RecordsAreDocumented, Documented, OnLedger
  <2>3. RevocationsAreBacked'
    <3>1. \A r \in Revocations : revocations[r] # Nil => revocations[r].user \in Users \ {u}
      BY <1>2, NoDocument DEF AccountIInv, AccountTypeOK, RevokeCall
    <3>. QED
      BY <1>6, <1>7, <3>1 DEF AccountIInv, RevocationsAreBacked, RevocationBacked,
                              SuspendedOnLedger, OnLedger, Pending
  <2>. QED
    BY <2>1, <2>2, <2>3
<1>. QED
  BY <1>9, <1>10, <1>11, <1>12, <1>13 DEF AccountIInv

-----------------------------------------------------------------------------
(* The ledger *)

\* What a proposal about users says follows the documents.
FollowsDocuments(tx) ==
    \A w \in Users : UserKey(w) \in DOMAIN tx.writes =>
        /\ Documented(w, tx.writes[UserKey(w)])
        /\ UserKey(w) \in DOMAIN tx.reads
        /\ \/ tx.reads[UserKey(w)] = Nil
           \/ tx.writes[UserKey(w)].status = "suspended"

\* A transaction that is submitted takes a free place.
LEMMA SubmitFacts ==
    ASSUME TypeOK, NEW t \in Txs, NEW tx, Submit(t, tx)
    PROVE  /\ worldState' = worldState
           /\ ~Pending(t)
           /\ inflight'[t] = tx
           /\ \A s \in Txs \ {t} : inflight'[s] = inflight[s]
BY DEF Submit, Pending, TypeOK

LEMMA SubmitFollows ==
    ASSUME AccountIInv, TypeOK, NEW t \in Txs, NEW tx, Submit(t, tx), FollowsDocuments(tx),
           UNCHANGED userDocs
    PROVE  /\ ProposalsAreDocumented' /\ RecordsAreDocumented'
           /\ \A r \in Revocations :
                 revocations[r] # Nil /\ revocations'[r] = revocations[r]
                 => RevocationBacked(revocations[r])'
<1>1. /\ worldState' = worldState /\ ~Pending(t) /\ inflight'[t] = tx
      /\ \A s \in Txs \ {t} : inflight'[s] = inflight[s]
  BY SubmitFacts
<1>2. ProposalsAreDocumented'
  BY <1>1 DEF AccountIInv, ProposalsAreDocumented, Documented, Pending, FollowsDocuments
<1>3. RecordsAreDocumented'
  BY <1>1 DEF AccountIInv, RecordsAreDocumented, Documented, OnLedger
<1>4. ASSUME NEW r \in Revocations, revocations[r] # Nil, revocations'[r] = revocations[r]
      PROVE  RevocationBacked(revocations[r])'
  <2>1. RevocationBacked(revocations[r])
    BY <1>4 DEF AccountIInv, RevocationsAreBacked
  <2>. QED
    BY <1>1, <1>4, <2>1 DEF RevocationBacked, SuspendedOnLedger, OnLedger, Pending
<1>. QED
  BY <1>2, <1>3, <1>4

LEMMA RegisterUserFollows ==
    ASSUME AccountIInv, NEW t \in Txs, NEW u \in Users, NEW g, NEW role,
           RegisterUser(t, u, g, role),
           userDocs[u] # Nil, userDocs[u].role = role, userDocs[u].governorate = g
    PROVE  \E tx : Submit(t, tx) /\ FollowsDocuments(tx)
<1>. DEFINE reads == Read({UserKey(u)})
            user == NewUser(g, role)
            writes == [k \in {UserKey(u)} |-> user]
            tx == Transaction(reads, writes, [name |-> "user_registered", user |-> u], Nil)
<1>1. Submit(t, tx) /\ reads[UserKey(u)] = Nil
  BY DEF RegisterUser, CanRegister
<1>2. DOMAIN reads = {UserKey(u)} /\ DOMAIN writes = {UserKey(u)} /\ writes[UserKey(u)] = user
  BY DEF Read
<1>3. Documented(u, user)
  BY DEF Documented, NewUser
<1>4. tx.reads = reads /\ tx.writes = writes
  <2>. HIDE DEF reads, writes
  <2>. QED
    BY DEF Transaction
<1>. HIDE DEF reads, writes, user, tx
<1>5. FollowsDocuments(tx)
  BY <1>1, <1>2, <1>3, <1>4, KeysDiffer DEF FollowsDocuments
<1>. QED
  BY <1>1, <1>5

LEMMA SuspensionFollows ==
    ASSUME AccountIInv, TypeOK, NilIsNoTransaction,
           NEW t \in Txs, NEW o \in Users, NEW u \in Users,
           UpdateUserStatus(t, o, u, "suspended"),
           userDocs[u] # Nil, userDocs[u].status = "suspended"
    PROVE  \E tx : /\ Submit(t, tx) /\ FollowsDocuments(tx)
                   /\ tx # Nil
                   /\ UserKey(u) \in DOMAIN tx.writes
                   /\ tx.writes[UserKey(u)].status = "suspended"
<1>. DEFINE reads == Read({UserKey(o), UserKey(u)})
            old == reads[UserKey(u)]
            user == [old EXCEPT !.status = "suspended"]
            written == StatusWrites(u, "suspended")
            writes == [k \in written |-> IF k = UserKey(u) THEN user ELSE [revokedBy |-> o]]
            event == [name |-> "user_status_updated", userId |-> u, status |-> "suspended",
                      updatedBy |-> o]
            tx == Transaction(reads, writes, event, Nil)
<1>1. Submit(t, tx) /\ old # Nil
  BY DEF UpdateUserStatus
<1>2. DOMAIN reads = {UserKey(o), UserKey(u)} /\ old = worldState[UserKey(u)]
  BY DEF Read
<1>3. written = {UserKey(u), RevocationKey(u)}
  BY DEF StatusWrites
<1>4. tx.reads = reads /\ tx.writes = writes /\ tx # Nil
  <2>. HIDE DEF reads, writes, event
  <2>1. DOMAIN tx = {"reads", "writes", "event", "result", "stale"}
    BY DEF Transaction
  <2>2. tx.reads = reads /\ tx.writes = writes
    BY DEF Transaction
  <2>. HIDE DEF tx
  <2>. QED
    BY <2>1, <2>2 DEF NilIsNoTransaction
<1>. HIDE DEF reads
<1>5. old \in User
  BY <1>1, <1>2, KeysTyped DEF TypeOK, WellTyped
<1>6. /\ user.status = "suspended" /\ user.role = old.role
      /\ user.governorate = old.governorate
  BY <1>5 DEF User
<1>7. Documented(u, user)
  BY <1>1, <1>2, <1>6 DEF AccountIInv, RecordsAreDocumented, OnLedger, Documented
<1>. HIDE DEF old, user, written, tx
<1>8. DOMAIN writes = {UserKey(u), RevocationKey(u)} /\ writes[UserKey(u)] = user
  BY <1>3
<1>. HIDE DEF writes
<1>9. FollowsDocuments(tx)
  BY <1>2, <1>4, <1>6, <1>7, <1>8, KeysDiffer DEF FollowsDocuments
<1>. QED
  BY <1>1, <1>4, <1>6, <1>8, <1>9

LEMMA RegisterOnLedgerStep ==
    ASSUME AccountIInv, TypeOK, NEW u \in Users, NEW t \in Txs, RegisterOnLedger(u, t)
    PROVE  AccountIInv'
<1>. DEFINE call == Waits(registrations[u], t)
<1>1. /\ registrations[u] # Nil /\ registrations[u].step = "ledger"
      /\ registrations' = [registrations EXCEPT ![u] = call]
      /\ UNCHANGED <<revocations, codes, userDocs, authority, wallet, adminWallet, startup>>
  BY DEF RegisterOnLedger, At
<1>2. /\ call \in RegisterCall /\ call.step = "commit"
      /\ call.form = registrations[u].form /\ call.role = registrations[u].role
      /\ WellPlaced(call)
  BY <1>1, CallFacts, WaitingCall, NilIsNothing DEF WellPlaced, FileSteps
<1>. HIDE DEF call
<1>3. Progress(u) /\ registrations'[u] = call
  BY <1>1, <1>2, CallReplaced
<1>4. userDocs[u] # Nil /\ SavedBy(registrations[u], userDocs[u])
  BY <1>1, CallFacts DEF Backed, AccountIInv, DocumentsAreBacked
<1>5. \E tx : Submit(t, tx) /\ FollowsDocuments(tx)
  BY <1>4, RegisterUserFollows DEF RegisterOnLedger, SavedBy
<1>6. worldState' = worldState
  BY <1>5 DEF Submit
<1>7. AccountTypeOK'
  <2>1. \A w \in Users : registrations'[w] # Nil => WellPlaced(registrations'[w])
    BY <1>2, <1>3, CallFacts DEF Progress
  <2>. QED
    BY <1>1, <1>3, <2>1 DEF Progress, AccountIInv, AccountTypeOK, WellPlaced, FileSteps
<1>8. CallsAreBacked'
  <2>1. Backed(u, registrations[u])'
    BY <1>1, <1>2, <1>3, <1>4, CallFacts DEF Backed, InvitationUsed
  <2>2. ASSUME NEW w \in Users \ {u}, registrations'[w] # Nil
        PROVE  Backed(w, registrations[w])'
    BY <1>1, <1>3, <2>2, CallFacts DEF Progress, Backed, InvitationUsed, Enrolment
  <2>. QED
    BY <2>1, <2>2 DEF CallsAreBacked
<1>9. DocumentsAreBacked'
  <2>1. SavedBy(registrations[u], userDocs[u])'
    BY <1>1, <1>2, <1>3, <1>4 DEF SavedBy
  <2>. QED
    BY <1>1, <1>3, <1>6, <2>1, NilIsNothing
    DEF Progress, AccountIInv, DocumentsAreBacked, SavedBy, SuspendedOnLedger, OnLedger, Enrolment
<1>10. DocumentsAreUnique'
  BY <1>1 DEF AccountIInv, DocumentsAreUnique
<1>11. ProposalsAreDocumented' /\ RecordsAreDocumented' /\ RevocationsAreBacked'
  BY <1>1, <1>5, SubmitFollows DEF RevocationsAreBacked
<1>. QED
  BY <1>7, <1>8, <1>9, <1>10, <1>11 DEF AccountIInv

-----------------------------------------------------------------------------
(* The awaits of revokeUser *)

\* A call of revokeUser of a state that satisfies the invariant.
LEMMA RevocationFacts ==
    ASSUME AccountIInv, NEW r \in Revocations, revocations[r] # Nil
    PROVE  /\ revocations[r] \in RevokeCall
           /\ revocations[r].user \in Users /\ revocations[r].by \in Users
           /\ revocations[r].tx = Nil <=> revocations[r].step # "commit"
           /\ RevocationBacked(revocations[r])
<1>1. revocations[r] \in RevokeCall
  BY DEF AccountIInv, AccountTypeOK
<1>2. revocations[r].tx = Nil <=> revocations[r].step # "commit"
  BY DEF AccountIInv, AccountTypeOK
<1>. QED
  BY <1>1, <1>2 DEF AccountIInv, RevocationsAreBacked, RevokeCall

\* A suspended document is the same but for its status.
LEMMA SuspendedDoc ==
    ASSUME NEW doc \in UserDoc
    PROVE  LET new == [doc EXCEPT !.status = "suspended"]
           IN  /\ new \in UserDoc
               /\ new.status = "suspended"
               /\ new.nationalIdUnique = doc.nationalIdUnique
               /\ new.phoneUnique = doc.phoneUnique
               /\ new.governorate = doc.governorate /\ new.role = doc.role
BY DEF UserDoc, UserStatuses

LEMMA SuspendInDatabaseStep ==
    ASSUME AccountIInv, NEW r \in Revocations, SuspendInDatabase(r)
    PROVE  AccountIInv'
<1>1. PICK o \in Users, u \in Users :
        /\ userDocs[u] # Nil
        /\ userDocs' = [userDocs EXCEPT ![u] = [@ EXCEPT !.status = "suspended"]]
        /\ revocations' = [revocations EXCEPT ![r] =
              [step |-> "ledger", by |-> o, user |-> u, tx |-> Nil]]
  BY DEF SuspendInDatabase
<1>. DEFINE doc == [userDocs[u] EXCEPT !.status = "suspended"]
            call == [step |-> "ledger", by |-> o, user |-> u, tx |-> Nil]
<1>2. /\ doc \in UserDoc /\ doc.status = "suspended"
      /\ doc.nationalIdUnique = userDocs[u].nationalIdUnique
      /\ doc.phoneUnique = userDocs[u].phoneUnique
      /\ doc.governorate = userDocs[u].governorate /\ doc.role = userDocs[u].role
  <2>1. userDocs[u] \in UserDoc
    BY <1>1 DEF AccountIInv, AccountTypeOK
  <2>. QED
    BY <2>1, SuspendedDoc
<1>3. /\ call \in RevokeCall /\ call.step = "ledger" /\ call.user = u /\ call.tx = Nil
  BY DEF RevokeCall, RevokeSteps
<1>. USE DEF ledgerVars
<1>4. UNCHANGED <<ledgerVars, registrations, codes, authority, wallet, adminWallet, startup>>
  BY DEF SuspendInDatabase
<1>5. /\ userDocs' = [userDocs EXCEPT ![u] = doc]
      /\ revocations' = [revocations EXCEPT ![r] = call]
  BY <1>1
<1>. HIDE DEF doc, call
<1>6. /\ userDocs' \in [Users -> UserDoc \cup {Nil}]
      /\ userDocs'[u] = doc /\ doc # Nil
      /\ \A w \in Users \ {u} : userDocs'[w] = userDocs[w]
      /\ revocations' \in [Revocations -> RevokeCall \cup {Nil}]
      /\ revocations'[r] = call /\ call # Nil
      /\ \A q \in Revocations \ {r} : revocations'[q] = revocations[q]
  BY <1>2, <1>3, <1>5, NilIsNothing DEF AccountIInv, AccountTypeOK
<1>7. AccountTypeOK'
  BY <1>3, <1>4, <1>6 DEF AccountIInv, AccountTypeOK
<1>8. CallsAreBacked'
  BY <1>4, <1>6 DEF AccountIInv, CallsAreBacked, Backed, InvitationUsed, Enrolment
<1>9. DocumentsAreBacked'
  BY <1>1, <1>2, <1>4, <1>6
  DEF AccountIInv, DocumentsAreBacked, SavedBy, SuspendedOnLedger, OnLedger, Enrolment
<1>10. DocumentsAreUnique'
  BY <1>1, <1>2, <1>6 DEF AccountIInv, DocumentsAreUnique, Unique
<1>11. \A w \in Users : \A user : Documented(w, user) => Documented(w, user)'
  BY <1>1, <1>2, <1>6 DEF Documented
<1>12. ProposalsAreDocumented'
  BY <1>4, <1>11 DEF AccountIInv, ProposalsAreDocumented, Pending
<1>13. RecordsAreDocumented'
  BY <1>4, <1>11 DEF AccountIInv, RecordsAreDocumented, OnLedger
<1>14. RevocationsAreBacked'
  <2>1. RevocationBacked(revocations[r])'
    BY <1>2, <1>3, <1>6 DEF RevocationBacked
  <2>2. ASSUME NEW q \in Revocations \ {r}, revocations'[q] # Nil
        PROVE  RevocationBacked(revocations[q])'
    <3>1. RevocationBacked(revocations[q]) /\ revocations[q].user \in Users
      BY <1>6, <2>2, RevocationFacts
    <3>. QED
      BY <1>2, <1>4, <1>6, <2>2, <3>1
      DEF RevocationBacked, SuspendedOnLedger, OnLedger, Pending
  <2>. QED
    BY <2>1, <2>2 DEF RevocationsAreBacked
<1>. QED
  BY <1>7, <1>8, <1>9, <1>10, <1>12, <1>13, <1>14 DEF AccountIInv

LEMMA SuspendOnLedgerStep ==
    ASSUME AccountIInv, TypeOK, NilIsNoTransaction,
           NEW r \in Revocations, NEW t \in Txs, SuspendOnLedger(r, t)
    PROVE  AccountIInv'
<1>. DEFINE call == Waits(revocations[r], t)
            u == revocations[r].user
<1>1. /\ revocations[r] # Nil /\ revocations[r].step = "ledger"
      /\ revocations' = [revocations EXCEPT ![r] = call]
      /\ UpdateUserStatus(t, revocations[r].by, u, "suspended")
      /\ UNCHANGED <<registrations, codes, userDocs, authority, wallet, adminWallet, startup>>
  BY DEF SuspendOnLedger, Revoking
<1>2. /\ call \in RevokeCall /\ call.step = "commit" /\ call.user = u /\ call.tx = t
      /\ t # Nil
  BY <1>1, RevocationFacts, WaitingRevocation, NilIsNothing
<1>3. u \in Users /\ userDocs[u] # Nil /\ userDocs[u].status = "suspended"
  BY <1>1, RevocationFacts DEF RevocationBacked
<1>4. PICK tx : /\ Submit(t, tx) /\ FollowsDocuments(tx)
                /\ tx # Nil
                /\ UserKey(u) \in DOMAIN tx.writes
                /\ tx.writes[UserKey(u)].status = "suspended"
  BY <1>1, <1>3, RevocationFacts, SuspensionFollows
<1>. HIDE DEF call
<1>5. /\ revocations' \in [Revocations -> RevokeCall \cup {Nil}]
      /\ revocations'[r] = call /\ call # Nil
      /\ \A q \in Revocations \ {r} : revocations'[q] = revocations[q]
  BY <1>1, <1>2, NilIsNothing DEF AccountIInv, AccountTypeOK
<1>6. worldState' = worldState /\ inflight'[t] = tx
  BY <1>4, SubmitFacts
<1>7. AccountTypeOK'
  BY <1>1, <1>2, <1>5 DEF AccountIInv, AccountTypeOK
<1>8. CallsAreBacked'
  BY <1>1 DEF AccountIInv, CallsAreBacked, Backed, InvitationUsed, Enrolment
<1>9. DocumentsAreBacked'
  BY <1>1, <1>6 DEF AccountIInv, DocumentsAreBacked, SavedBy, SuspendedOnLedger, OnLedger, Enrolment
<1>10. DocumentsAreUnique'
  BY <1>1 DEF AccountIInv, DocumentsAreUnique
<1>11. ProposalsAreDocumented' /\ RecordsAreDocumented'
  BY <1>1, <1>4, SubmitFollows
<1>12. RevocationsAreBacked'
  <2>1. RevocationBacked(revocations[r])'
    BY <1>1, <1>2, <1>3, <1>4, <1>5, <1>6 DEF RevocationBacked, Pending
  <2>2. ASSUME NEW q \in Revocations \ {r}, revocations'[q] # Nil
        PROVE  RevocationBacked(revocations[q])'
    BY <1>1, <1>4, <1>5, <2>2, SubmitFollows
  <2>. QED
    BY <2>1, <2>2 DEF RevocationsAreBacked
<1>. QED
  BY <1>7, <1>8, <1>9, <1>10, <1>11, <1>12 DEF AccountIInv

\* A call of revokeUser that goes on to a later await, or ends, disturbs no other call;
\* what it takes from a user is what a suspended one has no more need of.
LEMMA RevocationProgress ==
    ASSUME AccountIInv, NEW r \in Revocations, NEW u \in Users,
           UNCHANGED <<ledgerVars, registrations, codes, userDocs, adminWallet, startup>>,
           revocations' \in [Revocations -> RevokeCall \cup {Nil}],
           \A q \in Revocations \ {r} : revocations'[q] = revocations[q],
           revocations'[r] # Nil =>
              /\ revocations'[r].tx = Nil <=> revocations'[r].step # "commit"
              /\ RevocationBacked(revocations[r])',
           authority' \in [Users -> {"unknown", "registered", "enrolled", "revoked"}],
           wallet' \in [Users -> SUBSET Files],
           \A w \in Users \ {u} : authority'[w] = authority[w] /\ wallet'[w] = wallet[w],
           \/ authority'[u] = authority[u] /\ wallet'[u] = wallet[u]
           \/ userDocs[u] # Nil /\ SuspendedOnLedger(u)
    PROVE  AccountIInv'
<1>. USE DEF ledgerVars
<1>1. AccountTypeOK'
  BY DEF AccountIInv, AccountTypeOK
<1>2. CallsAreBacked'
  <2>1. ASSUME NEW w \in Users, registrations[w] # Nil
        PROVE  Backed(w, registrations[w])'
    <3>1. Backed(w, registrations[w])
      BY <2>1, CallFacts
    <3>2. CASE authority'[w] = authority[w] /\ wallet'[w] = wallet[w]
      BY <3>1, <3>2 DEF Backed, InvitationUsed, Enrolment
    <3>3. CASE userDocs[w] # Nil
      <4>1. registrations[w].step \in {"ledger", "commit"} \cup Over
        BY <2>1, <3>3, CallFacts
      <4>. QED
        BY <3>1, <4>1 DEF Backed, InvitationUsed, Over
    <3>. QED
      BY <3>2, <3>3
  <2>. QED
    BY <2>1 DEF CallsAreBacked
<1>3. DocumentsAreBacked'
  BY DEF AccountIInv, DocumentsAreBacked, SavedBy, SuspendedOnLedger, OnLedger, Enrolment
<1>4. DocumentsAreUnique' /\ ProposalsAreDocumented' /\ RecordsAreDocumented'
  BY DEF AccountIInv, DocumentsAreUnique, ProposalsAreDocumented, RecordsAreDocumented,
         Documented, Pending, OnLedger
<1>5. RevocationsAreBacked'
  <2>1. ASSUME NEW q \in Revocations \ {r}, revocations'[q] # Nil
        PROVE  RevocationBacked(revocations[q])'
    BY <2>1, RevocationFacts DEF RevocationBacked, SuspendedOnLedger, OnLedger, Pending
  <2>. QED
    BY <2>1 DEF RevocationsAreBacked
<1>. QED
  BY <1>1, <1>2, <1>3, <1>4, <1>5 DEF AccountIInv

LEMMA RevokeAtCAStep ==
    ASSUME AccountIInv, NEW r \in Revocations, RevokeAtCA(r)
    PROVE  AccountIInv'
<1>. DEFINE call == Moved(revocations[r], "remove")
            u == revocations[r].user
<1>1. /\ revocations[r] # Nil /\ revocations[r].step = "ca"
      /\ revocations' = [revocations EXCEPT ![r] = call]
      /\ authority' = [authority EXCEPT ![u] = "revoked"]
      /\ UNCHANGED <<ledgerVars, registrations, codes, userDocs, wallet, adminWallet, startup>>
  BY DEF RevokeAtCA, Revoking
<1>2. /\ u \in Users /\ revocations[r] \in RevokeCall /\ revocations[r].tx = Nil
      /\ userDocs[u] # Nil /\ userDocs[u].status = "suspended" /\ SuspendedOnLedger(u)
  BY <1>1, RevocationFacts DEF RevocationBacked
<1>3. call \in RevokeCall /\ call.step = "remove" /\ call.user = u /\ call.tx = Nil
  BY <1>2, MovedRevocation
<1>. HIDE DEF call
<1>4. /\ revocations' \in [Revocations -> RevokeCall \cup {Nil}]
      /\ revocations'[r] = call
      /\ \A q \in Revocations \ {r} : revocations'[q] = revocations[q]
  BY <1>1, <1>3 DEF AccountIInv, AccountTypeOK
<1>5. RevocationBacked(revocations[r])'
  BY <1>1, <1>2, <1>3, <1>4 DEF RevocationBacked, SuspendedOnLedger, OnLedger, ledgerVars
<1>6. /\ authority' \in [Users -> {"unknown", "registered", "enrolled", "revoked"}]
      /\ wallet' \in [Users -> SUBSET Files]
      /\ \A w \in Users \ {u} : authority'[w] = authority[w] /\ wallet'[w] = wallet[w]
  BY <1>1 DEF AccountIInv, AccountTypeOK
<1>. HIDE DEF u
<1>. QED
  BY <1>1, <1>2, <1>3, <1>4, <1>5, <1>6, RevocationProgress

LEMMA RemoveFilesStep ==
    ASSUME AccountIInv, NEW r \in Revocations, RemoveFiles(r)
    PROVE  AccountIInv'
<1>. DEFINE u == revocations[r].user
<1>1. /\ revocations[r] # Nil /\ revocations[r].step = "remove"
      /\ revocations' = [revocations EXCEPT ![r] = Nil]
      /\ UNCHANGED <<ledgerVars, registrations, codes, userDocs, authority, adminWallet, startup>>
  BY DEF RemoveFiles, Revoking
<1>2. PICK left \in SUBSET wallet[u] : wallet' = [wallet EXCEPT ![u] = left]
  BY DEF RemoveFiles
<1>3. u \in Users /\ userDocs[u] # Nil /\ SuspendedOnLedger(u)
  BY <1>1, RevocationFacts DEF RevocationBacked
<1>4. /\ revocations' \in [Revocations -> RevokeCall \cup {Nil}]
      /\ revocations'[r] = Nil
      /\ \A q \in Revocations \ {r} : revocations'[q] = revocations[q]
  BY <1>1 DEF AccountIInv, AccountTypeOK
<1>5. /\ authority' \in [Users -> {"unknown", "registered", "enrolled", "revoked"}]
      /\ wallet' \in [Users -> SUBSET Files]
      /\ \A w \in Users \ {u} : authority'[w] = authority[w] /\ wallet'[w] = wallet[w]
  BY <1>1, <1>2, <1>3 DEF AccountIInv, AccountTypeOK
<1>. HIDE DEF u
<1>. QED
  BY <1>1, <1>3, <1>4, <1>5, RevocationProgress

LEMMA RevokeFailsStep ==
    ASSUME AccountIInv, NEW r \in Revocations, RevokeFails(r)
    PROVE  AccountIInv'
<1>1. /\ revocations' \in [Revocations -> RevokeCall \cup {Nil}]
      /\ revocations'[r] = Nil
      /\ \A q \in Revocations \ {r} : revocations'[q] = revocations[q]
  BY DEF RevokeFails, AccountIInv, AccountTypeOK
<1>2. revocations[r].user \in Users
  BY RevocationFacts DEF RevokeFails
<1>3. /\ authority' \in [Users -> {"unknown", "registered", "enrolled", "revoked"}]
      /\ wallet' \in [Users -> SUBSET Files]
      /\ UNCHANGED <<ledgerVars, registrations, codes, userDocs, authority, wallet, adminWallet, startup>>
  BY DEF RevokeFails, AccountIInv, AccountTypeOK
<1>. QED
  BY <1>1, <1>2, <1>3, RevocationProgress

-----------------------------------------------------------------------------
(* The answers of the ledger, and the process *)

\* A call that is left alone, has been refused, or has been told of its commit.
Settled(call, new) ==
    \/ new = call
    \/ /\ new.form = call.form /\ new.role = call.role
       /\ WellPlaced(new)
       /\ new.step = "refused" \/ (call.step = "commit" /\ new.step = "registered")

\* Calls of register may end, any number of them at once.
CallsSettle ==
    /\ registrations' \in [Users -> RegisterCall \cup {Nil}]
    /\ \A u \in Users :
          IF registrations[u] = Nil THEN registrations'[u] = Nil
          ELSE registrations'[u] # Nil /\ Settled(registrations[u], registrations'[u])

LEMMA SettledCalls ==
    ASSUME AccountIInv, CallsSettle,
           UNCHANGED <<codes, userDocs, authority, wallet, adminWallet>>
    PROVE  /\ \A u \in Users : registrations'[u] # Nil => WellPlaced(registrations'[u])
           /\ CallsAreBacked'
           /\ \A u \in Users : userDocs[u] # Nil =>
                 registrations'[u] # Nil /\ SavedBy(registrations'[u], userDocs[u])
<1>1. ASSUME NEW u \in Users, registrations'[u] # Nil
      PROVE  /\ WellPlaced(registrations'[u])
             /\ Backed(u, registrations[u])'
  <2>1. registrations[u] # Nil /\ Settled(registrations[u], registrations'[u])
    BY <1>1 DEF CallsSettle
  <2>2. WellPlaced(registrations[u]) /\ Backed(u, registrations[u])
    BY <2>1, CallFacts
  <2>3. CASE registrations'[u] = registrations[u]
    BY <2>2, <2>3 DEF Backed, InvitationUsed, Enrolment
  <2>4. CASE registrations'[u] # registrations[u]
    BY <2>1, <2>2, <2>4 DEF Settled, Backed, InvitationUsed
  <2>. QED
    BY <2>3, <2>4
<1>2. ASSUME NEW u \in Users, userDocs[u] # Nil
      PROVE  registrations'[u] # Nil /\ SavedBy(registrations'[u], userDocs[u])
  <2>1. registrations[u] # Nil /\ SavedBy(registrations[u], userDocs[u])
    BY <1>2 DEF AccountIInv, DocumentsAreBacked
  <2>2. registrations'[u] # Nil /\ Settled(registrations[u], registrations'[u])
    BY <2>1 DEF CallsSettle
  <2>. QED
    BY <2>1, <2>2 DEF Settled, SavedBy, Over
<1>. QED
  BY <1>1, <1>2 DEF CallsAreBacked

\* The calls of register that wait for the transaction at t end with it.
LEMMA AnsweredCalls ==
    ASSUME AccountIInv, NEW t \in Txs, NEW committed \in BOOLEAN,
           Answered(t, committed, "registered")
    PROVE  CallsSettle
<1>. DEFINE step == IF committed THEN "registered" ELSE "refused"
            new(u) == IF At(u, "commit") /\ registrations[u].tx = t
                      THEN Resumed(registrations[u], step) ELSE registrations[u]
<1>1. registrations' = [u \in Users |-> new(u)]
  BY DEF Answered
<1>2. ASSUME NEW u \in Users
      PROVE  /\ new(u) \in RegisterCall \cup {Nil}
             /\ IF registrations[u] = Nil THEN new(u) = Nil
                ELSE new(u) # Nil /\ Settled(registrations[u], new(u))
  <2>1. CASE ~(At(u, "commit") /\ registrations[u].tx = t)
    BY <2>1 DEF AccountIInv, AccountTypeOK, Settled
  <2>2. CASE At(u, "commit") /\ registrations[u].tx = t
    <3>1. registrations[u] # Nil /\ registrations[u].step = "commit"
      BY <2>2 DEF At
    <3>2. step \in RegisterSteps /\ step \in Over
      BY DEF RegisterSteps, Over
    <3>. HIDE DEF step
    <3>3. /\ Resumed(registrations[u], step) \in RegisterCall
          /\ Resumed(registrations[u], step).step = step
          /\ Resumed(registrations[u], step).form = registrations[u].form
          /\ Resumed(registrations[u], step).role = registrations[u].role
          /\ Resumed(registrations[u], step).left = registrations[u].left
          /\ Resumed(registrations[u], step).tx = Nil
      BY <3>1, <3>2, CallFacts, ResumedCall
    <3>4. registrations[u].left = {}
      BY <3>1, CallFacts DEF WellPlaced, FileSteps
    <3>. QED
      BY <2>2, <3>1, <3>2, <3>3, <3>4, NilIsNothing DEF Settled, WellPlaced, FileSteps, Over
  <2>. QED
    BY <2>1, <2>2
<1>. HIDE DEF new
<1>. QED
  BY <1>1, <1>2 DEF CallsSettle

\* A transaction in flight stays in flight when another one commits.
LEMMA OthersStayInFlight ==
    ASSUME TypeOK, NilIsNoTransaction, NEW t \in Txs, Commit(t),
           NEW s \in Txs \ {t}, Pending(s)
    PROVE  Pending(s)'
<1>. DEFINE fields == {"reads", "writes", "event", "result", "stale"}
            stale == inflight[s].stale \/
                     DOMAIN inflight[s].reads \cap DOMAIN inflight[t].writes # {}
<1>1. DOMAIN inflight[s] = fields
  BY DEF TypeOK, WellFormed
<1>2. inflight' = AfterCommit(t, DOMAIN inflight[t].writes)
  BY DEF Commit
<1>3. inflight'[s] = [inflight[s] EXCEPT !.stale = stale]
  BY <1>2 DEF AfterCommit
<1>. HIDE DEF stale
<1>4. DOMAIN inflight'[s] = fields
  BY <1>1, <1>3
<1>. QED
  BY <1>4 DEF NilIsNoTransaction, Pending

\* The record of a user changes as its proposal says; a suspension is never undone.
LEMMA CommittedRecords ==
    ASSUME AccountIInv, TypeOK, ReadsAreCurrent, NEW t \in Txs, Commit(t), NEW u \in Users,
           UNCHANGED userDocs
    PROVE  /\ OnLedger(u)' => Documented(u, worldState[UserKey(u)])'
           /\ SuspendedOnLedger(u) => SuspendedOnLedger(u)'
           /\ UserKey(u) \in DOMAIN inflight[t].writes
                 => worldState'[UserKey(u)] = inflight[t].writes[UserKey(u)]
           /\ OnLedger(u) => OnLedger(u)'
<1>. DEFINE tx == inflight[t]
<1>1. /\ Pending(t) /\ ~tx.stale /\ WellFormed(tx)
      /\ \A k \in Keys \ DOMAIN tx.writes : worldState'[k] = worldState[k]
      /\ \A k \in Keys \cap DOMAIN tx.writes : worldState'[k] = tx.writes[k]
  BY CommitFacts
<1>2. UserKey(u) \in Keys
  BY KeysTyped
<1>3. CASE UserKey(u) \notin DOMAIN tx.writes
  BY <1>1, <1>2, <1>3 DEF AccountIInv, RecordsAreDocumented, OnLedger, Documented, SuspendedOnLedger
<1>4. CASE UserKey(u) \in DOMAIN tx.writes
  <2>1. /\ Documented(u, tx.writes[UserKey(u)])
        /\ UserKey(u) \in DOMAIN tx.reads
        /\ \/ tx.reads[UserKey(u)] = Nil
           \/ tx.writes[UserKey(u)].status = "suspended"
    BY <1>1, <1>4 DEF AccountIInv, ProposalsAreDocumented
  <2>2. tx.reads[UserKey(u)] = worldState[UserKey(u)]
    BY <1>1, <2>1 DEF ReadsAreCurrent
  <2>3. worldState'[UserKey(u)] = tx.writes[UserKey(u)] /\ tx.writes[UserKey(u)] # Nil
    BY <1>1, <1>2, <1>4 DEF WellFormed
  <2>. HIDE DEF tx
  <2>. QED
    BY <2>1, <2>2, <2>3 DEF OnLedger, SuspendedOnLedger, Documented, tx
<1>. QED
  BY <1>3, <1>4

LEMMA AccountCommitStep ==
    ASSUME AccountIInv, TypeOK, ReadsAreCurrent, NilIsNoTransaction,
           NEW t \in Txs, AccountCommit(t)
    PROVE  AccountIInv'
<1>1. /\ Commit(t) /\ Answered(t, TRUE, "registered")
      /\ UNCHANGED <<codes, userDocs, authority, wallet, adminWallet, startup>>
  BY DEF AccountCommit
<1>2. CallsSettle
  BY <1>1, AnsweredCalls
<1>3. /\ \A u \in Users : registrations'[u] # Nil => WellPlaced(registrations'[u])
      /\ CallsAreBacked'
      /\ \A u \in Users : userDocs[u] # Nil =>
            registrations'[u] # Nil /\ SavedBy(registrations'[u], userDocs[u])
  BY <1>1, <1>2, SettledCalls
<1>4. ASSUME NEW r \in Revocations
      PROVE  /\ revocations'[r] \in RevokeCall \cup {Nil}
             /\ revocations'[r] # Nil =>
                   /\ revocations'[r].tx = Nil <=> revocations'[r].step # "commit"
                   /\ RevocationBacked(revocations[r])'
  <2>0. revocations'[r] = IF Revoking(r, "commit") /\ revocations[r].tx = t
                          THEN Resumed(revocations[r], "ca") ELSE revocations[r]
    BY <1>1 DEF Answered
  <2>1. CASE revocations[r] = Nil
    BY <2>0, <2>1 DEF Revoking
  <2>2. CASE revocations[r] # Nil
    <3>. DEFINE call == Resumed(revocations[r], "ca")
    <3>0. PICK u \in Users : u = revocations[r].user
      BY <2>2, RevocationFacts
    <3>1. /\ revocations[r] \in RevokeCall
          /\ revocations[r].tx = Nil <=> revocations[r].step # "commit"
          /\ RevocationBacked(revocations[r])
      BY <2>2, RevocationFacts
    <3>2. /\ SuspendedOnLedger(u) => SuspendedOnLedger(u)'
          /\ UserKey(u) \in DOMAIN inflight[t].writes
                => worldState'[UserKey(u)] = inflight[t].writes[UserKey(u)]
      BY <1>1, CommittedRecords
    <3>3. CASE Revoking(r, "commit") /\ revocations[r].tx = t
      <4>1. call \in RevokeCall /\ call.step = "ca" /\ call.user = u /\ call.tx = Nil
        BY <3>0, <3>1, ResumedRevocation
      <4>2. /\ Pending(t) /\ UserKey(u) \in DOMAIN inflight[t].writes
            /\ inflight[t].writes[UserKey(u)].status = "suspended"
        BY <3>0, <3>1, <3>3 DEF RevocationBacked, Revoking
      <4>3. inflight[t].writes[UserKey(u)] # Nil
        BY <4>2 DEF TypeOK, WellFormed
      <4>4. SuspendedOnLedger(u)'
        <5>. QED
          BY <3>2, <4>2, <4>3 DEF SuspendedOnLedger, OnLedger
      <4>. QED
        BY <1>1, <2>0, <3>0, <3>1, <3>3, <4>1, <4>4 DEF RevocationBacked
    <3>4. CASE ~(Revoking(r, "commit") /\ revocations[r].tx = t)
      <4>1. revocations'[r] = revocations[r]
        BY <2>0, <3>4
      <4>2. revocations[r].step = "commit" =>
              /\ revocations[r].tx \in Txs \ {t} /\ Pending(revocations[r].tx)
        BY <2>2, <3>1, <3>4 DEF Revoking, RevocationBacked
      <4>. QED
        BY <1>1, <3>0, <3>1, <3>2, <4>1, <4>2, CommitFacts, OthersStayInFlight DEF RevocationBacked
    <3>. QED
      BY <3>3, <3>4
  <2>. QED
    BY <2>1, <2>2
<1>5. DOMAIN revocations' = Revocations /\ revocations' = [r \in Revocations |-> revocations'[r]]
  BY <1>1 DEF Answered
<1>6. AccountTypeOK'
  BY <1>1, <1>2, <1>3, <1>4, <1>5
  DEF CallsSettle, AccountIInv, AccountTypeOK, WellPlaced, FileSteps
<1>7. DocumentsAreBacked'
  BY <1>1, <1>3, CommittedRecords DEF AccountIInv, DocumentsAreBacked, SavedBy, Enrolment
<1>8. DocumentsAreUnique'
  BY <1>1 DEF AccountIInv, DocumentsAreUnique
<1>9. ProposalsAreDocumented'
  BY <1>1, CommitFacts DEF AccountIInv, ProposalsAreDocumented, Documented
<1>10. RecordsAreDocumented'
  BY <1>1, CommittedRecords DEF RecordsAreDocumented
<1>11. RevocationsAreBacked'
  BY <1>4 DEF RevocationsAreBacked
<1>. QED
  BY <1>3, <1>6, <1>7, <1>8, <1>9, <1>10, <1>11 DEF AccountIInv

LEMMA AccountDiscardStep ==
    ASSUME AccountIInv, TypeOK, NEW t \in Txs, AccountDiscard(t)
    PROVE  AccountIInv'
<1>1. /\ Discard(t) /\ Answered(t, FALSE, "registered")
      /\ UNCHANGED <<codes, userDocs, authority, wallet, adminWallet, startup>>
  BY DEF AccountDiscard
<1>2. CallsSettle
  BY <1>1, AnsweredCalls
<1>3. /\ \A u \in Users : registrations'[u] # Nil => WellPlaced(registrations'[u])
      /\ CallsAreBacked'
      /\ \A u \in Users : userDocs[u] # Nil =>
            registrations'[u] # Nil /\ SavedBy(registrations'[u], userDocs[u])
  BY <1>1, <1>2, SettledCalls
<1>4. /\ worldState' = worldState
      /\ \A s \in Txs \ {t} : inflight'[s] = inflight[s]
      /\ ~Pending(t)'
  BY <1>1 DEF Discard, Pending, TypeOK
<1>5. /\ DOMAIN revocations' = Revocations
      /\ revocations' = [r \in Revocations |-> revocations'[r]]
      /\ \A r \in Revocations :
            revocations'[r] = IF Revoking(r, "commit") /\ revocations[r].tx = t
                              THEN Nil ELSE revocations[r]
  BY <1>1 DEF Answered
<1>6. \A r \in Revocations : revocations'[r] # Nil =>
          /\ revocations'[r] = revocations[r]
          /\ revocations[r].step = "commit" => revocations[r].tx # t
  BY <1>5 DEF Revoking
<1>7. AccountTypeOK'
  BY <1>1, <1>2, <1>3, <1>5, <1>6
  DEF CallsSettle, AccountIInv, AccountTypeOK, WellPlaced, FileSteps
<1>8. DocumentsAreBacked'
  BY <1>1, <1>3, <1>4
  DEF AccountIInv, DocumentsAreBacked, SavedBy, Enrolment, SuspendedOnLedger, OnLedger
<1>9. DocumentsAreUnique'
  BY <1>1 DEF AccountIInv, DocumentsAreUnique
<1>10. ProposalsAreDocumented'
  BY <1>1, <1>4 DEF AccountIInv, ProposalsAreDocumented, Documented, Pending
<1>11. RecordsAreDocumented'
  BY <1>1, <1>4 DEF AccountIInv, RecordsAreDocumented, Documented, OnLedger
<1>12. RevocationsAreBacked'
  <2>1. ASSUME NEW r \in Revocations, revocations'[r] # Nil
        PROVE  RevocationBacked(revocations[r])'
    BY <1>1, <1>4, <1>6, <2>1, RevocationFacts
    DEF RevocationBacked, SuspendedOnLedger, OnLedger, Pending
  <2>. QED
    BY <2>1 DEF RevocationsAreBacked
<1>. QED
  BY <1>3, <1>7, <1>8, <1>9, <1>10, <1>11, <1>12 DEF AccountIInv

LEMMA AccountRestartStep ==
    ASSUME AccountIInv, AccountRestart
    PROVE  AccountIInv'
<1>1. /\ UNCHANGED <<ledgerVars, codes, userDocs, authority, wallet, adminWallet>>
      /\ revocations' = [r \in Revocations |-> Nil]
      /\ startup' = Started("admin", {})
  BY DEF AccountRestart
<1>2. CallsSettle
  <2>. DEFINE new(u) == IF registrations[u] = Nil \/ registrations[u].step \in Over
                        THEN registrations[u] ELSE Refused(registrations[u])
  <2>1. registrations' = [u \in Users |-> new(u)]
    BY DEF AccountRestart
  <2>2. ASSUME NEW u \in Users
        PROVE  /\ new(u) \in RegisterCall \cup {Nil}
               /\ IF registrations[u] = Nil THEN new(u) = Nil
                  ELSE new(u) # Nil /\ Settled(registrations[u], new(u))
    <3>1. CASE registrations[u] = Nil \/ registrations[u].step \in Over
      BY <3>1 DEF AccountIInv, AccountTypeOK, Settled
    <3>2. CASE ~(registrations[u] = Nil \/ registrations[u].step \in Over)
      <4>1. /\ Refused(registrations[u]) \in RegisterCall
            /\ Refused(registrations[u]).step = "refused"
            /\ Refused(registrations[u]).form = registrations[u].form
            /\ Refused(registrations[u]).role = registrations[u].role
            /\ Refused(registrations[u]).left = {} /\ Refused(registrations[u]).tx = Nil
        BY <3>2, CallFacts, RefusedCall
      <4>. QED
        BY <3>2, <4>1, NilIsNothing DEF Settled, WellPlaced, FileSteps
    <3>. QED
      BY <3>1, <3>2
  <2>. HIDE DEF new
  <2>. QED
    BY <2>1, <2>2 DEF CallsSettle
<1>3. /\ \A u \in Users : registrations'[u] # Nil => WellPlaced(registrations'[u])
      /\ CallsAreBacked'
      /\ \A u \in Users : userDocs[u] # Nil =>
            registrations'[u] # Nil /\ SavedBy(registrations'[u], userDocs[u])
  BY <1>1, <1>2, SettledCalls
<1>. USE DEF ledgerVars
<1>4. AccountTypeOK'
  BY <1>1, <1>2, <1>3
  DEF CallsSettle, AccountIInv, AccountTypeOK, WellPlaced, FileSteps, Started, StartSteps
<1>5. DocumentsAreBacked'
  BY <1>1, <1>3
  DEF AccountIInv, DocumentsAreBacked, SavedBy, Enrolment, SuspendedOnLedger, OnLedger
<1>6. DocumentsAreUnique' /\ ProposalsAreDocumented' /\ RecordsAreDocumented'
  BY <1>1 DEF AccountIInv, DocumentsAreUnique, ProposalsAreDocumented, RecordsAreDocumented,
              Documented, Pending, OnLedger
<1>7. RevocationsAreBacked'
  BY <1>1 DEF RevocationsAreBacked
<1>. QED
  BY <1>3, <1>4, <1>5, <1>6, <1>7 DEF AccountIInv

\* The files of the administrator, and the start-up, are in no other part of the invariant.
LEMMA OnlyAdminChanges ==
    ASSUME AccountIInv, AdminTypeOK',
           UNCHANGED <<ledgerVars, registrations, revocations, codes, userDocs, authority, wallet>>
    PROVE  AccountIInv'
<1>. USE DEF ledgerVars
<1>1. AccountTypeOK'
  BY DEF AccountIInv, AccountTypeOK, AdminTypeOK
<1>2. CallsAreBacked'
  BY DEF AccountIInv, CallsAreBacked, Backed, InvitationUsed, Enrolment
<1>3. DocumentsAreBacked'
  BY DEF AccountIInv, DocumentsAreBacked, SavedBy, SuspendedOnLedger, OnLedger, Enrolment
<1>4. DocumentsAreUnique' /\ ProposalsAreDocumented' /\ RecordsAreDocumented'
      /\ RevocationsAreBacked'
  BY DocumentsFrame
<1>. QED
  BY <1>1, <1>2, <1>3, <1>4 DEF AccountIInv

LEMMA AccountStutter ==
    ASSUME AccountIInv, UNCHANGED accountVars
    PROVE  AccountIInv'
<1>1. AdminTypeOK'
  BY DEF accountVars, AccountIInv, AccountTypeOK, AdminTypeOK
<1>. QED
  BY <1>1, OnlyAdminChanges DEF accountVars, ledgerVars

\* A start-up that has written one of its files.
LEMMA WrittenStart ==
    ASSUME NEW call \in [step : StartSteps, left : SUBSET Files], NEW f
    PROVE  /\ Written(call, f, "serving") \in [step : StartSteps, left : SUBSET Files]
           /\ Written(call, f, "serving").left = call.left \ {f}
           /\ Written(call, f, "serving").step =
                 IF call.left = {f} THEN "serving" ELSE call.step
<1>. DEFINE step == IF call.left = {f} THEN "serving" ELSE call.step
<1>1. step \in StartSteps
  BY DEF StartSteps
<1>2. Written(call, f, "serving") = [call EXCEPT !.left = call.left \ {f}, !.step = step]
  BY DEF Written
<1>. HIDE DEF step
<1>3. /\ Written(call, f, "serving") \in [step : StartSteps, left : SUBSET Files]
      /\ Written(call, f, "serving").left = call.left \ {f}
      /\ Written(call, f, "serving").step = step
  BY <1>1, <1>2
<1>. QED
  BY <1>3 DEF step

LEMMA StartStepIInv ==
    ASSUME AccountIInv, StartStep
    PROVE  AccountIInv'
<1>1. AdminTypeOK
  BY DEF AccountIInv, AccountTypeOK, AdminTypeOK
<1>2. UNCHANGED <<ledgerVars, registrations, revocations, codes, userDocs, authority, wallet>>
  BY DEF StartStep, StartAdmin, StartEnrolls, StartFails, StartSavesFile
<1>3. CASE StartAdmin \/ StartEnrolls
  <2>1. AdminTypeOK'
    BY <1>1, <1>3 DEF StartAdmin, StartEnrolls, AdminTypeOK, Started, StartSteps, Files
  <2>. QED
    BY <1>2, <2>1, OnlyAdminChanges
<1>4. CASE StartFails
  <2>1. AdminTypeOK'
    BY <1>1, <1>4 DEF StartFails, AdminTypeOK, Started, StartSteps
  <2>. QED
    BY <1>2, <2>1, OnlyAdminChanges
<1>5. ASSUME NEW f \in Files, StartSavesFile(f)
      PROVE  AccountIInv'
  <2>. DEFINE new == Written(startup, f, "serving")
  <2>1. /\ new \in [step : StartSteps, left : SUBSET Files]
        /\ new.left = startup.left \ {f}
        /\ new.step = IF startup.left = {f} THEN "serving" ELSE startup.step
    BY <1>1, WrittenStart DEF AdminTypeOK
  <2>2. /\ f \in startup.left /\ startup' = new
        /\ adminWallet' = [adminWallet EXCEPT ![f] = "server"]
    BY <1>5 DEF StartSavesFile
  <2>. HIDE DEF new
  <2>3. AdminTypeOK'
    BY <1>1, <2>1, <2>2 DEF AdminTypeOK
  <2>. QED
    BY <1>2, <2>3, OnlyAdminChanges
<1>. QED
  BY <1>3, <1>4, <1>5 DEF StartStep

LEMMA AccountInitIInv == AccountInit => AccountIInv
<1>. SUFFICES ASSUME AccountInit PROVE AccountIInv
  OBVIOUS
<1>1. /\ \A u \in Users : registrations[u] = Nil /\ userDocs[u] = Nil
      /\ \A r \in Revocations : revocations[r] = Nil
  BY DEF AccountInit
<1>2. /\ \A u \in Users : ~OnLedger(u)
      /\ \A t \in Txs : ~Pending(t)
  BY KeysTyped DEF AccountInit, Init, OnLedger, Pending
<1>3. AccountTypeOK
  BY <1>1 DEF AccountInit, AccountTypeOK, Started, StartSteps
<1>. QED
  BY <1>1, <1>2, <1>3 DEF AccountIInv, CallsAreBacked, DocumentsAreBacked, DocumentsAreUnique,
     ProposalsAreDocumented, RecordsAreDocumented, RevocationsAreBacked

-----------------------------------------------------------------------------
(* The invariant *)

LEMMA RegisterStepIInv ==
    ASSUME AccountIInv, TypeOK, NEW u \in Users, RegisterStep(u)
    PROVE  AccountIInv'
<1>2. CASE CheckPhone(u)
  BY <1>2, CheckPhoneStep
<1>3. CASE FindCode(u)
  BY <1>3, FindCodeStep
<1>4. CASE UseCode(u)
  BY <1>4, UseCodeStep
<1>5. CASE EnrollAdmin(u)
  BY <1>5, EnrollAdminStep
<1>6. CASE EnrollNewAdmin(u)
  BY <1>6, EnrollNewAdminStep
<1>7. CASE RegisterAtCA(u)
  BY <1>7, RegisterAtCAStep
<1>8. CASE EnrollAtCA(u)
  BY <1>8, EnrollAtCAStep
<1>9. ASSUME NEW f \in Files, SaveAdminFile(u, f) PROVE AccountIInv'
  BY <1>9, SaveAdminFileStep
<1>10. ASSUME NEW f \in Files, SaveFile(u, f) PROVE AccountIInv'
  BY <1>10, SaveFileStep
<1>11. CASE SaveUser(u)
  BY <1>11, SaveUserStep
<1>12. ASSUME NEW t \in Txs, RegisterOnLedger(u, t) PROVE AccountIInv'
  BY <1>12, RegisterOnLedgerStep
<1>13. CASE RegisterFails(u)
  BY <1>13, RegisterFailsStep
<1>. QED
  BY <1>2, <1>3, <1>4, <1>5, <1>6, <1>7, <1>8, <1>9, <1>10, <1>11, <1>12, <1>13
  DEF RegisterStep

LEMMA RevokeStepIInv ==
    ASSUME AccountIInv, TypeOK, NilIsNoTransaction, NEW r \in Revocations, RevokeStep(r)
    PROVE  AccountIInv'
<1>1. CASE SuspendInDatabase(r)
  BY <1>1, SuspendInDatabaseStep
<1>2. ASSUME NEW t \in Txs, SuspendOnLedger(r, t) PROVE AccountIInv'
  BY <1>2, SuspendOnLedgerStep
<1>3. CASE RevokeAtCA(r)
  BY <1>3, RevokeAtCAStep
<1>4. CASE RemoveFiles(r)
  BY <1>4, RemoveFilesStep
<1>5. CASE RevokeFails(r)
  BY <1>5, RevokeFailsStep
<1>. QED
  BY <1>1, <1>2, <1>3, <1>4, <1>5 DEF RevokeStep

\* What the handlers do to the ledger is what the contract allows.
LEMMA AccountStepIsContractStep ==
    ASSUME AccountIInv, [AccountNext]_accountVars
    PROVE  [Next]_ledgerVars
<1>1. ASSUME NEW u \in Users, RegisterStep(u) PROVE [Next]_ledgerVars
  <2>1. ASSUME NEW t \in Txs, RegisterOnLedger(u, t) PROVE Next
    <3>. DEFINE g == registrations[u].form.governorate
                role == registrations[u].role
    <3>1. registrations[u] # Nil /\ RegisterUser(t, u, g, role)
      BY <2>1 DEF RegisterOnLedger, At
    <3>2. g \in Governorates /\ role \in Roles
      BY <3>1, CallFacts DEF Form
    <3>. HIDE DEF g, role
    <3>. QED
      BY <3>1, <3>2 DEF Next, UserCall
  <2>2. CASE \A t \in Txs : ~RegisterOnLedger(u, t)
    BY <1>1, <2>2
    DEF RegisterStep, CheckPhone, FindCode, UseCode, EnrollAdmin, EnrollNewAdmin,
        SaveAdminFile, RegisterAtCA, EnrollAtCA, SaveFile, SaveUser, RegisterFails
  <2>. QED
    BY <2>1, <2>2
<1>2. ASSUME NEW r \in Revocations, RevokeStep(r) PROVE [Next]_ledgerVars
  <2>1. ASSUME NEW t \in Txs, SuspendOnLedger(r, t) PROVE Next
    <3>. DEFINE o == revocations[r].by
                u == revocations[r].user
    <3>1. revocations[r] # Nil /\ UpdateUserStatus(t, o, u, "suspended")
      BY <2>1 DEF SuspendOnLedger, Revoking
    <3>2. o \in Users /\ u \in Users /\ "suspended" \in UserStatuses
      BY <3>1, RevocationFacts DEF UserStatuses
    <3>. HIDE DEF o, u
    <3>. QED
      BY <3>1, <3>2 DEF Next, UserCall
  <2>2. CASE \A t \in Txs : ~SuspendOnLedger(r, t)
    BY <1>2, <2>2 DEF RevokeStep, SuspendInDatabase, RevokeAtCA, RemoveFiles, RevokeFails
  <2>. QED
    BY <2>1, <2>2
<1>3. ASSUME NEW t \in Txs, AccountCommit(t) \/ AccountDiscard(t) PROVE Next
  BY <1>3 DEF AccountCommit, AccountDiscard, Next
<1>4. ASSUME NEW c \in Codes, NEW role \in Officials, GenerateCode(c, role) \/ ExpireCode(c)
      PROVE  UNCHANGED ledgerVars
  BY <1>4 DEF GenerateCode, ExpireCode
<1>5. CASE AccountRestart \/ StartStep
  BY <1>5 DEF AccountRestart, StartStep, StartAdmin, StartEnrolls, StartFails, StartSavesFile
<1>6. CASE UNCHANGED accountVars
  BY <1>6 DEF accountVars, ledgerVars
<1>7. ASSUME NEW u \in Users, NEW form \in Form, Register(u, form) PROVE UNCHANGED ledgerVars
  BY <1>7 DEF Register
<1>8. ASSUME NEW c \in Codes, ExpireCode(c) PROVE UNCHANGED ledgerVars
  BY <1>8 DEF ExpireCode
<1>. QED
  BY <1>1, <1>2, <1>3, <1>4, <1>5, <1>6, <1>7, <1>8 DEF AccountNext, AccountStep

LEMMA AccountNextIInv ==
    ASSUME NilIsNoTransaction
    PROVE  AccountIInv /\ IInv /\ [AccountNext]_accountVars => AccountIInv' /\ IInv'
<1>. SUFFICES ASSUME AccountIInv, IInv, [AccountNext]_accountVars
              PROVE  AccountIInv' /\ IInv'
  OBVIOUS
<1>1. IInv'
  BY AccountStepIsContractStep, NextIInv
<1>2. TypeOK /\ ReadsAreCurrent
  BY DEF IInv
<1>3. ASSUME NEW c \in Codes, NEW role \in Officials, GenerateCode(c, role) PROVE AccountIInv'
  BY <1>3, GenerateCodeStep
<1>4. ASSUME NEW c \in Codes, ExpireCode(c) PROVE AccountIInv'
  BY <1>4, ExpireCodeStep
<1>5. ASSUME NEW u \in Users, RegisterStep(u) PROVE AccountIInv'
  BY <1>2, <1>5, RegisterStepIInv
<1>6. ASSUME NEW r \in Revocations, RevokeStep(r) PROVE AccountIInv'
  BY <1>2, <1>6, RevokeStepIInv
<1>7. ASSUME NEW t \in Txs, AccountCommit(t) PROVE AccountIInv'
  BY <1>2, <1>7, AccountCommitStep
<1>8. ASSUME NEW t \in Txs, AccountDiscard(t) PROVE AccountIInv'
  BY <1>2, <1>8, AccountDiscardStep
<1>9. CASE AccountRestart
  BY <1>1, <1>9, AccountRestartStep
<1>10. CASE UNCHANGED accountVars
  BY <1>1, <1>10, AccountStutter
<1>11. CASE StartStep
  BY <1>1, <1>11, StartStepIInv
<1>12. ASSUME NEW u \in Users, NEW form \in Form, Register(u, form) PROVE AccountIInv'
  BY <1>12, RegisterStart
<1>13. CASE AccountStep
  BY <1>1, <1>4, <1>5, <1>6, <1>7, <1>8, <1>9, <1>11, <1>13 DEF AccountStep
<1>. QED
  BY <1>1, <1>3, <1>10, <1>12, <1>13 DEF AccountNext

\* The invariants of the accounts and of the contract hold together.
LEMMA AccountsAndContract ==
    NilIsNoTransaction => (AccountSpec => [](AccountIInv /\ IInv))
<1>. SUFFICES ASSUME NilIsNoTransaction PROVE AccountSpec => [](AccountIInv /\ IInv)
  OBVIOUS
<1>1. AccountInit => AccountIInv /\ IInv
  BY AccountInitIInv, InitIInv DEF AccountInit
<1>2. (AccountIInv /\ IInv) /\ [AccountNext]_accountVars => (AccountIInv /\ IInv)'
  BY AccountNextIInv
<1>. QED
  BY <1>1, <1>2, PTL DEF AccountSpec

\* The inductive invariant holds in every reachable state.
THEOREM AccountsInvariance == NilIsNoTransaction => (AccountSpec => []AccountIInv)
<1>. SUFFICES ASSUME NilIsNoTransaction PROVE AccountSpec => []AccountIInv
  OBVIOUS
<1>1. AccountSpec => [](AccountIInv /\ IInv)
  BY AccountsAndContract
<1>. QED
  BY <1>1, PTL

\* The handlers are clients of the contract: their behaviours are behaviours of its
\* specification, so every theorem about the contract holds here too.
THEOREM AccountsImplementContract == NilIsNoTransaction => (AccountSpec => Spec)
<1>. SUFFICES ASSUME NilIsNoTransaction PROVE AccountSpec => Spec
  OBVIOUS
<1>1. AccountInit => Init
  BY DEF AccountInit
<1>2. AccountIInv /\ [AccountNext]_accountVars => [Next]_ledgerVars
  BY AccountStepIsContractStep
<1>3. AccountSpec => []AccountIInv
  BY AccountsInvariance
<1>. QED
  BY <1>1, <1>2, <1>3, PTL DEF AccountSpec, Spec

-----------------------------------------------------------------------------
(* The theorems *)

\* Calls, documents and files keep their shape, and a call has files to write, or a
\* transaction to wait for, exactly at the awaits for them.
THEOREM AccountsTypeCorrect == NilIsNoTransaction => (AccountSpec => []AccountTypeOK)
<1>. SUFFICES ASSUME NilIsNoTransaction PROVE AccountSpec => []AccountTypeOK
  OBVIOUS
<1>1. AccountSpec => []AccountIInv
  BY AccountsInvariance
<1>2. AccountIInv => AccountTypeOK
  BY DEF AccountIInv
<1>. QED
  BY <1>1, <1>2, PTL

\* A user of the ledger has the document of its own call of register.
LEMMA LedgerUsers ==
    ASSUME AccountIInv, NEW u \in Users, OnLedger(u)
    PROVE  /\ userDocs[u] # Nil
           /\ Documented(u, worldState[UserKey(u)])
           /\ registrations[u] # Nil
           /\ SavedBy(registrations[u], userDocs[u])
           /\ SuspendedOnLedger(u) \/ Enrolment(u)
BY DEF AccountIInv, RecordsAreDocumented, Documented, DocumentsAreBacked

\* A hash is a value.
LEMMA HashIsSomething == \A value \in Persons \cup Phones : Sha256(value) # Nil
BY NilIsNoAccount

\* However often and however concurrently somebody registers, the ledger has one
\* identity for that national id, unless it looks like a hash: the index of the
\* documents comes before it (auth.controller.ts:143, user.model.ts:90-95).
THEOREM IdentitiesAreUnique == NilIsNoTransaction => (AccountSpec => []OneIdentityPerPerson)
<1>. SUFFICES ASSUME NilIsNoTransaction PROVE AccountSpec => []OneIdentityPerPerson
  OBVIOUS
<1>1. AccountSpec => []AccountIInv
  BY AccountsInvariance
<1>2. AccountIInv => OneIdentityPerPerson
  <2>. SUFFICES ASSUME AccountIInv, NEW u \in Users, NEW w \in Users, OnLedger(u), OnLedger(w),
                       registrations[u].form.person \notin HashLike,
                       registrations[u].form.person = registrations[w].form.person
                PROVE  u = w
    BY DEF OneIdentityPerPerson
  <2>1. /\ userDocs[u] # Nil /\ userDocs[w] # Nil
        /\ userDocs[u].nationalIdUnique = Sha256(registrations[u].form.person)
        /\ userDocs[u].nationalIdUnique = userDocs[w].nationalIdUnique
    BY LedgerUsers DEF SavedBy, UniqueHash
  <2>2. registrations[u].form.person \in Persons
    BY <2>1, CallFacts DEF AccountIInv, DocumentsAreBacked, Form
  <2>3. userDocs[u].nationalIdUnique # Nil
    BY <2>1, <2>2, HashIsSomething
  <2>. QED
    BY <2>1, <2>3 DEF AccountIInv, DocumentsAreUnique, Unique
<1>. QED
  BY <1>1, <1>2, PTL

\* Where the ledger and MongoDB differ, MongoDB is ahead.
THEOREM DocumentsAreAhead == NilIsNoTransaction => (AccountSpec => []LedgerUsersAreDocumented)
<1>. SUFFICES ASSUME NilIsNoTransaction PROVE AccountSpec => []LedgerUsersAreDocumented
  OBVIOUS
<1>1. AccountSpec => []AccountIInv
  BY AccountsInvariance
<1>2. AccountIInv => LedgerUsersAreDocumented
  BY DEF AccountIInv, RecordsAreDocumented, Documented, LedgerUsersAreDocumented
<1>. QED
  BY <1>1, <1>2, PTL

\* Who is active on the ledger can sign, and finds the way back by every phone number
\* and national id that does not look like a hash, whatever revocations and
\* registrations are under way (auth.controller.ts:171-237, 426-453).
THEOREM ActiveUsersAreServed == NilIsNoTransaction => (AccountSpec => []ActiveUsersCanReturn)
<1>. SUFFICES ASSUME NilIsNoTransaction PROVE AccountSpec => []ActiveUsersCanReturn
  OBVIOUS
<1>1. AccountSpec => []AccountIInv
  BY AccountsInvariance
<1>2. AccountIInv => ActiveUsersCanReturn
  <2>. SUFFICES ASSUME AccountIInv, NEW u \in ActiveUsers
                PROVE  LET form  == registrations[u].form
                           token == [user |-> u, role |-> worldState[UserKey(u)].role]
                       IN  /\ authority[u] = "enrolled" /\ wallet[u] = Files
                           /\ form.phone \notin HashLike => Login(form.phone) = {token}
                           /\ form.person \notin HashLike => ReRegister(form.person) = {token}
    BY DEF ActiveUsersCanReturn
  <2>. DEFINE form == registrations[u].form
              token == [user |-> u, role |-> worldState[UserKey(u)].role]
  <2>1. u \in Users /\ OnLedger(u) /\ ~SuspendedOnLedger(u)
    BY DEF ActiveUsers, OnLedger, SuspendedOnLedger
  <2>2. /\ Enrolment(u) /\ userDocs[u] # Nil
        /\ userDocs[u].phoneUnique = UniqueHash(form.phone)
        /\ userDocs[u].nationalIdUnique = UniqueHash(form.person)
        /\ userDocs[u].role = worldState[UserKey(u)].role
        /\ form.phone \in Phones /\ form.person \in Persons
    BY <2>1, LedgerUsers, CallFacts DEF SavedBy, Documented, Form
  <2>3. form.phone \notin HashLike => ByPhone(form.phone) = {u}
    <3>1. SUFFICES ASSUME form.phone \notin HashLike PROVE ByPhone(form.phone) = {u}
      OBVIOUS
    <3>2. userDocs[u].phoneUnique = Sha256(form.phone) /\ Sha256(form.phone) # Nil
      BY <2>2, <3>1, HashIsSomething DEF UniqueHash
    <3>3. ASSUME NEW w \in Users \ {u}, userDocs[w] # Nil
          PROVE  userDocs[w].phoneUnique # Sha256(form.phone)
      BY <2>1, <2>2, <3>2, <3>3 DEF AccountIInv, DocumentsAreUnique, Unique
    <3>. QED
      BY <2>1, <2>2, <3>2, <3>3 DEF ByPhone
  <2>4. form.person \notin HashLike => ByPerson(form.person) = {u}
    <3>1. SUFFICES ASSUME form.person \notin HashLike PROVE ByPerson(form.person) = {u}
      OBVIOUS
    <3>2. userDocs[u].nationalIdUnique = Sha256(form.person) /\ Sha256(form.person) # Nil
      BY <2>2, <3>1, HashIsSomething DEF UniqueHash
    <3>3. ASSUME NEW w \in Users \ {u}, userDocs[w] # Nil
          PROVE  userDocs[w].nationalIdUnique # Sha256(form.person)
      BY <2>1, <2>2, <3>2, <3>3 DEF AccountIInv, DocumentsAreUnique, Unique
    <3>. QED
      BY <2>1, <2>2, <3>2, <3>3 DEF ByPerson
  <2>. HIDE DEF form
  <2>5. form.phone \notin HashLike => Login(form.phone) = {token}
    BY <2>2, <2>3 DEF Login
  <2>6. form.person \notin HashLike => ReRegister(form.person) = {token}
    <3>1. SUFFICES ASSUME form.person \notin HashLike PROVE ReRegister(form.person) = {token}
      OBVIOUS
    <3>2. {w \in ByPerson(form.person) : wallet[w] = Files} = {u}
      BY <2>2, <2>4, <3>1 DEF Enrolment
    <3>. QED
      BY <2>2, <3>2 DEF ReRegister
  <2>. QED
    BY <2>2, <2>5, <2>6 DEF Enrolment, form
<1>. QED
  BY <1>1, <1>2, PTL

\* Nobody is an official without a spent invitation of that role.
THEOREM OfficialsAreInvited == NilIsNoTransaction => (AccountSpec => []OfficialsWereInvited)
<1>. SUFFICES ASSUME NilIsNoTransaction PROVE AccountSpec => []OfficialsWereInvited
  OBVIOUS
<1>1. AccountSpec => []AccountIInv
  BY AccountsInvariance
<1>2. AccountIInv => OfficialsWereInvited
  BY DEF AccountIInv, DocumentsAreBacked, SavedBy, CallsAreBacked, Backed, InvitationUsed,
         OfficialsWereInvited
<1>. QED
  BY <1>1, <1>2, PTL

-----------------------------------------------------------------------------
(* The files of the administrator *)

\* The awaits of a call that is enrolling the administrator, or has a file of its left.
Enrolling == {"enroll_admin", "save_admin", "late_admin"}

\* While the wallet is settled a call of register neither writes it nor enrolls anew.
LEMMA RegisterKeepsSettled ==
    ASSUME AccountIInv, AdminWalletSettled, NEW u \in Users, RegisterStep(u)
    PROVE  /\ UNCHANGED adminWallet
           /\ \E call : /\ registrations' = [registrations EXCEPT ![u] = call]
                        /\ call.step \notin Enrolling
           /\ UNCHANGED startup
<1>. DEFINE Keeps == /\ UNCHANGED adminWallet
                     /\ \E call : /\ registrations' = [registrations EXCEPT ![u] = call]
                                  /\ call.step \notin Enrolling
<1>1. ASSUME NEW call, registrations' = [registrations EXCEPT ![u] = call],
             call.step \notin Enrolling, UNCHANGED adminWallet
      PROVE  Keeps
  BY <1>1
<1>2. UNCHANGED startup
  BY DEF RegisterStep, CheckPhone, FindCode, UseCode, EnrollAdmin, EnrollNewAdmin, SaveAdminFile,
         RegisterAtCA, EnrollAtCA, SaveFile, SaveUser, RegisterOnLedger, RegisterFails
<1>3. SUFFICES Keeps
  BY <1>2
<1>4. registrations[u] # Nil => /\ registrations[u] \in RegisterCall
                                /\ registrations[u].step \notin Enrolling
  BY CallFacts DEF AdminWalletSettled, At, Enrolling
<1>. HIDE DEF Keeps
<1>5. ASSUME NEW step \in RegisterSteps \ Enrolling, registrations[u] # Nil,
             GoTo(u, step), UNCHANGED adminWallet
      PROVE  Keeps
  <2>1. Moved(registrations[u], step).step = step
    BY <1>4, <1>5, MovedCall
  <2>2. registrations' = [registrations EXCEPT ![u] = Moved(registrations[u], step)]
    BY <1>5 DEF GoTo
  <2>. QED
    BY <1>5, <1>1, <2>1, <2>2
<1>6. CASE CheckPhone(u)
  <2>1. PICK step \in {"refused", "code", "admin"} : GoTo(u, step)
    BY <1>6 DEF CheckPhone
  <2>. QED
    BY <1>5, <1>6, <2>1 DEF CheckPhone, At, RegisterSteps, Over, Enrolling
<1>7. CASE FindCode(u)
  <2>1. PICK step \in {"refused", "use_code"} : GoTo(u, step)
    BY <1>7 DEF FindCode
  <2>. QED
    BY <1>5, <1>7, <2>1 DEF FindCode, At, RegisterSteps, Over, Enrolling
<1>8. CASE UseCode(u)
  <2>. DEFINE role == codes[registrations[u].form.code].role
  <2>1. registrations[u] # Nil /\ registrations' = [registrations EXCEPT ![u] = Invited(@, role)]
        /\ UNCHANGED adminWallet
    BY <1>8 DEF UseCode, At
  <2>. HIDE DEF role
  <2>2. Invited(registrations[u], role).step = "admin"
    BY <1>4, <2>1 DEF Invited, RegisterCall
  <2>. QED
    BY <1>1, <2>1, <2>2 DEF Enrolling
<1>9. CASE EnrollAdmin(u)
  <2>1. ~MustEnroll
    BY DEF MustEnroll, AdminWalletSettled, Files
  <2>2. registrations[u] # Nil /\ GoTo(u, "ca_register") /\ UNCHANGED adminWallet
    BY <1>9, <2>1 DEF EnrollAdmin, At
  <2>3. "ca_register" \in RegisterSteps \ Enrolling
    BY DEF RegisterSteps, Enrolling
  <2>. QED
    BY <1>5, <2>2, <2>3
<1>10. CASE EnrollNewAdmin(u) \/ \E f \in Files : SaveAdminFile(u, f)
  BY <1>4, <1>10 DEF EnrollNewAdmin, SaveAdminFile, At, Enrolling
<1>11. CASE RegisterAtCA(u)
  BY <1>5, <1>11 DEF RegisterAtCA, At, RegisterSteps, Over, Enrolling
<1>12. CASE EnrollAtCA(u)
  <2>1. /\ registrations[u] \in RegisterCall /\ UNCHANGED adminWallet
        /\ registrations' = [registrations EXCEPT ![u] = Enrolled(@, "save_files")]
    BY <1>4, <1>12 DEF EnrollAtCA, At
  <2>2. Enrolled(registrations[u], "save_files").step = "save_files"
    BY <2>1, EnrolledCall DEF RegisterSteps
  <2>. QED
    BY <1>1, <2>1, <2>2 DEF Enrolling
<1>13. ASSUME NEW f \in Files, SaveFile(u, f) PROVE Keeps
  <2>1. /\ registrations[u] \in RegisterCall
        /\ registrations[u].step \in {"save_files", "late_files"}
        /\ \E next \in {"save", "refused"} :
              registrations' = [registrations EXCEPT ![u] = Written(@, f, next)]
        /\ UNCHANGED adminWallet
    BY <1>4, <1>13 DEF SaveFile, At
  <2>2. \A next \in {"save", "refused"} :
           Written(registrations[u], f, next).step \in {next, registrations[u].step}
    BY <2>1, WrittenCall DEF RegisterSteps, Over
  <2>. QED
    BY <1>1, <2>1, <2>2 DEF Enrolling
<1>14. CASE SaveUser(u)
  BY <1>5, <1>14 DEF SaveUser, At, RegisterSteps, Over, Enrolling
<1>15. ASSUME NEW t \in Txs, RegisterOnLedger(u, t) PROVE Keeps
  <2>1. /\ registrations[u] \in RegisterCall /\ UNCHANGED adminWallet
        /\ registrations' = [registrations EXCEPT ![u] = Waits(@, t)]
    BY <1>4, <1>15 DEF RegisterOnLedger, At
  <2>2. Waits(registrations[u], t).step = "commit"
    BY <2>1, WaitingCall
  <2>. QED
    BY <1>1, <2>1, <2>2 DEF Enrolling
<1>16. CASE RegisterFails(u)
  <2>1. /\ registrations[u] # Nil /\ registrations[u] \in RegisterCall
        /\ registrations[u].step \notin Enrolling
        /\ UNCHANGED adminWallet
    BY <1>4, <1>16 DEF RegisterFails
  <2>2. Refused(registrations[u]).step = "refused"
    BY <2>1, RefusedCall
  <2>3. \A late \in SUBSET registrations[u].left :
           Left(registrations[u], late).step = "late_files"
    BY <2>1, LeftCall DEF Enrolling
  <2>. QED
    BY <1>16, <1>1, <2>1, <2>2, <2>3 DEF RegisterFails, Enrolling
<1>. QED
  BY <1>6, <1>7, <1>8, <1>9, <1>10, <1>11, <1>12, <1>13, <1>14, <1>15, <1>16
  DEF RegisterStep

\* So does everything else.
LEMMA SettledStays ==
    ASSUME AccountIInv, AdminWalletSettled, [AccountNext]_accountVars
    PROVE  AdminWalletSettled' /\ UNCHANGED adminWallet
<1>. DEFINE NoneEnrolls == \A u \in Users : registrations'[u] # Nil =>
                              registrations'[u].step \notin Enrolling
            StartIsOver == startup'.step # "enroll_admin" /\ startup'.left = {}
            Keeps == NoneEnrolls /\ StartIsOver /\ UNCHANGED adminWallet
<1>0. /\ \A u \in Users : registrations[u] # Nil => registrations[u].step \notin Enrolling
      /\ startup.step # "enroll_admin" /\ startup.left = {}
      /\ \E f \in Files : adminWallet[f] # Nil
  BY DEF AdminWalletSettled, At, Enrolling
<1>1. SUFFICES Keeps
  BY <1>0 DEF AdminWalletSettled, At, Enrolling
<1>2. ASSUME NEW u \in Users, RegisterStep(u) PROVE Keeps
  BY <1>0, <1>2, RegisterKeepsSettled DEF AccountIInv, AccountTypeOK
<1>3. ASSUME NEW u \in Users, NEW form \in Form, Register(u, form) PROVE Keeps
  <2>. DEFINE new ==
                [step |-> "phone", form |-> form, role |-> "voter", left |-> {}, tx |-> Nil]
  <2>1. registrations' = [registrations EXCEPT ![u] = new] /\ UNCHANGED <<adminWallet, startup>>
    BY <1>3 DEF Register
  <2>2. new.step = "phone"
    OBVIOUS
  <2>. HIDE DEF new
  <2>. QED
    BY <1>0, <2>1, <2>2 DEF AccountIInv, AccountTypeOK, Enrolling
<1>4. ASSUME NEW r \in Revocations, RevokeStep(r) PROVE Keeps
  <2>1. UNCHANGED <<registrations, adminWallet, startup>>
    BY <1>4 DEF RevokeStep, SuspendInDatabase, SuspendOnLedger, RevokeAtCA, RemoveFiles, RevokeFails
  <2>. QED
    BY <1>0, <2>1
<1>5. ASSUME NEW t \in Txs, AccountCommit(t) \/ AccountDiscard(t) PROVE Keeps
  <2>1. UNCHANGED <<adminWallet, startup>> /\ CallsSettle
    BY <1>5, AnsweredCalls DEF AccountCommit, AccountDiscard
  <2>. QED
    BY <1>0, <2>1 DEF CallsSettle, Settled, Enrolling
<1>6. ASSUME NEW c \in Codes, ExpireCode(c) \/ \E role \in Officials : GenerateCode(c, role)
      PROVE  Keeps
  <2>1. UNCHANGED <<registrations, adminWallet, startup>>
    BY <1>6 DEF GenerateCode, ExpireCode
  <2>. QED
    BY <1>0, <2>1
<1>7. CASE AccountRestart
  <2>1. \A u \in Users : registrations[u] # Nil => Refused(registrations[u]).step = "refused"
    BY CallFacts, RefusedCall
  <2>2. NoneEnrolls /\ UNCHANGED adminWallet
    BY <1>0, <1>7, <2>1 DEF AccountRestart, Enrolling
  <2>3. StartIsOver
    BY <1>7 DEF AccountRestart, Started
  <2>. QED
    BY <2>2, <2>3
<1>8. CASE StartStep
  <2>1. ~MustEnroll
    BY <1>0 DEF MustEnroll, Files
  <2>2. StartIsOver /\ UNCHANGED <<registrations, adminWallet>>
    BY <1>0, <1>8, <2>1 DEF StartStep, StartAdmin, StartEnrolls, StartFails, StartSavesFile, Started
  <2>. QED
    BY <1>0, <2>2
<1>9. CASE UNCHANGED accountVars
  BY <1>0, <1>9 DEF accountVars
<1>. QED
  BY <1>2, <1>3, <1>4, <1>5, <1>6, <1>7, <1>8, <1>9 DEF AccountNext, AccountStep

\* The files of the administrator never change once they are settled, good or bad,
\* whichever calls, late writes and restarts follow (identityManager.ts:43-71, server.ts:65).
THEOREM AdminWalletStays == NilIsNoTransaction => (AccountSpec => AdminWalletIsFinal)
<1>. SUFFICES ASSUME NilIsNoTransaction PROVE AccountSpec => AdminWalletIsFinal
  OBVIOUS
<1>1. AccountSpec => []AccountIInv
  BY AccountsInvariance
<1>2. AccountIInv /\ [AccountNext]_accountVars
        => [AdminWalletSettled => AdminWalletSettled' /\ UNCHANGED adminWallet]_accountVars
  BY SettledStays
<1>. QED
  BY <1>1, <1>2, PTL DEF AccountSpec, AdminWalletIsFinal

=============================================================================
