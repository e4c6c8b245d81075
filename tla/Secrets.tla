------------------------------- MODULE Secrets -------------------------------
(***************************************************************************)
(* Login challenges, face verification secrets and one-time codes          *)
(* (auth-challenge, face-verification, otp-verification and twilio         *)
(* services).  All are kept in the memory of the process, under a user, a  *)
(* phone number, or the secret itself, with an expiry that is looked at    *)
(* only when the entry is used.  Random values are new: they are drawn     *)
(* from those not drawn before.  Signatures are known by what              *)
(* crypto.verify says of them.                                             *)
(***************************************************************************)
EXTENDS Naturals, FiniteSets

CONSTANTS
    Accounts,       \* users that log in by challenge
    Numbers,        \* phone numbers that ask for one-time codes
    Values,         \* what can be drawn as a challenge or secret, each once
    OneTimeCodes,   \* what can be drawn as a one-time code, each once
    Empty           \* no entry

ASSUME CodesAreNoValues == Values \cap OneTimeCodes = {}
ASSUME EmptyIsNoEntry ==
    Empty \notin [secret : Values, expired : BOOLEAN] \cup [code : OneTimeCodes, expired : BOOLEAN]
                  \cup [code : OneTimeCodes, kept : BOOLEAN] \cup Values

VARIABLES
    store,          \* the entries of challengeStore and of the two secretStores
    drawn,          \* the values and codes drawn so far
    uses,           \* how often each value was accepted
    logins,         \* what verifyChallenge answered once a challenge was accepted
    otpStore,       \* the one-time code of a number
    sending,        \* the calls that await the SMS of a code
    newest          \* the code last drawn for a number, and whether it should be there

secretVars == <<store, drawn, uses, logins, otpStore, sending, newest>>
otpVars == <<otpStore, sending, newest>>

\* Where an entry is kept.
ChallengeOf(u) == <<"challenge", u>>
OtpSecretOf(n) == <<"otp", n>>
FaceSecret(s)  == <<"face", s>>

Slots == {ChallengeOf(u) : u \in Accounts} \cup {OtpSecretOf(n) : n \in Numbers}
           \cup {FaceSecret(s) : s \in Values}

Fresh(s) == s \notin drawn

\* An entry whose time is over, and the mark of a code that was deleted.
Lapsed(entry) == [entry EXCEPT !.expired = TRUE]
Dropped(mark) == [mark EXCEPT !.kept = FALSE]

-----------------------------------------------------------------------------
(* Challenges and secrets *)

\* A new entry replaces the one that was there.
Generate(slot, s) ==
    /\ Fresh(s)
    /\ drawn' = drawn \cup {s}
    /\ store' = [store EXCEPT ![slot] = [secret |-> s, expired |-> FALSE]]
    /\ UNCHANGED uses

Matches(slot, s) == store[slot] # Empty /\ store[slot].secret = s

Accepts(slot, s) == Matches(slot, s) /\ ~store[slot].expired

\* Mutant: a valid entry stays.
ValidateAgain(slot, s) ==
    /\ store[slot] # Empty
    /\ store' = IF store[slot].expired THEN [store EXCEPT ![slot] = Empty] ELSE store
    /\ uses' = IF Accepts(slot, s)
               THEN [uses EXCEPT ![s] = @ + 1] ELSE uses
    /\ UNCHANGED drawn

\* The first expired or matching look at an entry removes it; a wrong guess does not.
Validate(slot, s) ==
    /\ store[slot] # Empty
    /\ store' = IF store[slot].expired \/ Matches(slot, s)
                THEN [store EXCEPT ![slot] = Empty] ELSE store
    /\ uses' = IF Accepts(slot, s)
               THEN [uses EXCEPT ![s] = @ + 1] ELSE uses
    /\ UNCHANGED drawn

GetLoginChallenge(u, s) == Generate(ChallengeOf(u), s) /\ UNCHANGED <<otpVars, logins>>

\* The challenge is consumed, then the signature is looked at.  The token goes to those
\* whose signature does not verify; an error while verifying gives an error.
VerifyChallenge(u, s, verdict) ==
    /\ Validate(ChallengeOf(u), s)
    /\ logins' = IF Accepts(ChallengeOf(u), s) /\ verdict # "error"
                 THEN logins \cup {[user |-> u, verdict |-> verdict, token |-> verdict # "good"]}
                 ELSE logins
    /\ UNCHANGED otpVars

\* verifyUserFace, when the recognition server answers anything but "false".
VerifyUserFace(s) == Generate(FaceSecret(s), s) /\ UNCHANGED <<otpVars, logins>>

\* reRegister consumes the secret before it looks for the credentials.
ValidateFaceSecret(s) == Validate(FaceSecret(s), s) /\ UNCHANGED <<otpVars, logins>>

Expire(slot) ==
    /\ store[slot] # Empty
    /\ store' = [store EXCEPT ![slot] = Lapsed(@)]
    /\ UNCHANGED <<drawn, uses, logins, otpVars>>

-----------------------------------------------------------------------------
(* One-time codes *)

\* Mutant: the code is stored when its SMS has been sent.
SendThenStore(n, code, resend) ==
    /\ Fresh(code)
    /\ drawn' = drawn \cup {code}
    /\ otpStore' = IF \E call \in sending : call.number = n THEN otpStore
                   ELSE [otpStore EXCEPT ![n] = [code |-> code, expired |-> FALSE]]
    /\ newest' = [newest EXCEPT ![n] = [code |-> code, kept |-> TRUE]]
    /\ sending' = sending \cup {[number |-> n, code |-> code, resend |-> resend]}
    /\ UNCHANGED <<store, uses, logins>>

\* createAndSendOTP and resendOTP up to the await of the SMS.
Send(n, code, resend) ==
    /\ Fresh(code)
    /\ drawn' = drawn \cup {code}
    /\ otpStore' = [otpStore EXCEPT ![n] = [code |-> code, expired |-> FALSE]]
    /\ newest' = [newest EXCEPT ![n] = [code |-> code, kept |-> TRUE]]
    /\ sending' = sending \cup {[number |-> n, code |-> code, resend |-> resend]}
    /\ UNCHANGED <<store, uses, logins>>

\* The entry of the number goes, whichever code it holds by now.
Forget(n) ==
    /\ otpStore' = [otpStore EXCEPT ![n] = Empty]
    /\ newest' = [newest EXCEPT ![n] = Dropped(@)]

SmsSent(call) ==
    /\ call \in sending
    /\ sending' = sending \ {call}
    /\ UNCHANGED <<store, drawn, uses, logins, otpStore, newest>>

SmsFails(call) ==
    /\ call \in sending
    /\ sending' = sending \ {call}
    /\ IF call.resend THEN UNCHANGED <<otpStore, newest>> ELSE Forget(call.number)
    /\ UNCHANGED <<store, drawn, uses, logins>>

OtpExpires(n) ==
    /\ otpStore[n] # Empty
    /\ otpStore' = [otpStore EXCEPT ![n] = Lapsed(@)]
    /\ UNCHANGED <<store, drawn, uses, logins, sending, newest>>

\* verifyOTP and the secret verifyOtp issues: the code stays and can be verified again.
VerifyOtp(n, s) ==
    /\ otpStore[n] # Empty
    /\ ~otpStore[n].expired
    /\ Generate(OtpSecretOf(n), s)
    /\ UNCHANGED <<otpVars, logins>>

VerifyExpiredOtp(n) ==
    /\ otpStore[n] # Empty
    /\ otpStore[n].expired
    /\ Forget(n)
    /\ UNCHANGED <<store, drawn, uses, logins, sending>>

-----------------------------------------------------------------------------
SecretsRestart ==
    /\ store' = [slot \in Slots |-> Empty]
    /\ otpStore' = [n \in Numbers |-> Empty]
    /\ sending' = {}
    /\ newest' = [n \in Numbers |-> Empty]
    /\ UNCHANGED <<drawn, uses, logins>>

SecretsInit ==
    /\ store = [slot \in Slots |-> Empty]
    /\ drawn = {}
    /\ uses = [s \in Values |-> 0]
    /\ logins = {}
    /\ otpStore = [n \in Numbers |-> Empty]
    /\ sending = {}
    /\ newest = [n \in Numbers |-> Empty]

SecretsService ==
    \/ \E s \in Values :
          \/ \E u \in Accounts :
                \/ GetLoginChallenge(u, s)
                \/ \E verdict \in {"good", "bad", "error"} : VerifyChallenge(u, s, verdict)
          \/ VerifyUserFace(s) \/ ValidateFaceSecret(s)
          \/ \E n \in Numbers : VerifyOtp(n, s)
    \/ \E slot \in Slots : Expire(slot)
    \/ \E n \in Numbers :
          \/ \E code \in OneTimeCodes, resend \in BOOLEAN : Send(n, code, resend)
          \/ OtpExpires(n) \/ VerifyExpiredOtp(n)
    \/ \E call \in sending : SmsSent(call) \/ SmsFails(call)

SecretsNext == SecretsService \/ SecretsRestart

SecretsSpec == SecretsInit /\ [][SecretsNext]_secretVars
-----------------------------------------------------------------------------
(* Properties *)

SecretsTypeOK ==
    /\ store \in [Slots -> [secret : Values, expired : BOOLEAN] \cup {Empty}]
    /\ drawn \subseteq Values \cup OneTimeCodes
    /\ uses \in [Values -> Nat]
    /\ logins \subseteq [user : Accounts, verdict : {"good", "bad"}, token : BOOLEAN]
    /\ otpStore \in [Numbers -> [code : OneTimeCodes, expired : BOOLEAN] \cup {Empty}]
    /\ sending \subseteq [number : Numbers, code : OneTimeCodes, resend : BOOLEAN]
    /\ newest \in [Numbers -> [code : OneTimeCodes, kept : BOOLEAN] \cup {Empty}]

\* "Signature is valid, issue JWT token" (auth.controller.ts:403): whoever signs an
\* accepted challenge is given a token, and nobody else.
SignersGetTokens == \A login \in logins : login.token = (login.verdict = "good")

\* The code that would be accepted for a number is the one drawn last, however the
\* answers of the SMS service are ordered; and it is there until it has expired, the
\* process stops, or a call of createAndSendOTP for that number fails (twilio l.68-183).
NewestCodeIsStored ==
    \A n \in Numbers :
        /\ otpStore[n] # Empty => newest[n] # Empty /\ otpStore[n].code = newest[n].code
        /\ newest[n] # Empty /\ newest[n].kept => otpStore[n] # Empty

Abstract == INSTANCE SingleUse WITH
    Owners   <- Slots,
    Secrets  <- Values,
    None     <- Empty,
    valid    <- [slot \in Slots |-> IF store[slot] = Empty \/ store[slot].expired
                                    THEN Empty ELSE store[slot].secret],
    issued   <- drawn \cap Values,
    accepted <- uses

\* Challenges and secrets are accepted at most once, and only while they are the
\* newest of their owner and have not expired (auth-challenge.service.ts:49-75,
\* face-verification.service.ts:47-67).
ImplementsSingleUse == Abstract!Spec

\* No value was accepted twice.
AcceptedOnce == \A s \in Values : uses[s] <= 1

-----------------------------------------------------------------------------
(* The inductive invariant behind these properties *)

\* A value that is stored was drawn, is stored once, and was not accepted yet; one
\* that was not drawn was never accepted.
StoredOnce ==
    /\ \A slot \in Slots : store[slot] # Empty =>
          /\ store[slot].secret \in drawn
          /\ uses[store[slot].secret] = 0
          /\ \A other \in Slots :
                store[other] # Empty /\ store[other].secret = store[slot].secret
                => other = slot
    /\ \A s \in Values \ drawn : uses[s] = 0

\* A call that awaits its SMS has drawn a code for its number.
SendersHaveDrawn == \A call \in sending : newest[call.number] # Empty

SecretsInv ==
    SecretsTypeOK /\ NewestCodeIsStored /\ SendersHaveDrawn /\ StoredOnce /\ AcceptedOnce
=============================================================================
