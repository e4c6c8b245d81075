---------------------------- MODULE Secrets_proofs ----------------------------
(***************************************************************************)
(* Proofs about Secrets: challenges and secrets implement SingleUse, and   *)
(* none is accepted twice, for any number of owners, values and calls.     *)
(***************************************************************************)
EXTENDS Secrets, TLAPS

\* Every entry has a place.
LEMMA SlotsTyped ==
    /\ \A u \in Accounts : ChallengeOf(u) \in Slots
    /\ \A n \in Numbers : OtpSecretOf(n) \in Slots
    /\ \A s \in Values : FaceSecret(s) \in Slots
BY DEF Slots

\* An entry that lapses is the same entry, and is still one.
LEMMA LapsedEntry ==
    ASSUME NEW S, NEW entry \in [secret : S, expired : BOOLEAN]
    PROVE  /\ Lapsed(entry) \in [secret : S, expired : BOOLEAN]
           /\ Lapsed(entry).secret = entry.secret
           /\ Lapsed(entry).expired
BY DEF Lapsed

LEMMA LapsedCode ==
    ASSUME NEW entry \in [code : OneTimeCodes, expired : BOOLEAN]
    PROVE  /\ Lapsed(entry) \in [code : OneTimeCodes, expired : BOOLEAN]
           /\ Lapsed(entry).code = entry.code
BY DEF Lapsed

LEMMA DroppedMark ==
    ASSUME NEW mark \in [code : OneTimeCodes, kept : BOOLEAN]
    PROVE  /\ Dropped(mark) \in [code : OneTimeCodes, kept : BOOLEAN]
           /\ Dropped(mark).code = mark.code
           /\ ~Dropped(mark).kept
BY DEF Dropped

-----------------------------------------------------------------------------
(* The two operations on the store of secrets *)

SecretsPart ==
    /\ store \in [Slots -> [secret : Values, expired : BOOLEAN] \cup {Empty}]
    /\ drawn \subseteq Values \cup OneTimeCodes
    /\ uses \in [Values -> Nat]
    /\ StoredOnce
    /\ AcceptedOnce

LEMMA GenerateKeeps ==
    ASSUME SecretsPart, NEW slot \in Slots, NEW s \in Values, Generate(slot, s)
    PROVE  SecretsPart' /\ Abstract!Issue(slot, s)
<1>1. /\ store' = [store EXCEPT ![slot] = [secret |-> s, expired |-> FALSE]]
      /\ s \notin drawn /\ drawn' = drawn \cup {s} /\ uses' = uses
    BY DEF Generate, Fresh
<1>2. [secret |-> s, expired |-> FALSE] # Empty
    <2>1. [secret |-> s, expired |-> FALSE] \in [secret : Values, expired : BOOLEAN]
        OBVIOUS
    <2>2. QED
        BY <2>1, EmptyIsNoEntry
<1>3. SecretsPart'
    BY <1>1, <1>2 DEF SecretsPart, StoredOnce, AcceptedOnce
<1>4. Abstract!Issue(slot, s)
    BY <1>1, <1>2 DEF SecretsPart, Abstract!Issue
<1>5. QED
    BY <1>3, <1>4

LEMMA ValidateKeeps ==
    ASSUME SecretsPart, NEW slot \in Slots, NEW s \in Values, Validate(slot, s)
    PROVE  SecretsPart' /\ (Abstract!Accept(slot, s) \/ UNCHANGED Abstract!singleVars)
<1>1. drawn' = drawn /\ store[slot] # Empty
      /\ store[slot] \in [secret : Values, expired : BOOLEAN]
    BY DEF Validate, SecretsPart
<1>2. CASE store[slot].expired
    <2>1. store' = [store EXCEPT ![slot] = Empty] /\ uses' = uses
        BY <1>2 DEF Validate, Accepts
    <2>2. SecretsPart'
        BY <1>1, <2>1 DEF SecretsPart, StoredOnce, AcceptedOnce
    <2>3. UNCHANGED Abstract!singleVars
        BY <1>1, <1>2, <2>1 DEF SecretsPart, Abstract!singleVars
    <2>4. QED
        BY <2>2, <2>3
<1>3. CASE ~store[slot].expired /\ Matches(slot, s)
    <2>1. /\ store' = [store EXCEPT ![slot] = Empty]
          /\ uses' = [uses EXCEPT ![s] = @ + 1]
          /\ store[slot].secret = s /\ uses[s] = 0
        BY <1>3 DEF Validate, Accepts, Matches, SecretsPart, StoredOnce
    <2>2. SecretsPart'
        BY <1>1, <2>1 DEF SecretsPart, StoredOnce, AcceptedOnce
    <2>3. Abstract!Accept(slot, s)
        BY <1>1, <1>3, <2>1 DEF SecretsPart, Abstract!Accept
    <2>4. QED
        BY <2>2, <2>3
<1>4. CASE ~store[slot].expired /\ ~Matches(slot, s)
    <2>1. store' = store /\ uses' = uses
        BY <1>4 DEF Validate, Accepts
    <2>2. QED
        BY <1>1, <2>1 DEF SecretsPart, StoredOnce, AcceptedOnce, Abstract!singleVars
<1>5. QED
    BY <1>2, <1>3, <1>4

\* Entries may only lapse.
LEMMA LapseKeeps ==
    ASSUME SecretsPart, drawn' = drawn, uses' = uses,
           NEW O \in SUBSET Slots,
           store' \in [Slots -> [secret : Values, expired : BOOLEAN] \cup {Empty}],
           \A slot \in Slots \ O : store'[slot] = store[slot],
           \A slot \in O :
              store'[slot] = Empty \/ (/\ store[slot] # Empty
                                       /\ store'[slot] # Empty
                                       /\ store'[slot].secret = store[slot].secret
                                       /\ store'[slot].expired)
    PROVE  SecretsPart' /\ Abstract!Lapse
<1>1. SecretsPart'
    BY DEF SecretsPart, StoredOnce, AcceptedOnce
<1>2. Abstract!Lapse
    BY DEF SecretsPart, Abstract!Lapse
<1>3. QED
    BY <1>1, <1>2
-----------------------------------------------------------------------------
(* The invariant *)

\* What the one-time codes need.
CodesPart ==
    /\ otpStore \in [Numbers -> [code : OneTimeCodes, expired : BOOLEAN] \cup {Empty}]
    /\ sending \subseteq [number : Numbers, code : OneTimeCodes, resend : BOOLEAN]
    /\ newest \in [Numbers -> [code : OneTimeCodes, kept : BOOLEAN] \cup {Empty}]
    /\ NewestCodeIsStored
    /\ SendersHaveDrawn

\* The answers to those who were challenged.
LoginsPart == logins \subseteq [user : Accounts, verdict : {"good", "bad"}, token : BOOLEAN]

LEMMA InvParts == SecretsInv <=> SecretsPart /\ CodesPart /\ LoginsPart
BY DEF SecretsInv, SecretsPart, CodesPart, LoginsPart, SecretsTypeOK

LEMMA SecretsInvInit == SecretsInit => SecretsInv
BY DEF SecretsInit, SecretsInv, SecretsTypeOK, NewestCodeIsStored, SendersHaveDrawn,
       StoredOnce, AcceptedOnce

\* The entry of a number that has one goes.
LEMMA ForgetKeeps ==
    ASSUME CodesPart, NEW n \in Numbers, Forget(n), newest[n] # Empty,
           sending' \subseteq sending
    PROVE  CodesPart'
<1>1. /\ otpStore' = [otpStore EXCEPT ![n] = Empty]
      /\ newest' = [newest EXCEPT ![n] = Dropped(newest[n])]
    BY DEF Forget, CodesPart
<1>2. /\ Dropped(newest[n]) \in [code : OneTimeCodes, kept : BOOLEAN]
      /\ Dropped(newest[n]) # Empty
      /\ ~Dropped(newest[n]).kept
    <2>1. newest[n] \in [code : OneTimeCodes, kept : BOOLEAN]
        BY DEF CodesPart
    <2>2. QED
        BY <2>1, DroppedMark, EmptyIsNoEntry
<1>3. QED
    BY <1>1, <1>2 DEF CodesPart, NewestCodeIsStored, SendersHaveDrawn

LEMMA CodesStay ==
    ASSUME CodesPart, UNCHANGED otpVars PROVE CodesPart'
BY DEF CodesPart, otpVars, NewestCodeIsStored, SendersHaveDrawn

LEMMA SecretsStay ==
    ASSUME SecretsPart, UNCHANGED <<store, drawn, uses>>
    PROVE  SecretsPart' /\ UNCHANGED Abstract!singleVars
BY DEF SecretsPart, StoredOnce, AcceptedOnce, Abstract!singleVars

\* A code is no value: drawing one issues nothing.
LEMMA SendKeeps ==
    ASSUME SecretsPart, CodesPart,
           NEW n \in Numbers, NEW code \in OneTimeCodes, NEW resend \in BOOLEAN,
           Send(n, code, resend)
    PROVE  SecretsPart' /\ CodesPart' /\ UNCHANGED Abstract!singleVars
<1>1. /\ [code |-> code, expired |-> FALSE] \in [code : OneTimeCodes, expired : BOOLEAN]
      /\ [code |-> code, kept |-> TRUE] \in [code : OneTimeCodes, kept : BOOLEAN]
    OBVIOUS
<1>2. [code |-> code, expired |-> FALSE] # Empty /\ [code |-> code, kept |-> TRUE] # Empty
    BY <1>1, EmptyIsNoEntry
<1>3. /\ otpStore' = [otpStore EXCEPT ![n] = [code |-> code, expired |-> FALSE]]
      /\ newest' = [newest EXCEPT ![n] = [code |-> code, kept |-> TRUE]]
      /\ sending' = sending \cup {[number |-> n, code |-> code, resend |-> resend]}
      /\ drawn' = drawn \cup {code} /\ store' = store /\ uses' = uses
    BY DEF Send
<1>4. CodesPart'
    BY <1>1, <1>2, <1>3 DEF CodesPart, NewestCodeIsStored, SendersHaveDrawn
<1>5. SecretsPart'
    BY <1>3 DEF SecretsPart, StoredOnce, AcceptedOnce
<1>6. drawn' \cap Values = drawn \cap Values
    BY <1>3, CodesAreNoValues
<1>7. QED
    BY <1>3, <1>4, <1>5, <1>6 DEF Abstract!singleVars

-----------------------------------------------------------------------------
(* One step *)

\* Only an accepted challenge adds an answer.
LEMMA LoginsStay ==
    ASSUME LoginsPart, [SecretsNext]_secretVars
    PROVE  LoginsPart'
<1>1. ASSUME NEW s \in Values, NEW u \in Accounts, NEW verdict \in {"good", "bad", "error"},
             VerifyChallenge(u, s, verdict)
      PROVE  LoginsPart'
    <2>1. \/ logins' = logins
          \/ /\ verdict # "error"
             /\ logins' = logins \cup {[user |-> u, verdict |-> verdict, token |-> verdict # "good"]}
        BY <1>1 DEF VerifyChallenge
    <2>2. PICK token : token = (verdict # "good") /\ token \in BOOLEAN
        OBVIOUS
    <2>3. CASE verdict # "error"
        <3>1. [user |-> u, verdict |-> verdict, token |-> token]
                \in [user : Accounts, verdict : {"good", "bad"}, token : BOOLEAN]
            BY <2>2, <2>3
        <3>2. logins' = logins
              \/ logins' = logins \cup {[user |-> u, verdict |-> verdict, token |-> token]}
            BY <2>1, <2>2
        <3>3. QED
            BY <3>1, <3>2 DEF LoginsPart
    <2>4. QED
        BY <2>1, <2>3 DEF LoginsPart
<1>2. CASE UNCHANGED logins
    BY <1>2 DEF LoginsPart
<1>3. QED
    BY <1>1, <1>2 DEF SecretsNext, SecretsService, SecretsRestart, secretVars, GetLoginChallenge,
       VerifyUserFace, ValidateFaceSecret, VerifyOtp, Expire, Send, OtpExpires,
       VerifyExpiredOtp, SmsSent, SmsFails

LEMMA SecretsStep ==
    ASSUME SecretsInv, [SecretsNext]_secretVars
    PROVE  SecretsInv' /\ [Abstract!Next]_(Abstract!singleVars)
<1> SUFFICES SecretsPart' /\ CodesPart' /\ [Abstract!Next]_(Abstract!singleVars)
    <2>1. LoginsPart'
        BY InvParts, LoginsStay
    <2>2. SecretsInv' <=> SecretsPart' /\ CodesPart' /\ LoginsPart'
        BY InvParts, PTL
    <2>3. QED
        BY <2>1, <2>2
<1>0. SecretsPart /\ CodesPart
    BY InvParts
<1>1. ASSUME NEW slot \in Slots, NEW s \in Values, Generate(slot, s), UNCHANGED otpVars
      PROVE  SecretsPart' /\ CodesPart' /\ [Abstract!Next]_(Abstract!singleVars)
    BY <1>0, <1>1, GenerateKeeps, CodesStay DEF Abstract!Next
<1>2. ASSUME NEW slot \in Slots, NEW s \in Values, Validate(slot, s), UNCHANGED otpVars
      PROVE  SecretsPart' /\ CodesPart' /\ [Abstract!Next]_(Abstract!singleVars)
    BY <1>0, <1>2, ValidateKeeps, CodesStay DEF Abstract!Next
<1>3. ASSUME NEW slot \in Slots, Expire(slot)
      PROVE  SecretsPart' /\ CodesPart' /\ [Abstract!Next]_(Abstract!singleVars)
    <2>1. store[slot] \in [secret : Values, expired : BOOLEAN]
        BY <1>0, <1>3 DEF Expire, SecretsPart
    <2>2. store' = [store EXCEPT ![slot] = Lapsed(store[slot])]
        BY <1>3 DEF Expire
    <2>3. /\ Lapsed(store[slot]) \in [secret : Values, expired : BOOLEAN]
          /\ Lapsed(store[slot]).secret = store[slot].secret
          /\ Lapsed(store[slot]).expired
        BY <2>1, LapsedEntry
    <2>4. Lapsed(store[slot]) # Empty
        BY <2>3, EmptyIsNoEntry
    <2>5. /\ store' \in [Slots -> [secret : Values, expired : BOOLEAN] \cup {Empty}]
          /\ \A other \in Slots \ {slot} : store'[other] = store[other]
          /\ store'[slot] # Empty /\ store'[slot].expired /\ store[slot] # Empty
          /\ store'[slot].secret = store[slot].secret
        BY <1>0, <1>3, <2>2, <2>3, <2>4 DEF Expire, SecretsPart
    <2>6. drawn' = drawn /\ uses' = uses /\ UNCHANGED otpVars
        BY <1>3 DEF Expire
    <2>7. {slot} \in SUBSET Slots
        OBVIOUS
    <2>8. SecretsPart' /\ Abstract!Lapse
        BY <1>0, <2>5, <2>6, <2>7, LapseKeeps
    <2>9. QED
        BY <1>0, <2>6, <2>8, CodesStay DEF Abstract!Next
<1>4. ASSUME NEW n \in Numbers, NEW code \in OneTimeCodes, NEW resend \in BOOLEAN,
             Send(n, code, resend)
      PROVE  SecretsPart' /\ CodesPart' /\ [Abstract!Next]_(Abstract!singleVars)
    BY <1>0, <1>4, SendKeeps
<1>5. ASSUME NEW n \in Numbers, OtpExpires(n)
      PROVE  SecretsPart' /\ CodesPart' /\ [Abstract!Next]_(Abstract!singleVars)
    <2>1. otpStore[n] \in [code : OneTimeCodes, expired : BOOLEAN]
        BY <1>0, <1>5 DEF OtpExpires, CodesPart
    <2>2. otpStore' = [otpStore EXCEPT ![n] = Lapsed(otpStore[n])]
        BY <1>5 DEF OtpExpires
    <2>3. /\ Lapsed(otpStore[n]) \in [code : OneTimeCodes, expired : BOOLEAN]
          /\ Lapsed(otpStore[n]).code = otpStore[n].code
        BY <2>1, LapsedCode
    <2>4. /\ Lapsed(otpStore[n]) # Empty /\ otpStore[n] # Empty
          /\ newest' = newest /\ sending' = sending /\ drawn' = drawn
        BY <1>5, <2>3, EmptyIsNoEntry DEF OtpExpires
    <2>5. /\ otpStore' \in [Numbers -> [code : OneTimeCodes, expired : BOOLEAN] \cup {Empty}]
          /\ \A m \in Numbers : otpStore[m] = Empty <=> otpStore'[m] = Empty
          /\ \A m \in Numbers : otpStore[m] # Empty => otpStore'[m].code = otpStore[m].code
        BY <1>0, <2>2, <2>3, <2>4 DEF CodesPart
    <2>6. CodesPart'
        BY <1>0, <2>4, <2>5 DEF CodesPart, NewestCodeIsStored, SendersHaveDrawn
    <2>7. QED
        BY <1>0, <1>5, <2>6, SecretsStay DEF OtpExpires
<1>6. ASSUME NEW n \in Numbers, VerifyExpiredOtp(n)
      PROVE  SecretsPart' /\ CodesPart' /\ [Abstract!Next]_(Abstract!singleVars)
    <2>1. newest[n] # Empty /\ sending' \subseteq sending /\ Forget(n)
        BY <1>0, <1>6 DEF VerifyExpiredOtp, CodesPart, NewestCodeIsStored
    <2>2. QED
        BY <1>0, <1>6, <2>1, ForgetKeeps, SecretsStay DEF VerifyExpiredOtp
<1>7. ASSUME NEW call \in sending, SmsSent(call) \/ SmsFails(call)
      PROVE  SecretsPart' /\ CodesPart' /\ [Abstract!Next]_(Abstract!singleVars)
    <2>1. /\ call.number \in Numbers /\ newest[call.number] # Empty
          /\ sending' \subseteq sending /\ UNCHANGED <<store, drawn, uses>>
        BY <1>0, <1>7 DEF SmsSent, SmsFails, CodesPart, SendersHaveDrawn
    <2>2. CASE Forget(call.number)
        BY <1>0, <2>1, <2>2, ForgetKeeps, SecretsStay
    <2>3. CASE UNCHANGED <<otpStore, newest>>
        <3>1. CodesPart'
            BY <1>0, <2>1, <2>3 DEF CodesPart, NewestCodeIsStored, SendersHaveDrawn
        <3>2. QED
            BY <1>0, <2>1, <3>1, SecretsStay
    <2>4. QED
        BY <1>7, <2>2, <2>3 DEF SmsSent, SmsFails
<1>8. CASE SecretsRestart
    <2>1. /\ store' \in [Slots -> [secret : Values, expired : BOOLEAN] \cup {Empty}]
          /\ \A slot \in Slots : store'[slot] = Empty
          /\ drawn' = drawn /\ uses' = uses
        BY <1>8 DEF SecretsRestart
    <2>2. Slots \in SUBSET Slots
        OBVIOUS
    <2>3. SecretsPart' /\ Abstract!Lapse
        BY <1>0, <2>1, <2>2, LapseKeeps
    <2>4. CodesPart'
        BY <1>0, <1>8 DEF SecretsRestart, CodesPart, NewestCodeIsStored, SendersHaveDrawn
    <2>5. QED
        BY <2>3, <2>4 DEF Abstract!Next
<1>9. CASE UNCHANGED secretVars
    BY <1>0, <1>9, SecretsStay, CodesStay DEF secretVars, otpVars
<1>10. QED
    <2>1. ASSUME NEW s \in Values, NEW u \in Accounts,
                 NEW verdict, GetLoginChallenge(u, s) \/ VerifyChallenge(u, s, verdict)
          PROVE  SecretsPart' /\ CodesPart' /\ [Abstract!Next]_(Abstract!singleVars)
        BY <2>1, <1>1, <1>2, SlotsTyped DEF GetLoginChallenge, VerifyChallenge
    <2>2. ASSUME NEW s \in Values, VerifyUserFace(s) \/ ValidateFaceSecret(s)
          PROVE  SecretsPart' /\ CodesPart' /\ [Abstract!Next]_(Abstract!singleVars)
        BY <2>2, <1>1, <1>2, SlotsTyped DEF VerifyUserFace, ValidateFaceSecret
    <2>3. ASSUME NEW s \in Values, NEW n \in Numbers, VerifyOtp(n, s)
          PROVE  SecretsPart' /\ CodesPart' /\ [Abstract!Next]_(Abstract!singleVars)
        BY <2>3, <1>1, SlotsTyped DEF VerifyOtp
    <2>4. QED
        BY <2>1, <2>2, <2>3, <1>3, <1>4, <1>5, <1>6, <1>7, <1>8, <1>9 DEF SecretsNext, SecretsService

LEMMA AbstractInit == SecretsInit => Abstract!Init
BY DEF SecretsInit, Abstract!Init

-----------------------------------------------------------------------------
(* Theorems *)

\* Challenges and verification secrets implement the abstract single-use secrets.
THEOREM SecretsImplementSingleUse == SecretsSpec => ImplementsSingleUse
<1>1. SecretsInv /\ [SecretsNext]_secretVars => SecretsInv' /\ [Abstract!Next]_(Abstract!singleVars)
    BY SecretsStep
<1>2. QED
    BY <1>1, SecretsInvInit, AbstractInit, PTL DEF SecretsSpec, ImplementsSingleUse, Abstract!Spec

\* A challenge or a secret is accepted at most once, whatever expired, was replaced or
\* was lost in between (auth-challenge.service.ts:49-75, face-verification.service.ts:47-67).
THEOREM NothingAcceptedTwice == SecretsSpec => []AcceptedOnce
<1>1. SecretsInv /\ [SecretsNext]_secretVars => SecretsInv'
    BY SecretsStep
<1>2. SecretsInv => AcceptedOnce
    BY DEF SecretsInv
<1>3. QED
    BY <1>1, <1>2, SecretsInvInit, PTL DEF SecretsSpec

\* The stored code of a number is the newest one, whatever order the SMS answers have.
THEOREM NewestStays == SecretsSpec => []NewestCodeIsStored
<1>1. SecretsInv /\ [SecretsNext]_secretVars => SecretsInv'
    BY SecretsStep
<1>2. SecretsInv => NewestCodeIsStored
    BY DEF SecretsInv
<1>3. QED
    BY <1>1, <1>2, SecretsInvInit, PTL DEF SecretsSpec

\* Entries, codes and calls keep their shape.
THEOREM SecretsTypeCorrect == SecretsSpec => []SecretsTypeOK
<1>1. SecretsInv /\ [SecretsNext]_secretVars => SecretsInv'
    BY SecretsStep
<1>2. SecretsInv => SecretsTypeOK
    BY DEF SecretsInv
<1>3. QED
    BY <1>1, <1>2, SecretsInvInit, PTL DEF SecretsSpec
=============================================================================
