---------------------------- MODULE RemoteSigning ----------------------------
(***************************************************************************)
(* Signing with a key that stays with its user (fabric.ts,                 *)
(* socket-io.service.ts, remote-signing-client/client.js).  The server     *)
(* sends the digest to its sockets and keeps a handler under the id of the *)
(* request; a response, or the timeout, finds the handler and settles the  *)
(* promise.  Every client answers every request, so answers may come       *)
(* twice, after the timeout, after a restart, or never.                    *)
(***************************************************************************)
EXTENDS Naturals, FiniteSets

CONSTANTS
    Signers,        \* user ids that sign remotely
    Clients,        \* processes of the signing client
    SigningCalls    \* ids that can be drawn for requests: bounds the requests

VARIABLES
    sockets,        \* the user whose room the socket of a client has joined
    calls,          \* the promise of every request: its user and its outcome
    handlers,       \* the ids with a handler in global.signingHandlers
    asked,          \* the requests under way to a client
    answers         \* the responses under way to the server

signingVars == <<sockets, calls, handlers, asked, answers>>

NoUser   == "no user"
Unasked  == [user |-> NoUser, outcome |-> "unasked"]
Outcomes == {"unasked", "waiting", "signed", "failed"}

Waiting(r) == calls[r].outcome = "waiting"

Settle(r, outcome) ==
    IF Waiting(r) THEN [calls EXCEPT ![r].outcome = outcome] ELSE calls

Online == {c \in Clients : sockets[c] # NoUser}

\* The client connects and registers as the user it was started for.
Join(c) ==
    /\ sockets[c] = NoUser
    /\ \E u \in Signers : sockets' = [sockets EXCEPT ![c] = u]
    /\ UNCHANGED <<calls, handlers, asked, answers>>

\* What was under way to and from the socket is lost.
Leave(c) ==
    /\ sockets[c] # NoUser
    /\ sockets' = [sockets EXCEPT ![c] = NoUser]
    /\ asked' = {m \in asked : m.client # c}
    /\ answers' = {m \in answers : m.client # c}
    /\ UNCHANGED <<calls, handlers>>

HasConnectedSigningClients(u) == \E c \in Clients : sockets[c] = u

\* requestRemoteSignature: without a client in the user's room it fails at once,
\* otherwise the request goes to every socket.
RequestRemoteSignature(r, u) ==
    /\ calls[r] = Unasked
    /\ IF HasConnectedSigningClients(u)
       THEN /\ calls' = [calls EXCEPT ![r] = [user |-> u, outcome |-> "waiting"]]
            /\ handlers' = handlers \cup {r}
            /\ asked' = asked \cup {[call |-> r, client |-> c] : c \in Online}
       ELSE /\ calls' = [calls EXCEPT ![r] = [user |-> u, outcome |-> "failed"]]
            /\ UNCHANGED <<handlers, asked>>
    /\ UNCHANGED <<sockets, answers>>

\* The client signs the digest with the one key it has, or sends an error.
Answer(m) ==
    /\ m \in asked
    /\ asked' = asked \ {m}
    /\ \E signed \in BOOLEAN :
          answers' = answers \cup {[call |-> m.call, client |-> m.client, signed |-> signed]}
    /\ UNCHANGED <<sockets, calls, handlers>>

\* Mutant: the handler stays after its use.
CleanUpAfterNothing(r) == handlers

CleanUp(r) == handlers \ {r}

\* The 'signing-response' event: settles the promise if the handler is still there.
SigningResponse(m) ==
    /\ m \in answers
    /\ answers' = answers \ {m}
    /\ IF m.call \in handlers
       THEN /\ calls' = Settle(m.call, IF m.signed THEN "signed" ELSE "failed")
            /\ handlers' = CleanUp(m.call)
       ELSE UNCHANGED <<calls, handlers>>
    /\ UNCHANGED <<sockets, asked>>

\* Mutant: the timeout only cleans up.
CleanOnly(r) ==
    /\ Waiting(r)
    /\ r \in handlers
    /\ handlers' = handlers \ {r}
    /\ UNCHANGED <<sockets, calls, asked, answers>>

\* The timer of 30 seconds, cleared by the handler.
Timeout(r) ==
    /\ Waiting(r)
    /\ handlers' = handlers \ {r}
    /\ calls' = Settle(r, "failed")
    /\ UNCHANGED <<sockets, asked, answers>>

\* The server stops and starts again: its callers, handlers and sockets are gone.
SigningRestart ==
    /\ sockets' = [c \in Clients |-> NoUser]
    /\ calls' = [r \in SigningCalls |->
                    IF Waiting(r) THEN [calls[r] EXCEPT !.outcome = "failed"] ELSE calls[r]]
    /\ handlers' = {}
    /\ asked' = {}
    /\ answers' = {}

SigningInit ==
    /\ sockets = [c \in Clients |-> NoUser]
    /\ calls = [r \in SigningCalls |-> Unasked]
    /\ handlers = {}
    /\ asked = {}
    /\ answers = {}

SigningService ==
    \/ \E c \in Clients : Join(c) \/ Leave(c)
    \/ \E r \in SigningCalls :
          Timeout(r) \/ \E u \in Signers : RequestRemoteSignature(r, u)
    \/ \E m \in asked : Answer(m)
    \/ \E m \in answers : SigningResponse(m)

SigningNext == SigningService \/ SigningRestart

\* A timer that is set goes off; nothing is assumed of clients and messages.
SigningFairness == \A r \in SigningCalls : WF_signingVars(Timeout(r))

SigningSpec == SigningInit /\ [][SigningNext]_signingVars /\ SigningFairness
-----------------------------------------------------------------------------
(* Properties *)

Requests == [call : SigningCalls, client : Clients]
Responses == [call : SigningCalls, client : Clients, signed : BOOLEAN]

SigningTypeOK ==
    /\ sockets \in [Clients -> Signers \cup {NoUser}]
    /\ calls \in [SigningCalls -> [user : Signers \cup {NoUser}, outcome : Outcomes]]
    /\ handlers \subseteq SigningCalls
    /\ asked \subseteq Requests
    /\ answers \subseteq Responses

\* There is a handler for exactly the requests that still wait: none leaks when the
\* timeout, an answer or a second answer gets there first, and no request waits
\* without one (fabric.ts:84-92, socket-io.service.ts:70-76).
HandlersAreWaiting == handlers = {r \in SigningCalls : Waiting(r)}

\* The types and the table together are inductive.
SigningInv == SigningTypeOK /\ HandlersAreWaiting

\* Every request ends, whatever becomes of the clients and the messages.
RequestsEnd == \A r \in SigningCalls : Waiting(r) ~> ~Waiting(r)
=============================================================================
