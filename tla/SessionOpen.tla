---------------------------- MODULE SessionOpen ----------------------------
(***************************************************************************)
(* ManagesieveSessionOpen (src/session.rs), pumped by                      *)
(* ManagesieveClientStd::connect (src/client/connect.rs): connect, read    *)
(* the greeting, upgrade with STARTTLS and read it again, authenticate.    *)
(* One call of resume runs through as many states as need no I/O, so an    *)
(* action here takes the session from one yield to the next.               *)
(***************************************************************************)
EXTENDS Authenticate

CONSTANT Requests   \* what callers ask of ManagesieveSessionOpen::new

Transports == {"tcp", "tls", "unix"}
SessionRequests == [transport : Transports, starttls : BOOLEAN,
                    allow_cleartext_auth : BOOLEAN, sasl : Mechanisms \cup {NoSasl}]

ASSUME RequestsAssumption == Requests \subseteq SessionRequests

VARIABLES
  request,    \* transport, sasl and opts
  sess,       \* the state resume is called in
  upgraded    \* STARTTLS was agreed on

sessionVars == << request, sess, upgraded >>
vars == << exchangeVars, serverVars, authVars, sessionVars >>

SessionStates == {"Connect", "Greeting", "StartTls", "Upgraded", "GreetingTls", "Auth"}

TypeOK ==
  /\ ExchangeTypeOK /\ ServerTypeOK /\ AuthTypeOK
  /\ request \in SessionRequests
  /\ sess \in SessionStates
  /\ upgraded \in BOOLEAN

\* Mutant: the capabilities are not read again after authentication.
SessionOptionsCheap(r) ==
  [mech |-> IF r.sasl = NoSasl THEN "PLAIN" ELSE r.sasl,
   initial_response |-> TRUE, ensure_capabilities |-> FALSE]

\* The options wants_auth runs the exchange with.
SessionOptions(r) ==
  [mech |-> IF r.sasl = NoSasl THEN "PLAIN" ELSE r.sasl,
   initial_response |-> TRUE, ensure_capabilities |-> TRUE]

Init ==
  /\ ExchangeInit /\ AuthInit
  /\ sock = "none" /\ st = "greet" /\ asked = 0 /\ strays = 0 /\ authed = FALSE
  /\ request \in Requests
  /\ opts = SessionOptions(request)
  /\ sess = "Connect" /\ upgraded = FALSE

-----------------------------------------------------------------------------
(* The policy.                                                             *)

\* A local socket counts as protected.
IsProtected(transport) == transport # "tcp"

\* Mutant: LOGIN is forgotten.
DisclosesButLogin(m) == m \in {"PLAIN", "OAUTHBEARER", "XOAUTH2"}

DisclosesCredential(m) == m \in {"PLAIN", "LOGIN", "OAUTHBEARER", "XOAUTH2"}

CleartextAuth ==
  /\ ~(upgraded \/ IsProtected(request.transport))
  /\ ~request.allow_cleartext_auth
  /\ DisclosesCredential(request.sasl)

-----------------------------------------------------------------------------
(* resume, state by state.                                                 *)

At(state) == out = "Run" /\ sess = state

\* Mutant: the local socket is forgotten.
StartTlsOverTlsOnly == request.starttls /\ request.transport = "tls"

StartTlsOverTls == request.starttls /\ IsProtected(request.transport)

ConnectRefused ==
  /\ At("Connect") /\ StartTlsOverTls
  /\ Complete("starttlsovertls")
  /\ UNCHANGED << buf, dropped, authVars, sessionVars >>

Connect ==
  /\ At("Connect") /\ ~StartTlsOverTls
  /\ Yield("WantsConnect")
  /\ sess' = "Greeting"
  /\ UNCHANGED << buf, dropped, authVars, request, upgraded >>

\* ManagesieveGreetingGet, on the plain connection and on the upgraded one.
\* After the upgrade, Upgraded falls through to GreetingTls.
Greeting == \/ At("Greeting")
            \/ out = "Run" /\ sess \in {"Upgraded", "GreetingTls"}

SessAfterRead == IF sess = "Upgraded" THEN "GreetingTls" ELSE sess

GreetingReadsMore ==
  /\ Greeting /\ ReadMore
  /\ sess' = SessAfterRead
  /\ UNCHANGED << authVars, request, upgraded >>

GreetingFails ==
  /\ Greeting /\ ReadFail
  /\ sess' = SessAfterRead
  /\ UNCHANGED << authVars, request, upgraded >>

\* Bytes past the response are looked at before its status.
GreetingRefused ==
  /\ Greeting /\ Reading = "response"
  /\ \/ Trailing(Received) # <<>> /\ Complete("injection")
     \/ /\ Trailing(Received) = <<>> /\ Completion(Received).kind # "ok"
        /\ Complete("rejected")
  /\ NewBuffer(Trailing(Received))
  /\ UNCHANGED << authVars, sessionVars >>

Greeted ==
  /\ Greeting /\ Reading = "response"
  /\ Trailing(Received) = <<>> /\ Completion(Received).kind = "ok"

\* The greeting's bytes are still the argument of the states that follow in
\* the same call: both STARTTLS and AUTHENTICATE write before they look.
WritesStartTls ==
  /\ Greeted /\ sess = "Greeting" /\ request.starttls
  /\ caps' = Listed(Received)
  /\ NewBuffer(Trailing(Received))
  /\ IF "STARTTLS" \in Data(Received)
       THEN WantsWrite(Command("STARTTLS")) /\ sess' = "StartTls"
       ELSE Complete("starttlsunsupported") /\ UNCHANGED sess
  /\ UNCHANGED << opts, auth, pending, turn, proved, cause, request, upgraded >>

\* wants_auth, and the first resume of the exchange it builds.
\* Mutant: a server without STARTTLS is carried on with in the clear.
SettledOpportunistic ==
  Greeted /\ (sess = "Greeting" => ~request.starttls \/ "STARTTLS" \notin Data(Received))

Settled == Greeted /\ (sess = "Greeting" => ~request.starttls)

NothingToAuthenticate ==
  /\ Settled /\ request.sasl = NoSasl
  /\ Complete("ok")
  /\ caps' = Listed(Received)
  /\ NewBuffer(Trailing(Received))
  /\ UNCHANGED << opts, auth, pending, turn, proved, cause, sessionVars >>

RefusesCleartext ==
  /\ Settled /\ request.sasl # NoSasl /\ CleartextAuth
  /\ Complete("cleartextauth")
  /\ caps' = Listed(Received)
  /\ NewBuffer(Trailing(Received))
  /\ UNCHANGED << opts, auth, pending, turn, proved, cause, sessionVars >>

\* Start leaves the capabilities to its caller.
StartsAuth ==
  /\ Settled /\ request.sasl # NoSasl /\ ~CleartextAuth
  /\ Start(opts)
  /\ caps' = Listed(Received)
  /\ NewBuffer(Trailing(Received))
  /\ sess' = "Auth"
  /\ UNCHANGED << opts, request, upgraded >>

StartTlsReadsMore == At("StartTls") /\ ReadMore /\ UNCHANGED << authVars, sessionVars >>
StartTlsFails == At("StartTls") /\ ReadFail /\ UNCHANGED << authVars, sessionVars >>

StartTlsRefused ==
  /\ At("StartTls") /\ Reading = "response"
  /\ \/ Trailing(Received) # <<>> /\ Complete("injection")
     \/ /\ Trailing(Received) = <<>> /\ Completion(Received).kind # "ok"
        /\ Complete("rejected")
  /\ NewBuffer(Trailing(Received))
  /\ UNCHANGED << authVars, sessionVars >>

\* Mutant: bytes past the reply are left in the buffer of the next reader.
StartTlsAcceptedInjected ==
  /\ At("StartTls") /\ Reading = "response"
  /\ Completion(Received).kind = "ok"
  /\ Yield("WantsTlsUpgrade")
  /\ upgraded' = TRUE /\ sess' = "Upgraded"
  /\ buf' = Trailing(Received)
  /\ UNCHANGED << dropped, authVars, request >>

\* Mutant: the greeting is read again without upgrading first.
StartTlsAcceptedPlain ==
  /\ At("StartTls") /\ Reading = "response"
  /\ Trailing(Received) = <<>> /\ Completion(Received).kind = "ok"
  /\ Yield("WantsRead")
  /\ upgraded' = TRUE /\ sess' = "GreetingTls"
  /\ NewBuffer(Trailing(Received))
  /\ UNCHANGED << authVars, request >>

StartTlsAccepted ==
  /\ At("StartTls") /\ Reading = "response"
  /\ Trailing(Received) = <<>> /\ Completion(Received).kind = "ok"
  /\ Yield("WantsTlsUpgrade")
  /\ upgraded' = TRUE /\ sess' = "Upgraded"
  /\ NewBuffer(Trailing(Received))
  /\ UNCHANGED << authVars, request >>

AuthContinues == At("Auth") /\ AuthResume /\ UNCHANGED sessionVars

Resume ==
  /\ \/ ConnectRefused \/ Connect
     \/ GreetingReadsMore \/ GreetingFails \/ GreetingRefused
     \/ WritesStartTls \/ NothingToAuthenticate \/ RefusesCleartext \/ StartsAuth
     \/ StartTlsReadsMore \/ StartTlsFails \/ StartTlsRefused \/ StartTlsAccepted
     \/ AuthContinues
  /\ UNCHANGED << wireVars, serverVars >>

-----------------------------------------------------------------------------
(* The pump's answers to the transport requests.  A failed connect or      *)
(* upgrade is a PumpFail.                                                  *)

PumpConnect ==
  /\ out = "WantsConnect"
  /\ sock' = request.transport
  /\ out' = "Run"
  /\ UNCHANGED << result, msg, arg, buf, dropped, net, inbox, sent, serverVars >>

\* The handshake succeeds with a server that agreed to it, and only if
\* nothing else is in its way on the connection.
PumpUpgrade ==
  /\ out = "WantsTlsUpgrade"
  /\ st = "handshake" /\ net = <<>>
  /\ sock' = "tls" /\ st' = "greet"
  /\ out' = "Run"
  /\ UNCHANGED << result, msg, arg, buf, dropped, net, inbox, sent, asked, strays, authed >>

Pump ==
  /\ \/ (PumpRead \/ PumpEof(st = "closed") \/ PumpWrite \/ PumpFail) /\ UNCHANGED serverVars
     \/ PumpConnect \/ PumpUpgrade
  /\ UNCHANGED << authVars, sessionVars >>

Peer == (Reply \/ Disturb) /\ UNCHANGED << authVars, sessionVars >>

Finished == Over /\ UNCHANGED vars

Next == Resume \/ Pump \/ Peer \/ Finished

Spec == Init /\ [][Next]_vars

\* The pump is a loop that always calls resume again and blocks in a read
\* only until bytes or the end of the stream arrive; connecting and the
\* handshake end, one way or the other; the server replies.
FairSpec ==
  /\ Spec
  /\ WF_vars(Resume)
  /\ WF_vars(Pump /\ (out \in {"WantsRead", "WantsWrite"} => out' = "Run"))
  /\ WF_vars(Reply /\ UNCHANGED << authVars, sessionVars >>)

-----------------------------------------------------------------------------
\* The mechanisms whose messages a passive observer could reuse, as the docs
\* of CleartextAuth and allow_cleartext_auth list them.
Disclosing == {"PLAIN", "LOGIN", "OAUTHBEARER", "XOAUTH2"}

\* No message that discloses a reusable credential leaves by an unprotected
\* socket unless the caller allowed it.  wants_auth decides from `upgraded',
\* set before the upgrade happens; this is about the socket written to.
NoCleartextCredential ==
  \A i \in DOMAIN sent :
    sent[i].over = "tcp" /\ sent[i].msg.mech \in Disclosing => request.allow_cleartext_auth

\* A caller that asked for STARTTLS never gets less: nothing but the STARTTLS
\* command leaves in the clear, and the session it is handed is on TLS.
StartTlsHonoured ==
  request.starttls =>
    /\ \A i \in DOMAIN sent : sent[i].msg.cmd # "STARTTLS" => sent[i].over = "tls"
    /\ out = "Complete" /\ result = "ok" => sock = "tls"

\* The upgrade is asked for, and the TLS session begins, with no plaintext in
\* hand and none thrown away: what was read on top of the reply to STARTTLS
\* is refused, not replayed inside TLS (starttls.rs, Injection).
CleanUpgrade ==
  /\ sess = "Upgraded" => ~dropped
  /\ sess \in {"Upgraded", "GreetingTls"} => \A i \in DOMAIN buf : buf[i].of.on # "clear"
  /\ upgraded /\ sess \in {"GreetingTls", "Auth"} /\ Over /\ result = "ok" => caps.on # "clear"

\* With a server that keeps the protocol, the capabilities returned are the
\* last it reported (ManagesieveSessionOpenData): those it sends to an
\* authenticated client, those sent over TLS, or the greeting's; and a
\* session returned as authenticated is authenticated for the server too.
CapabilitiesFresh ==
  out = "Complete" /\ result = "ok" =>
    caps.on = IF request.sasl # NoSasl THEN "auth"
              ELSE IF request.transport = "tcp" /\ ~request.starttls THEN "clear" ELSE "secure"

\* Opening a session always ends.
Terminates == <>Over

-----------------------------------------------------------------------------
\* What opening a session promises, whatever it takes: see SessionPolicy.
Policy == INSTANCE SessionPolicy WITH
  channel <- IF sock = "none" THEN "none" ELSE IF sock = "tcp" THEN "clear" ELSE "protected",
  presented <- \E i \in DOMAIN sent : sent[i].msg.cmd = "AUTHENTICATE",
  outcome <- IF ~Over THEN "pending" ELSE IF result = "ok" THEN "open" ELSE "failed"

PolicySpec == Policy!Spec
=============================================================================
