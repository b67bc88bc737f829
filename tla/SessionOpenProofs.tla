-------------------------- MODULE SessionOpenProofs --------------------------
(***************************************************************************)
(* Opening a session, for every bound, request and behaviour of the        *)
(* server: every variable keeps its type, no reusable credential leaves by *)
(* an unprotected socket, a caller that asked for STARTTLS gets TLS, and   *)
(* each step is one of SessionPolicy's or none of its business.  Against a *)
(* server that keeps the protocol, whatever stage the opening ends at, the *)
(* stream is in step, and the capabilities a session is returned with are  *)
(* those in force.  Whatever is injected, no plaintext is taken across the *)
(* upgrade.                                                                *)
(***************************************************************************)
EXTENDS SessionOpen, AuthenticateProofs

-----------------------------------------------------------------------------
(* Type correctness.  One lemma for each group of actions.                 *)

LEMMA InitTypeOK == Init => TypeOK
<1> SUFFICES ASSUME Init PROVE TypeOK
  OBVIOUS
<1>1. request \in SessionRequests
  BY RequestsAssumption DEF Init
<1>2. ExchangeTypeOK
  BY NoneType, EmptySeq
  DEF Init, ExchangeInit, ExchangeTypeOK, Outs, Results, Msg, Command, Cmds, Payloads, Absent, Sockets
<1>3. ServerTypeOK
  <2>1. asked \in 0..MaxChallenges /\ strays \in 0..MaxStray
    <3>1. asked = 0 /\ strays = 0
      BY DEF Init
    <3>2. QED
      BY <3>1, ServerAssumption
  <2>2. st \in ServerStates /\ authed \in BOOLEAN
    BY DEF Init, ServerStates
  <2>3. QED
    BY <2>1, <2>2 DEF ServerTypeOK
<1>4. opts \in Options
  BY <1>1 DEF Init, SessionOptions, SessionRequests, Options, Mechanisms
<1>5. AuthTypeOK
  <2>1. caps \in Capabilities
    BY DEF Init, AuthInit, NoCapabilities, Capabilities, Phases
  <2>2. QED
    BY <1>4, <2>1 DEF Init, AuthInit, AuthTypeOK, AuthStates, Payloads, Absent
<1>6. QED
  BY <1>1, <1>2, <1>3, <1>5 DEF TypeOK, Init, SessionStates

LEMMA PartsOfTypeOK == TypeOK => PartsTypeOK
BY DEF TypeOK, PartsTypeOK

LEMMA Assemble ==
  ASSUME TypeOK, Returned', Buffered', AuthTypeOK',
         sess' \in SessionStates, upgraded' \in BOOLEAN,
         UNCHANGED << request, wireVars, serverVars >>
  PROVE  TypeOK'
BY DEF Returned, Buffered, TypeOK, ExchangeTypeOK, ServerTypeOK, wireVars, serverVars

-----------------------------------------------------------------------------
(* The server and the pump.                                                *)

LEMMA PeerTypeOK ==
  ASSUME TypeOK, Peer
  PROVE  TypeOK'
<1>1. PartsTypeOK'
  BY PartsOfTypeOK, PeerPartsTypeOK DEF Peer
<1>2. QED
  BY <1>1 DEF Peer, sessionVars, TypeOK, PartsTypeOK

LEMMA PumpTypeOK ==
  ASSUME TypeOK, Pump
  PROVE  TypeOK'
<1>1. PartsTypeOK /\ AuthTypeOK' /\ UNCHANGED sessionVars
  BY PartsOfTypeOK DEF Pump, TypeOK, AuthTypeOK, authVars
<1>2. CASE (PumpRead \/ PumpEof(st = "closed") \/ PumpWrite \/ PumpFail) /\ UNCHANGED serverVars
  BY <1>1, <1>2, PumpIoTypes DEF TypeOK, ServerTypeOK, serverVars, sessionVars
<1> USE DEF TypeOK, ExchangeTypeOK
<1>3. CASE PumpConnect
  <2>1. sock' \in Sockets
    BY <1>3 DEF PumpConnect, SessionRequests, Transports, Sockets
  <2>2. QED
    BY <1>1, <1>3, <2>1 DEF PumpConnect, Outs, ServerTypeOK, serverVars, sessionVars
<1>4. CASE PumpUpgrade
  BY <1>1, <1>4 DEF PumpUpgrade, Outs, Sockets, ServerTypeOK, ServerStates, sessionVars
<1>5. QED
  BY <1>2, <1>3, <1>4 DEF Pump

-----------------------------------------------------------------------------
(* The session.                                                            *)

LEMMA ResumeTypeOK ==
  ASSUME TypeOK, Resume
  PROVE  TypeOK'
<1>0. PartsTypeOK
  BY PartsOfTypeOK
<1>1. SUFFICES /\ Returned' /\ Buffered' /\ AuthTypeOK'
               /\ sess' \in SessionStates /\ upgraded' \in BOOLEAN
               /\ UNCHANGED request
  BY Assemble DEF Resume
<1> USE <1>0 DEF TypeOK, AuthTypeOK
<1>2. CASE ConnectRefused
  <2>1. Returned' /\ Buffered'
    BY <1>2, CompleteReturned DEF ConnectRefused, Results, Failures, Buffered, ExchangeTypeOK
  <2>2. QED
    BY <1>2, <2>1 DEF ConnectRefused, authVars, sessionVars
<1>3. CASE Connect
  <2>1. Returned' /\ Buffered'
    BY <1>3, YieldReturned DEF Connect, Yields, Buffered, ExchangeTypeOK
  <2>2. QED
    BY <1>3, <2>1 DEF Connect, authVars, SessionStates
<1>4. CASE GreetingReadsMore
  BY <1>4, ReadMoreTypes DEF GreetingReadsMore, authVars, SessAfterRead, SessionStates
<1>5. CASE GreetingFails
  BY <1>5, ReadFailTypes DEF GreetingFails, authVars, SessAfterRead, SessionStates
<1>6. CASE GreetingRefused \/ StartTlsRefused
  <2>1. Returned' /\ Buffered'
    BY <1>6, CompleteReturned, NewBufferBuffered DEF GreetingRefused, StartTlsRefused, Results, Failures
  <2>2. QED
    BY <1>6, <2>1 DEF GreetingRefused, StartTlsRefused, authVars, sessionVars
<1>7. ASSUME Greeted, NEW left, NewBuffer(left), caps' = Listed(Received)
      PROVE  Buffered' /\ caps' \in Capabilities
  BY <1>7, NewBufferBuffered, ReadingResponse, ListedType DEF Greeted
<1>8. CASE WritesStartTls
  <2>1. Returned' /\ sess' \in SessionStates
    BY <1>8, CommandType, WantsWriteReturned, CompleteReturned
    DEF WritesStartTls, Cmds, Results, Failures, SessionStates
  <2>2. QED
    BY <1>7, <1>8, <2>1 DEF WritesStartTls
<1>9. CASE NothingToAuthenticate \/ RefusesCleartext
  <2>1. Returned'
    BY <1>9, CompleteReturned DEF NothingToAuthenticate, RefusesCleartext, Results, Failures
  <2>2. QED
    BY <1>7, <1>9, <2>1 DEF NothingToAuthenticate, RefusesCleartext, Settled, sessionVars
<1>10. CASE StartsAuth
  <2>1. Buffered' /\ caps' \in Capabilities
    BY <1>7, <1>10 DEF StartsAuth, Settled
  <2>2. QED
    BY <1>10, <2>1, StartTypes DEF StartsAuth, SessionStates
<1>11. CASE StartTlsReadsMore
  BY <1>11, ReadMoreTypes DEF StartTlsReadsMore, authVars, sessionVars
<1>12. CASE StartTlsFails
  BY <1>12, ReadFailTypes DEF StartTlsFails, authVars, sessionVars
<1>13. CASE StartTlsAccepted
  <2>1. Returned' /\ Buffered'
    BY <1>13, YieldReturned, NewBufferBuffered DEF StartTlsAccepted, Yields
  <2>2. QED
    BY <1>13, <2>1 DEF StartTlsAccepted, authVars, SessionStates
<1>14. CASE AuthContinues
  BY <1>14, AuthResumeTypes DEF AuthContinues, sessionVars
<1>15. QED
  BY <1>2, <1>3, <1>4, <1>5, <1>6, <1>8, <1>9, <1>10, <1>11, <1>12, <1>13, <1>14 DEF Resume

\* Every variable stays in its type, whatever the bounds and the requests.
THEOREM SessionTypeOK == Spec => []TypeOK
<1>1. TypeOK /\ [Next]_vars => TypeOK'
  <2> SUFFICES ASSUME TypeOK, [Next]_vars PROVE TypeOK'
    OBVIOUS
  <2>1. CASE UNCHANGED vars
    BY <2>1 DEF vars, exchangeVars, coroutineVars, wireVars, serverVars, authVars, sessionVars,
                TypeOK, ExchangeTypeOK, ServerTypeOK, AuthTypeOK
  <2>2. QED
    BY <2>1, ResumeTypeOK, PumpTypeOK, PeerTypeOK DEF Next, Finished
<1>2. QED
  BY InitTypeOK, <1>1, PTL DEF Spec

-----------------------------------------------------------------------------
(* Credentials.                                                            *)

\* Where the session stands tells what its socket is.  `upgraded' runs ahead
\* of the socket only between the yield of WantsTlsUpgrade and the next call,
\* and the exchange only starts in the last state.
ChannelInv ==
  /\ sock \in {"none", "tls", request.transport}
  /\ upgraded => sess \in {"Upgraded", "GreetingTls", "Auth"}
  /\ upgraded => sock = "tls" \/ (sess = "Upgraded" /\ out \in {"WantsTlsUpgrade", "Broken"})
  /\ auth # "Start" => sess = "Auth"
  /\ out = "WantsConnect" => sess = "Greeting"
  /\ opts = SessionOptions(request)

\* The mechanism may speak over the socket as it is.
MaySpeak(m) == sock = "tcp" /\ m \in Disclosing => request.allow_cleartext_auth

\* What makes NoCleartextCredential inductive: an exchange under way may
\* speak, and so may the message that is about to leave.
CredentialInv ==
  /\ ChannelInv
  /\ auth # "Start" => MaySpeak(opts.mech)
  /\ out = "WantsWrite" => MaySpeak(msg.mech)
  /\ NoCleartextCredential

LEMMA DisclosesIsDisclosing ==
  ASSUME NEW m
  PROVE  DisclosesCredential(m) <=> m \in Disclosing
BY DEF DisclosesCredential, Disclosing

LEMMA NoSaslDisclosesNothing ==
  ASSUME NEW c
  PROVE  MaySpeak(Command(c).mech)
BY DEF MaySpeak, Command, NoSasl, Disclosing

\* What an exchange writes carries its own mechanism, or none.
LEMMA AuthResumeSpeaks ==
  ASSUME TypeOK, AuthResume
  PROVE  /\ UNCHANGED opts
         /\ auth # "Start" /\ auth' # "Start"
         /\ out' \notin {"WantsConnect", "WantsTlsUpgrade"}
         /\ out' = "WantsWrite" => msg'.mech \in {opts.mech, NoSasl}
<1> USE DEF authVars, Reads, Aborting, Fetching, Yield, WantsWrite, Complete, Respond, Command
<1>1. CASE ReadsMore \/ ReadsError
  BY <1>1 DEF ReadsMore, ReadsError
<1>2. CASE AnswerPending \/ AnswerChallenge
  BY <1>2 DEF AnswerPending, AnswerChallenge
<1>3. CASE CancelExchange
  BY <1>3 DEF CancelExchange
<1>4. CASE CompletionRefused \/ CompletionAccepted \/ FetchCapabilities
  BY <1>4 DEF CompletionRefused, CompletionAccepted, FetchCapabilities, Accepts
<1>5. CASE AbortReadsMore \/ AbortEnds
  BY <1>5 DEF AbortReadsMore, AbortEnds
<1>6. CASE CapabilityReadsMore \/ CapabilityFails \/ CapabilityRejected \/ CapabilityDone
  BY <1>6 DEF CapabilityReadsMore, CapabilityFails, CapabilityRejected, CapabilityDone, ReadMore, ReadFail
<1>7. QED
  BY <1>1, <1>2, <1>3, <1>4, <1>5, <1>6 DEF AuthResume

\* An exchange that starts is one wants_auth let through.
LEMMA StartSpeaks ==
  ASSUME TypeOK, CredentialInv, StartsAuth
  PROVE  /\ MaySpeak(opts.mech)
         /\ out' \in {"WantsWrite", "Complete"}
         /\ out' = "WantsWrite" => msg'.mech = opts.mech
<1>1. opts.mech = request.sasl
  BY DEF StartsAuth, CredentialInv, ChannelInv, SessionOptions
<1>2. out = "Run"
  BY DEF StartsAuth, Settled, Greeted, Greeting, At
<1>3. MaySpeak(opts.mech)
  <2>1. CASE upgraded
    BY <1>2, <2>1 DEF CredentialInv, ChannelInv, MaySpeak
  <2>2. CASE IsProtected(request.transport)
    BY <2>2 DEF IsProtected, CredentialInv, ChannelInv, MaySpeak
  <2>3. CASE request.allow_cleartext_auth \/ ~DisclosesCredential(request.sasl)
    BY <1>1, <2>3, DisclosesIsDisclosing DEF MaySpeak
  <2>4. QED
    BY <2>1, <2>2, <2>3 DEF StartsAuth, CleartextAuth
<1>4. QED
  BY <1>3 DEF StartsAuth, Start, UnsupportedMechanism, StartFails, StartWrites, WantsWrite, Complete

LEMMA ResumeCredential ==
  ASSUME TypeOK, CredentialInv, Resume
  PROVE  CredentialInv'
<1> USE DEF CredentialInv
<1>1. UNCHANGED << sock, sent, request, opts >>
  BY AuthResumeSpeaks
  DEF Resume, wireVars, sessionVars, authVars, ConnectRefused, Connect, GreetingReadsMore, GreetingFails,
      GreetingRefused, WritesStartTls, NothingToAuthenticate, RefusesCleartext, StartsAuth,
      StartTlsReadsMore, StartTlsFails, StartTlsRefused, StartTlsAccepted, AuthContinues
<1>2. NoCleartextCredential' /\ (\A m : MaySpeak(m) => MaySpeak(m)')
  BY <1>1 DEF NoCleartextCredential, MaySpeak
<1>3. SUFFICES ChannelInv' /\ (auth' # "Start" => MaySpeak(opts.mech))
                           /\ (out' = "WantsWrite" => MaySpeak(msg'.mech))
  BY <1>1, <1>2 DEF MaySpeak
<1> USE DEF ChannelInv
<1>4. CASE ConnectRefused \/ Connect
  BY <1>1, <1>4 DEF ConnectRefused, Connect, At, Complete, Yield, authVars, sessionVars
<1>5. CASE GreetingReadsMore \/ GreetingFails \/ GreetingRefused
  BY <1>1, <1>5
  DEF GreetingReadsMore, GreetingFails, GreetingRefused, Greeting, At, SessAfterRead,
      ReadMore, ReadFail, Complete, Yield, authVars, sessionVars
<1>6. CASE WritesStartTls
  <2>1. out' = "WantsWrite" => msg' = Command("STARTTLS")
    BY <1>6 DEF WritesStartTls, WantsWrite, Complete
  <2>2. QED
    BY <1>1, <1>6, <2>1, NoSaslDisclosesNothing
    DEF WritesStartTls, Greeted, Greeting, At, WantsWrite, Complete
<1>7. CASE NothingToAuthenticate \/ RefusesCleartext
  BY <1>1, <1>7
  DEF NothingToAuthenticate, RefusesCleartext, Settled, Greeted, Greeting, At, Complete, sessionVars
<1>8. CASE StartsAuth
  <2>1. upgraded => sock = "tls"
    BY <1>8 DEF StartsAuth, Settled, Greeted, Greeting, At
  <2>2. QED
    BY <1>1, <1>8, <2>1, StartSpeaks DEF StartsAuth
<1>9. CASE StartTlsReadsMore \/ StartTlsFails \/ StartTlsRefused
  BY <1>1, <1>9
  DEF StartTlsReadsMore, StartTlsFails, StartTlsRefused, At, ReadMore, ReadFail, Complete, Yield,
      authVars, sessionVars
<1>10. CASE StartTlsAccepted
  BY <1>1, <1>10 DEF StartTlsAccepted, At, Yield, authVars
<1>11. CASE AuthContinues
  <2>1. MaySpeak(opts.mech) /\ MaySpeak(NoSasl)
    BY <1>11, AuthResumeSpeaks DEF AuthContinues, MaySpeak, NoSasl, Disclosing
  <2>2. QED
    BY <1>1, <1>11, <2>1, AuthResumeSpeaks DEF AuthContinues, At, sessionVars
<1>12. QED
  BY <1>4, <1>5, <1>6, <1>7, <1>8, <1>9, <1>10, <1>11 DEF Resume

LEMMA PumpCredential ==
  ASSUME TypeOK, CredentialInv, Pump
  PROVE  CredentialInv'
<1> USE DEF CredentialInv
<1>1. UNCHANGED << msg, authVars, sessionVars >>
  BY DEF Pump, PumpRead, PumpEof, PumpWrite, PumpFail, PumpConnect, PumpUpgrade
<1> USE DEF authVars, sessionVars
<1>2. CASE PumpRead \/ PumpEof(st = "closed") \/ PumpFail
  BY <1>1, <1>2
  DEF PumpRead, PumpEof, PumpFail, Yields, wireVars, ChannelInv, MaySpeak, NoCleartextCredential
<1>3. CASE PumpWrite
  <2>1. NoCleartextCredential'
    <3>1. DOMAIN sent' = 1..(Len(sent) + 1)
      BY <1>3, LenProperties, AppendProperties DEF PumpWrite, TypeOK, ExchangeTypeOK
    <3>2. /\ \A i \in 1..Len(sent) : sent'[i] = sent[i]
          /\ sent'[Len(sent) + 1] = [msg |-> msg, over |-> sock]
      BY <1>3 DEF PumpWrite, TypeOK, ExchangeTypeOK
    <3>3. DOMAIN sent = 1..Len(sent) /\ Len(sent) \in Nat
      BY LenProperties DEF TypeOK, ExchangeTypeOK
    <3>4. QED
      BY <1>1, <1>3, <3>1, <3>2, <3>3 DEF PumpWrite, NoCleartextCredential, MaySpeak
  <2>2. QED
    BY <1>1, <1>3, <2>1 DEF PumpWrite, ChannelInv, MaySpeak
<1>4. CASE PumpConnect
  BY <1>1, <1>4 DEF PumpConnect, ChannelInv, MaySpeak, NoCleartextCredential
<1>5. CASE PumpUpgrade
  BY <1>1, <1>5 DEF PumpUpgrade, ChannelInv, MaySpeak, NoCleartextCredential
<1>6. QED
  BY <1>2, <1>3, <1>4, <1>5 DEF Pump

\* Where the session stands tells what its socket is, and whatever is about to
\* be written may be.
LEMMA SessionCredentialInv == Spec => []CredentialInv
<1>1. Init => CredentialInv
  <2> SUFFICES ASSUME Init PROVE CredentialInv
    OBVIOUS
  <2>1. ChannelInv
    BY DEF Init, ExchangeInit, AuthInit, ChannelInv
  <2>2. NoCleartextCredential
    BY DEF Init, ExchangeInit, NoCleartextCredential
  <2>3. QED
    BY <2>1, <2>2 DEF Init, ExchangeInit, AuthInit, CredentialInv
<1>2. TypeOK /\ CredentialInv /\ [Next]_vars => CredentialInv'
  <2> SUFFICES ASSUME TypeOK, CredentialInv, [Next]_vars PROVE CredentialInv'
    OBVIOUS
  <2>1. CASE UNCHANGED << coroutineVars, sock, sent, authVars, sessionVars >>
    BY <2>1 DEF coroutineVars, authVars, sessionVars, CredentialInv, ChannelInv, MaySpeak,
                NoCleartextCredential
  <2>2. CASE Peer
    BY <2>1, <2>2 DEF Peer, Reply, Disturb
  <2>3. CASE UNCHANGED vars
    BY <2>1, <2>3 DEF vars, exchangeVars, wireVars
  <2>4. QED
    BY <2>2, <2>3, ResumeCredential, PumpCredential DEF Next, Finished
<1>3. QED
  BY <1>1, <1>2, SessionTypeOK, PTL DEF Spec

\* No credential a passive observer could reuse leaves by a cleartext socket
\* unless the caller allowed it: for every server, request and bound.
THEOREM SessionNoCleartextCredential == Spec => []NoCleartextCredential
<1>1. CredentialInv => NoCleartextCredential
  BY DEF CredentialInv
<1>2. QED
  BY <1>1, SessionCredentialInv, PTL

-----------------------------------------------------------------------------
(* The policy of a session.                                                *)

Presented == \E i \in DOMAIN sent : sent[i].msg.cmd = "AUTHENTICATE"
OnlyStartTls == \A i \in DOMAIN sent : sent[i].msg.cmd = "STARTTLS"
OthersOnTls == \A i \in DOMAIN sent : sent[i].msg.cmd # "STARTTLS" => sent[i].over = "tls"

\* Before the exchange nothing but a STARTTLS is written.
BeforeAuth ==
  sess # "Auth" =>
    /\ OnlyStartTls
    /\ out = "WantsWrite" => msg.cmd = "STARTTLS"

\* The socket is the one connect opened until the upgrade is performed, and
\* connect is the first thing asked of the pump.
SocketInv ==
  /\ sess = "Connect" => sock = "none"
  /\ out = "WantsConnect" => sock = "none"
  /\ sock = "none" => sess = "Connect" \/ out \in {"WantsConnect", "Broken"}
  /\ sess \in {"Greeting", "StartTls"} => sock \in {"none", request.transport}
  /\ out = "WantsTlsUpgrade" => sess = "Upgraded" /\ sock = request.transport

\* STARTTLS is asked for in the clear, and comes before what it is for.
UpgradeInv ==
  /\ request.starttls /\ sess # "Connect" => request.transport = "tcp"
  /\ sess \in {"StartTls", "Upgraded", "GreetingTls"} => request.starttls
  /\ request.starttls /\ sess \in {"Upgraded", "GreetingTls", "Auth"} => upgraded

\* An exchange is one the caller asked for, and its first message is written
\* before it can return a success.
ExchangeInv ==
  sess = "Auth" =>
    /\ request.sasl # NoSasl
    /\ \/ Presented
       \/ out = "WantsWrite" /\ msg.cmd = "AUTHENTICATE" /\ msg.mech = request.sasl
       \/ out = "Broken"
       \/ out = "Complete" /\ result # "ok"

\* A session that is returned is connected, on TLS if that was asked for, and
\* was authenticated if there was a mechanism to do it with.
OpenInv ==
  /\ out # "Complete" => result = "none"
  /\ out = "Complete" /\ result = "ok" =>
       /\ sock # "none"
       /\ request.starttls => sock = "tls"
       /\ sess # "Auth" => request.sasl = NoSasl

PolicyInv ==
  /\ BeforeAuth /\ SocketInv /\ UpgradeInv /\ ExchangeInv /\ OpenInv
  /\ request.starttls => OthersOnTls

LEMMA PolicyInvHonours == PolicyInv => StartTlsHonoured
BY DEF PolicyInv, OpenInv, OthersOnTls, StartTlsHonoured

LEMMA InitPolicyInv == Init => PolicyInv
<1> SUFFICES ASSUME Init PROVE PolicyInv
  OBVIOUS
<1>1. OnlyStartTls /\ OthersOnTls
  BY DEF Init, ExchangeInit, OnlyStartTls, OthersOnTls
<1>2. QED
  BY <1>1 DEF Init, ExchangeInit, PolicyInv, BeforeAuth, SocketInv, UpgradeInv, ExchangeInv, OpenInv

-----------------------------------------------------------------------------
(* The policy: resume.                                                       *)

LEMMA ResumeLeaves ==
  ASSUME TypeOK, Resume
  PROVE  /\ out = "Run"
         /\ UNCHANGED << sock, sent, request >>
         /\ UNCHANGED << Presented, OnlyStartTls, OthersOnTls >>
<1>1. out = "Run"
  BY DEF Resume, ConnectRefused, Connect, GreetingReadsMore, GreetingFails, GreetingRefused,
         WritesStartTls, NothingToAuthenticate, RefusesCleartext, StartsAuth, Settled, Greeted,
         Greeting, StartTlsReadsMore, StartTlsFails, StartTlsRefused, StartTlsAccepted,
         AuthContinues, At
<1>2. UNCHANGED << sock, sent, request >>
  BY DEF Resume, wireVars, sessionVars, ConnectRefused, Connect, GreetingReadsMore, GreetingFails,
         GreetingRefused, WritesStartTls, NothingToAuthenticate, RefusesCleartext, StartsAuth,
         StartTlsReadsMore, StartTlsFails, StartTlsRefused, StartTlsAccepted, AuthContinues
<1>3. UNCHANGED << Presented, OnlyStartTls, OthersOnTls >>
  BY <1>2 DEF Presented, OnlyStartTls, OthersOnTls
<1>4. QED
  BY <1>1, <1>2, <1>3

\* A reader that goes on or gives up returns no session.
LEMMA ReadLeaves ==
  ASSUME ReadMore \/ ReadFail
  PROVE  \/ out' = "WantsRead" /\ result' = result
         \/ out' = "Complete" /\ result' # "ok"
BY DEF ReadMore, ReadFail, Yield, Complete

\* An exchange under way asks for reads and writes, and returns.
LEMMA AuthResumeLeaves ==
  ASSUME TypeOK, AuthResume
  PROVE  \/ out' \in {"WantsRead", "WantsWrite"} /\ result' = result
         \/ out' = "Complete"
<1> USE DEF Yield, WantsWrite, Complete, Respond
<1>1. CASE ReadsMore \/ ReadsError \/ AnswerPending \/ AnswerChallenge \/ CancelExchange
  BY <1>1 DEF ReadsMore, ReadsError, AnswerPending, AnswerChallenge, CancelExchange
<1>2. CASE CompletionRefused \/ CompletionAccepted \/ FetchCapabilities
  BY <1>2 DEF CompletionRefused, CompletionAccepted, FetchCapabilities
<1>3. CASE AbortReadsMore \/ AbortEnds
  BY <1>3 DEF AbortReadsMore, AbortEnds
<1>4. CASE CapabilityReadsMore \/ CapabilityFails \/ CapabilityRejected \/ CapabilityDone
  BY <1>4 DEF CapabilityReadsMore, CapabilityFails, CapabilityRejected, CapabilityDone,
              ReadMore, ReadFail
<1>5. QED
  BY <1>1, <1>2, <1>3, <1>4 DEF AuthResume

\* The first resume of an exchange writes its AUTHENTICATE, or fails.
LEMMA StartLeaves ==
  ASSUME CredentialInv, StartsAuth
  PROVE  \/ /\ out' = "WantsWrite" /\ result' = result
            /\ msg'.cmd = "AUTHENTICATE" /\ msg'.mech = request.sasl
         \/ out' = "Complete" /\ result' # "ok"
<1>1. opts.mech = request.sasl
  BY DEF StartsAuth, CredentialInv, ChannelInv, SessionOptions
<1>2. QED
  BY <1>1 DEF StartsAuth, Start, UnsupportedMechanism, StartFails, StartWrites, WantsWrite, Complete

LEMMA ResumePolicyInv ==
  ASSUME TypeOK, CredentialInv, PolicyInv, Resume
  PROVE  PolicyInv'
<1>1. out = "Run" /\ UNCHANGED << sock, sent, request, Presented, OnlyStartTls, OthersOnTls >>
  BY ResumeLeaves
<1>2. ChannelInv
  BY DEF CredentialInv
<1> USE DEF PolicyInv, BeforeAuth, SocketInv, UpgradeInv, ExchangeInv, OpenInv
<1>3. CASE ConnectRefused
  BY <1>1, <1>3 DEF ConnectRefused, At, Complete, sessionVars
<1>4. CASE Connect
  BY <1>1, <1>4 DEF Connect, At, Yield, StartTlsOverTls, IsProtected
<1>5. CASE GreetingReadsMore \/ GreetingFails
  BY <1>1, <1>5, ReadLeaves DEF GreetingReadsMore, GreetingFails, Greeting, At, SessAfterRead
<1>6. CASE GreetingRefused \/ StartTlsRefused
  BY <1>1, <1>6 DEF GreetingRefused, StartTlsRefused, Greeting, At, Complete, sessionVars
<1>7. CASE WritesStartTls
  BY <1>1, <1>7 DEF WritesStartTls, Greeted, Greeting, At, WantsWrite, Complete, Command
<1>8. CASE NothingToAuthenticate \/ RefusesCleartext
  BY <1>1, <1>2, <1>8
  DEF NothingToAuthenticate, RefusesCleartext, Settled, Greeted, Greeting, At, Complete,
      sessionVars, ChannelInv
<1>9. CASE StartsAuth
  BY <1>1, <1>9, StartLeaves DEF StartsAuth, Settled, Greeted, Greeting, At
<1>10. CASE StartTlsReadsMore \/ StartTlsFails
  BY <1>1, <1>10, ReadLeaves DEF StartTlsReadsMore, StartTlsFails, At, sessionVars
<1>11. CASE StartTlsAccepted
  BY <1>1, <1>11 DEF StartTlsAccepted, At, Yield
<1>12. CASE AuthContinues
  BY <1>1, <1>2, <1>12, AuthResumeLeaves DEF AuthContinues, At, sessionVars, ChannelInv
<1>13. QED
  BY <1>3, <1>4, <1>5, <1>6, <1>7, <1>8, <1>9, <1>10, <1>11, <1>12 DEF Resume

\* A call of resume is a step of the policy only when it returns.
LEMMA ResumeRefines ==
  ASSUME TypeOK, PolicyInv, PolicyInv', Resume
  PROVE  [Policy!Next]_Policy!vars
<1>1. out = "Run" /\ UNCHANGED << sock, request, Presented >>
  BY ResumeLeaves
<1>2. ~Over
  BY <1>1 DEF Over
<1>3. CASE ~Over'
  BY <1>1, <1>2, <1>3 DEF Policy!vars, Presented
<1>4. CASE Over' /\ result' # "ok"
  BY <1>1, <1>2, <1>4 DEF Policy!Next, Policy!Fail, Presented
<1>5. CASE Over' /\ result' = "ok"
  <2>1. out' = "Complete"
    BY <1>5 DEF PolicyInv, OpenInv
  <2>2. sock # "none" /\ (request.starttls => sock = "tls")
    BY <1>1, <1>5, <2>1 DEF PolicyInv, OpenInv
  <2>3. Presented' = (request.sasl # "none")
    <3>1. CASE sess' = "Auth"
      BY <1>1, <1>5, <2>1, <3>1 DEF PolicyInv, ExchangeInv, NoSasl
    <3>2. CASE sess' # "Auth"
      BY <1>1, <1>5, <2>1, <3>2 DEF PolicyInv, BeforeAuth, OpenInv, NoSasl, Presented, OnlyStartTls
    <3>3. QED
      BY <3>1, <3>2
  <2>4. QED
    BY <1>1, <1>2, <1>5, <2>2, <2>3 DEF Policy!Next, Policy!Open, Policy!Ready, Presented
<1>6. QED
  BY <1>3, <1>4, <1>5

-----------------------------------------------------------------------------
(* Steps of the pump.                                                      *)

\* A write before the exchange is a STARTTLS; credentials are presented by
\* the first write of the exchange; and what asked for TLS is written on it.
LEMMA WriteLeaves ==
  ASSUME TypeOK, CredentialInv, PolicyInv, PumpWrite
  PROVE  /\ Presented' <=> Presented \/ msg.cmd = "AUTHENTICATE"
         /\ OnlyStartTls /\ msg.cmd = "STARTTLS" => OnlyStartTls'
         /\ msg.cmd # "STARTTLS" => sess = "Auth" /\ (request.starttls => sock = "tls")
         /\ request.starttls => OthersOnTls'
<1>1. /\ DOMAIN sent' = DOMAIN sent \cup {Len(sent) + 1}
      /\ \A i \in DOMAIN sent : sent'[i] = sent[i]
      /\ sent'[Len(sent) + 1] = [msg |-> msg, over |-> sock]
  BY WriteExtends, PartsOfTypeOK
<1>2. Presented' <=> Presented \/ msg.cmd = "AUTHENTICATE"
  BY <1>1 DEF Presented
<1>3. OnlyStartTls /\ msg.cmd = "STARTTLS" => OnlyStartTls'
  BY <1>1 DEF OnlyStartTls
<1>4. msg.cmd # "STARTTLS" => sess = "Auth" /\ (request.starttls => sock = "tls")
  BY DEF PumpWrite, PolicyInv, BeforeAuth, UpgradeInv, CredentialInv, ChannelInv
<1>5. OthersOnTls /\ (msg.cmd # "STARTTLS" => sock = "tls") => OthersOnTls'
  BY <1>1 DEF OthersOnTls
<1>6. QED
  BY <1>2, <1>3, <1>4, <1>5 DEF PolicyInv

LEMMA PumpPolicyInv ==
  ASSUME TypeOK, CredentialInv, PolicyInv, Pump
  PROVE  PolicyInv'
<1>1. UNCHANGED << msg, result, request, sess, upgraded >>
  BY DEF Pump, PumpRead, PumpEof, PumpWrite, PumpFail, PumpConnect, PumpUpgrade, sessionVars
<1>2. ChannelInv
  BY DEF CredentialInv
<1> USE DEF PolicyInv, BeforeAuth, SocketInv, UpgradeInv, ExchangeInv, OpenInv
<1>3. ASSUME UNCHANGED sent
      PROVE  UNCHANGED << Presented, OnlyStartTls, OthersOnTls >>
  BY <1>3 DEF Presented, OnlyStartTls, OthersOnTls
<1>4. CASE PumpRead \/ PumpEof(st = "closed") \/ PumpFail
  <2>1. UNCHANGED << sock, sent >>
    BY <1>4 DEF PumpRead, PumpEof, PumpFail, wireVars
  <2>2. UNCHANGED << Presented, OnlyStartTls, OthersOnTls >>
    BY <1>3, <2>1
  <2>3. QED
    BY <1>1, <1>4, <2>1, <2>2 DEF PumpRead, PumpEof, PumpFail, Yields
<1>5. CASE PumpWrite
  <2>1. /\ out = "WantsWrite" /\ out' = "Run" /\ UNCHANGED sock
        /\ sess = "Auth" => Presented'
    BY <1>5, WriteLeaves DEF PumpWrite
  <2>2. QED
    BY <1>1, <1>5, <2>1, WriteLeaves
<1>6. CASE PumpConnect
  <2>1. request.transport # "none"
    BY DEF TypeOK, SessionRequests, Transports
  <2>2. UNCHANGED << Presented, OnlyStartTls, OthersOnTls >>
    BY <1>3, <1>6 DEF PumpConnect
  <2>3. QED
    BY <1>1, <1>2, <1>6, <2>1, <2>2 DEF PumpConnect, ChannelInv
<1>7. CASE PumpUpgrade
  <2>1. UNCHANGED << Presented, OnlyStartTls, OthersOnTls >>
    BY <1>3, <1>7 DEF PumpUpgrade
  <2>2. QED
    BY <1>1, <1>7, <2>1 DEF PumpUpgrade
<1>8. QED
  BY <1>4, <1>5, <1>6, <1>7 DEF Pump

\* Connecting, upgrading, giving up and the first write of the exchange are
\* the policy's steps; every other step of the pump is a stutter.
LEMMA PumpRefines ==
  ASSUME TypeOK, CredentialInv, PolicyInv, Pump
  PROVE  [Policy!Next]_Policy!vars
<1>1. UNCHANGED << msg, result, request, sess, upgraded >>
  BY DEF Pump, PumpRead, PumpEof, PumpWrite, PumpFail, PumpConnect, PumpUpgrade, sessionVars
<1>2. ChannelInv
  BY DEF CredentialInv
<1>3. /\ request.transport \in {"tcp", "tls", "unix"}
      /\ sock \in {"none", "tcp", "tls", "unix"}
  BY DEF TypeOK, ExchangeTypeOK, Sockets, SessionRequests, Transports
<1>4. ASSUME UNCHANGED sent
      PROVE  UNCHANGED Presented
  BY <1>4 DEF Presented
<1>5. CASE PumpRead \/ PumpEof(st = "closed")
  BY <1>1, <1>4, <1>5 DEF PumpRead, PumpEof, wireVars, Over, Policy!vars, Presented
<1>6. CASE PumpFail
  <2>1. out \in Yields /\ out' = "Broken" /\ result = "none" /\ UNCHANGED << sock, sent >>
    BY <1>6 DEF PumpFail, wireVars, Yields, PolicyInv, OpenInv
  <2>2. QED
    BY <1>1, <1>4, <2>1 DEF Over, Yields, Policy!Next, Policy!Fail, Presented
<1>7. CASE PumpConnect
  <2>1. sock = "none" /\ (request.starttls => request.transport = "tcp")
    BY <1>2, <1>7 DEF PumpConnect, ChannelInv, PolicyInv, SocketInv, UpgradeInv
  <2>2. out = "WantsConnect" /\ out' = "Run" /\ sock' = request.transport /\ UNCHANGED sent
    BY <1>7 DEF PumpConnect
  <2>3. QED
    BY <1>1, <1>3, <1>4, <2>1, <2>2 DEF Over, Policy!Next, Policy!Connect, Presented
<1>8. CASE PumpUpgrade
  <2>1. sock = "tcp" /\ request.starttls /\ ~Presented
    BY <1>8 DEF PumpUpgrade, PolicyInv, SocketInv, UpgradeInv, BeforeAuth, OnlyStartTls, Presented
  <2>2. out = "WantsTlsUpgrade" /\ out' = "Run" /\ sock' = "tls" /\ UNCHANGED sent
    BY <1>8 DEF PumpUpgrade
  <2>3. QED
    BY <1>1, <1>4, <2>1, <2>2 DEF Over, Policy!Next, Policy!Secure, Presented
<1>9. CASE PumpWrite
  <2>1. out = "WantsWrite" /\ out' = "Run" /\ UNCHANGED sock
    BY <1>9 DEF PumpWrite
  <2>2. CASE Presented \/ msg.cmd # "AUTHENTICATE"
    <3>1. UNCHANGED Presented
      BY <1>9, <2>2, WriteLeaves DEF Presented
    <3>2. QED
      BY <1>1, <2>1, <3>1 DEF Over, Policy!vars, Presented
  <2>3. CASE ~Presented /\ msg.cmd = "AUTHENTICATE"
    <3>1. Presented' /\ sess = "Auth" /\ (request.starttls => sock = "tls")
      BY <1>9, <2>3, WriteLeaves
    <3>2. request.sasl # "none" /\ msg.mech = request.sasl /\ sock # "none"
      BY <2>1, <2>3, <3>1 DEF PolicyInv, ExchangeInv, SocketInv, NoSasl
    <3>3. sock = "tcp" => request.sasl \notin Disclosing \/ request.allow_cleartext_auth
      BY <2>1, <3>2 DEF CredentialInv, MaySpeak
    <3>4. QED
      BY <1>1, <1>3, <2>1, <2>3, <3>1, <3>2, <3>3
      DEF Over, Policy!Next, Policy!Present, Policy!Ready, Presented
  <2>4. QED
    BY <2>2, <2>3
<1>10. QED
  BY <1>5, <1>6, <1>7, <1>8, <1>9 DEF Pump

-----------------------------------------------------------------------------
(* The server, and a session that is over, are no business of the policy.  *)

LEMMA OthersLeave ==
  ASSUME PolicyInv, Peer \/ Finished \/ UNCHANGED vars
  PROVE  PolicyInv' /\ UNCHANGED Policy!vars
<1>1. UNCHANGED << out, result, msg, sock, sent, request, sess, upgraded >>
  BY DEF Peer, Reply, Disturb, Finished, vars, exchangeVars, wireVars, coroutineVars, sessionVars
<1>2. QED
  BY <1>1 DEF PolicyInv, BeforeAuth, SocketInv, UpgradeInv, ExchangeInv, OpenInv, Presented,
              OnlyStartTls, OthersOnTls, Over, Policy!vars

LEMMA SessionPolicyInv == Spec => []PolicyInv
<1>1. TypeOK /\ CredentialInv /\ PolicyInv /\ [Next]_vars => PolicyInv'
  BY ResumePolicyInv, PumpPolicyInv, OthersLeave DEF Next
<1>2. QED
  BY <1>1, InitPolicyInv, SessionTypeOK, SessionCredentialInv, PTL DEF Spec

\* A caller that asked for STARTTLS never gets less, whatever the server does:
\* nothing but the STARTTLS command leaves in the clear, and a session it is
\* handed is on TLS (the states of ManagesieveSessionOpen up to Auth).
THEOREM SessionStartTlsHonoured == Spec => []StartTlsHonoured
BY SessionPolicyInv, PolicyInvHonours, PTL

\* Opening a session implements SessionPolicy: however the stream is cut,
\* whatever the server sends and wherever the transport fails, what resume and
\* the pump do together is connect, secure, present credentials and return in
\* an order the policy allows, or fail.
THEOREM SessionImplementsPolicy == Spec => PolicySpec
<1>1. Init => Policy!Init
  BY DEF Init, ExchangeInit, Over, Policy!Init
<1>2. TypeOK /\ CredentialInv /\ PolicyInv /\ PolicyInv' /\ [Next]_vars => [Policy!Next]_Policy!vars
  BY ResumeRefines, PumpRefines, OthersLeave DEF Next
<1>3. QED
  BY <1>1, <1>2, SessionTypeOK, SessionCredentialInv, SessionPolicyInv, PTL
  DEF Spec, PolicySpec, Policy!Spec

-----------------------------------------------------------------------------
(* In step: the invariant.                                                 *)

\* What the session's next read is the answer to.
Awaited ==
  CASE sess = "StartTls"                     -> "starttls"
    [] sess = "Auth" /\ auth = "Abort"       -> "cancel"
    [] sess = "Auth" /\ auth = "Capability"  -> "listing"
    [] sess = "Auth" /\ auth \in {"Start", "Read"} -> "sasl"
    [] OTHER                                 -> "greeting"

\* Nothing was connected yet.
Unconnected ==
  /\ arg = None /\ buf = <<>> /\ net = <<>> /\ inbox = <<>> /\ ~dropped
  /\ sock = "none" /\ st = "greet"

SessionInStepInv ==
  /\ ArgInv
  /\ sess = "Connect" \/ out = "WantsConnect" => Unconnected
  /\ sess = "Connect" => out \in {"Run", "Complete"}
  /\ sess # "Connect" => \A w \in Answers : w = Awaited => InStepWith(w)
  /\ out = "WantsTlsUpgrade" => Rests("handshake")
  /\ sess = "StartTls" /\ out = "Complete" => result # "ok"

LEMMA InitInStep == Init => SessionInStepInv
BY DEF Init, ExchangeInit, AuthInit, SessionInStepInv, ArgInv, Unconnected, None

LEMMA AwaitedIsAnswer == Awaited \in Answers
BY DEF Awaited, Answers

-----------------------------------------------------------------------------
(* Calls of resume.                                                        *)

\* The greeting, and what is done in the same call with what it listed.
LEMMA GreetingInStep ==
  ASSUME TypeOK, CredentialInv, SessionInStepInv, UNCHANGED << wireVars, serverVars >>,
         \/ GreetingReadsMore \/ GreetingFails \/ GreetingRefused
         \/ WritesStartTls \/ NothingToAuthenticate \/ RefusesCleartext \/ StartsAuth
  PROVE  SessionInStepInv'
<1>1. PartsTypeOK
  BY PartsOfTypeOK
<1>2. out = "Run" /\ sess \in {"Greeting", "Upgraded", "GreetingTls"}
  BY DEF GreetingReadsMore, GreetingFails, GreetingRefused, WritesStartTls, NothingToAuthenticate,
         RefusesCleartext, StartsAuth, Settled, Greeted, Greeting, At
<1>3. InStepWith("greeting")
  BY <1>2 DEF SessionInStepInv, Awaited, Answers
<1>4. CASE GreetingReadsMore \/ GreetingFails
  <2>1. /\ sess' \in {"Greeting", "GreetingTls"} /\ Awaited' = "greeting"
        /\ out' \in {"WantsRead", "Complete"}
    BY <1>2, <1>4 DEF GreetingReadsMore, GreetingFails, ReadMore, ReadFail, Yield, Complete, SessAfterRead,
                      Awaited
  <2>2. CASE GreetingReadsMore
    <3>1. InStepWith("greeting")' /\ ArgInv'
      BY <1>1, <1>2, <1>3, <2>2, ReadMoreInStep DEF GreetingReadsMore, ReadMore
    <3>2. QED
      BY <2>1, <3>1 DEF SessionInStepInv
  <2>3. CASE GreetingFails
    <3>1. PICK r \in Unframed : Complete(r)
      BY <2>3 DEF GreetingFails, ReadFail, Unframed
    <3>2. InStepWith("greeting")' /\ ArgInv'
      BY <1>1, <1>3, <2>3, <3>1, UnframedInStep DEF GreetingFails, ReadFail
    <3>3. QED
      BY <2>1, <3>2 DEF SessionInStepInv
  <2>4. QED
    BY <1>4, <2>2, <2>3
<1>5. ASSUME Reading = "response", arg' = None, NewBuffer(Trailing(Received))
      PROVE  /\ Stream' \in Seq(Byes) /\ net' \in Seq(Byes) /\ Rests("idle")' /\ ArgInv'
             /\ st' # "closed" => ~dropped'
  BY <1>1, <1>2, <1>3, <1>5, ReadingResponse, ReplyTaken DEF Answers
<1>6. CASE GreetingRefused \/ NothingToAuthenticate \/ RefusesCleartext
  <2>1. /\ Reading = "response" /\ NewBuffer(Trailing(Received))
        /\ out' = "Complete" /\ arg' = None /\ UNCHANGED sess
    BY <1>6 DEF GreetingRefused, NothingToAuthenticate, RefusesCleartext, Settled, Greeted, Complete,
                sessionVars
  <2>2. InStepWith("greeting")' /\ ArgInv'
    BY <1>5, <2>1, RestInStep DEF RestsAfter
  <2>3. Awaited' = "greeting"
    BY <1>2, <2>1 DEF Awaited
  <2>4. QED
    BY <1>2, <2>1, <2>2, <2>3 DEF SessionInStepInv
<1>7. CASE WritesStartTls
  <2>1. Reading = "response" /\ NewBuffer(Trailing(Received)) /\ arg' = None
    BY <1>7 DEF WritesStartTls, Greeted, WantsWrite, Complete
  <2>2. /\ Stream' \in Seq(Byes) /\ net' \in Seq(Byes) /\ Rests("idle")' /\ ArgInv'
        /\ st' # "closed" => ~dropped'
    BY <1>5, <2>1
  <2>3. CASE sess' = "StartTls"
    <3>1. out' = "WantsWrite" /\ Needs(msg') = "idle" /\ For(msg') = "starttls"
      BY <1>2, <1>7, <2>3 DEF WritesStartTls, Complete, WantsWrite, Command, Needs, For
    <3>2. Rests(Needs(msg))'
      BY <2>2, <3>1 DEF Rests
    <3>3. InStepWith("starttls")'
      BY <2>2, <3>1, <3>2 DEF InStepWith
    <3>4. QED
      BY <2>2, <2>3, <3>1, <3>3 DEF SessionInStepInv, Awaited
  <2>4. CASE sess' # "StartTls"
    <3>1. out' = "Complete" /\ sess' = "Greeting"
      BY <1>7, <2>4 DEF WritesStartTls, Complete
    <3>2. InStepWith("greeting")'
      BY <2>2, <3>1, RestInStep DEF RestsAfter
    <3>3. QED
      BY <2>2, <3>1, <3>2 DEF SessionInStepInv, Awaited
  <2>5. QED
    BY <2>3, <2>4
<1>8. CASE StartsAuth
  <2>1. /\ Reading = "response" /\ NewBuffer(Trailing(Received)) /\ Start(opts) /\ sess' = "Auth"
        /\ arg' = None
    BY <1>8 DEF StartsAuth, Settled, Greeted, Start, UnsupportedMechanism, StartFails, StartWrites,
                Complete, WantsWrite
  <2>2. /\ Stream' \in Seq(Byes) /\ net' \in Seq(Byes) /\ Rests("idle")' /\ ArgInv'
        /\ st' # "closed" => ~dropped'
    BY <1>5, <2>1
  <2>3. buf' = <<>> /\ net \in Seq(Byes)
    BY <2>1, <2>2 DEF NewBuffer, wireVars
  <2>4. /\ auth' = "Read" => InStepWith("sasl")'
        /\ auth' \in {"Start", "Read"}
        /\ auth' = "Start" => out' = "Complete"
    BY <1>1, <2>1, <2>2, <2>3, StartInStep
  <2>5. auth' = "Start" => InStepWith("sasl")'
    BY <2>2, <2>4, RestInStep DEF RestsAfter
  <2>6. out' \in {"WantsWrite", "Complete"}
    BY <1>8, StartSpeaks
  <2>7. QED
    BY <2>1, <2>2, <2>4, <2>5, <2>6 DEF SessionInStepInv, Awaited
<1>9. QED
  BY <1>4, <1>6, <1>7, <1>8

\* The reply to STARTTLS.
LEMMA StartTlsInStep ==
  ASSUME TypeOK, SessionInStepInv, UNCHANGED << wireVars, serverVars >>,
         StartTlsReadsMore \/ StartTlsFails \/ StartTlsRefused \/ StartTlsAccepted
  PROVE  SessionInStepInv'
<1>1. PartsTypeOK
  BY PartsOfTypeOK
<1>2. out = "Run" /\ sess = "StartTls"
  BY DEF StartTlsReadsMore, StartTlsFails, StartTlsRefused, StartTlsAccepted, At
<1>3. InStepWith("starttls")
  BY <1>2 DEF SessionInStepInv, Awaited, Answers
<1>4. CASE StartTlsReadsMore
  <2>1. sess' = "StartTls" /\ out' = "WantsRead"
    BY <1>2, <1>4 DEF StartTlsReadsMore, ReadMore, Yield, sessionVars
  <2>2. InStepWith("starttls")' /\ ArgInv'
    BY <1>1, <1>2, <1>3, <1>4, ReadMoreInStep DEF StartTlsReadsMore, ReadMore
  <2>3. QED
    BY <2>1, <2>2 DEF SessionInStepInv, Awaited
<1>5. CASE StartTlsFails
  <2>1. PICK r \in Unframed : Complete(r)
    BY <1>5 DEF StartTlsFails, ReadFail, Unframed
  <2>2. sess' = "StartTls" /\ out' = "Complete" /\ result' # "ok"
    BY <1>2, <1>5, <2>1 DEF StartTlsFails, Complete, sessionVars, Unframed
  <2>3. InStepWith("starttls")' /\ ArgInv'
    BY <1>1, <1>3, <1>5, <2>1, UnframedInStep DEF StartTlsFails, ReadFail
  <2>4. QED
    BY <2>2, <2>3 DEF SessionInStepInv, Awaited
<1>6. ASSUME Reading = "response", arg' = None, NewBuffer(Trailing(Received))
      PROVE  /\ net' \in Seq(Byes) /\ ArgInv'
             /\ IF Completion(Received).kind = "ok" THEN Rests("handshake")' ELSE Rests("idle")'
             /\ st' # "closed" => ~dropped'
  BY <1>1, <1>2, <1>3, <1>6, ReadingResponse, ReplyTaken DEF Answers
<1>7. CASE StartTlsRefused
  <2>1. /\ Reading = "response" /\ NewBuffer(Trailing(Received)) /\ arg' = None
        /\ out' = "Complete" /\ result' # "ok" /\ sess' = "StartTls"
    BY <1>2, <1>7 DEF StartTlsRefused, Complete, sessionVars
  <2>2. net' \in Seq(Byes) /\ ArgInv' /\ (st' # "closed" => ~dropped')
    BY <1>6, <2>1
  <2>3. Rests("idle")'
    <3>1. CASE Trailing(Received) # <<>>
      BY <2>1, <2>2, <3>1 DEF NewBuffer, Rests
    <3>2. CASE Trailing(Received) = <<>>
      BY <1>6, <1>7, <2>1, <3>2 DEF StartTlsRefused
    <3>3. QED
      BY <3>1, <3>2
  <2>4. Rests(RestsAfter("starttls"))'
    BY <2>1, <2>3 DEF RestsAfter
  <2>5. InStepWith("starttls")'
    BY <2>1, <2>2, <2>4, RestInStep
  <2>6. QED
    BY <2>1, <2>2, <2>5 DEF SessionInStepInv, Awaited
<1>8. CASE StartTlsAccepted
  <2>1. /\ Reading = "response" /\ NewBuffer(Trailing(Received)) /\ arg' = None
        /\ Completion(Received).kind = "ok" /\ out' = "WantsTlsUpgrade" /\ sess' = "Upgraded"
    BY <1>8 DEF StartTlsAccepted, Yield
  <2>2. ArgInv' /\ Rests("handshake")' /\ (st' # "closed" => ~dropped')
    BY <1>6, <2>1
  <2>3. InStepWith("greeting")'
    BY <2>1, <2>2 DEF InStepWith
  <2>4. QED
    BY <2>1, <2>2, <2>3 DEF SessionInStepInv, Awaited
<1>9. QED
  BY <1>4, <1>5, <1>7, <1>8

LEMMA ResumeInStep ==
  ASSUME TypeOK, CredentialInv, SessionInStepInv, Resume
  PROVE  SessionInStepInv'
<1>1. UNCHANGED << wireVars, serverVars >>
  BY DEF Resume
<1>2. CASE ConnectRefused \/ Connect
  <2>1. /\ Unconnected /\ UNCHANGED << buf, dropped, wireVars, serverVars >>
        /\ arg' = None
        /\ \/ sess' = "Connect" /\ out' = "Complete"
           \/ sess' = "Greeting" /\ out' = "WantsConnect"
    BY <1>1, <1>2 DEF ConnectRefused, Connect, At, Complete, Yield, SessionInStepInv, sessionVars
  <2>2. Unconnected' /\ ArgInv'
    BY <2>1 DEF Unconnected, ArgInv, None, wireVars, serverVars
  <2>3. out' = "WantsConnect" => InStepWith("greeting")' /\ Awaited' = "greeting"
    BY <2>1, <2>2 DEF InStepWith, Unconnected, Awaited
  <2>4. QED
    BY <2>1, <2>2, <2>3 DEF SessionInStepInv
<1>3. CASE AuthContinues
  <2>1. sess = "Auth" /\ AuthResume /\ sess' = "Auth" /\ PartsTypeOK
    BY <1>3, PartsOfTypeOK DEF AuthContinues, At, sessionVars
  <2>2. /\ auth # "Start" /\ auth' # "Start"
        /\ out' \notin {"WantsConnect", "WantsTlsUpgrade"}
    BY <2>1, AuthResumeSpeaks
  <2>3. ExchangeInStep /\ ArgInv
    BY <2>1, <2>2 DEF SessionInStepInv, ExchangeInStep, Awaited, Answers
  <2>4. ExchangeInStep' /\ ArgInv'
    BY <1>1, <2>1, <2>3, AuthResumeInStep
  <2>5. auth' \in AuthStates
    BY <2>1, AuthResumeTypes DEF AuthTypeOK
  <2>6. QED
    BY <2>1, <2>2, <2>4, <2>5 DEF SessionInStepInv, ExchangeInStep, Awaited, AuthStates
<1>4. QED
  BY <1>1, <1>2, <1>3, GreetingInStep, StartTlsInStep DEF Resume

-----------------------------------------------------------------------------
(* The pump and the server.                                                *)

LEMMA PumpSessionInStep ==
  ASSUME TypeOK, CredentialInv, PolicyInv, SessionInStepInv, Pump
  PROVE  SessionInStepInv'
<1>1. PartsTypeOK /\ UNCHANGED << sess, auth, result, buf, dropped, Awaited >>
  BY PartsOfTypeOK
  DEF Pump, PumpRead, PumpEof, PumpWrite, PumpFail, PumpConnect, PumpUpgrade, sessionVars, authVars,
      Awaited
<1>2. CASE (PumpRead \/ PumpEof(st = "closed") \/ PumpWrite \/ PumpFail) /\ UNCHANGED serverVars
  <2>1. out' \in {"Run", "Broken"} /\ out \in Yields
    BY <1>2 DEF PumpRead, PumpEof, PumpWrite, PumpFail, Yields
  <2>2. ASSUME NEW w \in Answers, InStepWith(w)
        PROVE  InStepWith(w)' /\ ArgInv'
    BY <1>1, <1>2, <2>2, PumpInStep DEF SessionInStepInv
  <2>3. CASE sess = "Connect"
    BY <2>1, <2>3 DEF SessionInStepInv, Yields
  <2>4. CASE sess # "Connect"
    <3>1. InStepWith(Awaited)
      BY <2>4, AwaitedIsAnswer DEF SessionInStepInv
    <3>2. \A w \in Answers : w = Awaited => InStepWith(w)' /\ ArgInv'
      BY <2>2, <2>4 DEF SessionInStepInv
    <3>3. ArgInv'
      BY <3>2, AwaitedIsAnswer
    <3>4. QED
      BY <1>1, <2>1, <2>4, <3>2, <3>3 DEF SessionInStepInv
  <2>5. QED
    BY <2>3, <2>4
<1>3. CASE PumpConnect
  <2>1. /\ Unconnected /\ sess = "Greeting" /\ out' = "Run"
        /\ UNCHANGED << arg, net, inbox, st >>
    BY <1>3 DEF PumpConnect, SessionInStepInv, CredentialInv, ChannelInv, serverVars
  <2>2. arg'.data = <<>> /\ ~arg'.some /\ buf' = <<>> /\ net' = <<>> /\ inbox' = <<>> /\ st' = "greet"
    BY <1>1, <2>1 DEF Unconnected, None
  <2>3. Waits("greeting")' /\ ArgInv'
    BY <2>2, GreetingOwed DEF ArgInv
  <2>4. InStepWith("greeting")'
    BY <1>1, <2>1, <2>3 DEF InStepWith, Unconnected
  <2>5. QED
    BY <1>1, <2>1, <2>3, <2>4 DEF SessionInStepInv, Awaited
<1>4. CASE PumpUpgrade
  <2>1. /\ out = "WantsTlsUpgrade" /\ sess = "Upgraded" /\ st = "handshake" /\ net = <<>>
        /\ out' = "Run" /\ st' = "greet" /\ UNCHANGED << arg, net, inbox >>
    BY <1>4 DEF PumpUpgrade, PolicyInv, SocketInv
  <2>2. Rests("handshake") /\ InStepWith("greeting") /\ ArgInv
    BY <2>1 DEF SessionInStepInv, Awaited, Answers
  <2>3. Stream = <<>> /\ inbox = <<>> /\ ~dropped /\ arg.data = <<>> /\ ~arg.some
    BY <2>1, <2>2, PartsOfTypeOK DEF Rests, InStepWith, ArgInv, PartsTypeOK, ExchangeTypeOK
  <2>4. buf = <<>>
    <3>1. \A b, n \in Seq(Unit) : Then(b, n) = <<>> => b = <<>>
      BY ThenIsNothing
    <3>2. Received = buf
      BY <1>1, <2>3, StreamParts, ConcatEmptySeq DEF Received
    <3>3. QED
      BY <1>1, <2>3, <3>1, <3>2, StreamParts DEF Stream
  <2>5. Waits("greeting")' /\ ArgInv'
    BY <1>1, <2>1, <2>3, <2>4, GreetingOwed DEF ArgInv
  <2>6. InStepWith("greeting")'
    BY <1>1, <2>1, <2>3, <2>5 DEF InStepWith
  <2>7. QED
    BY <1>1, <2>1, <2>5, <2>6 DEF SessionInStepInv, Awaited
<1>5. QED
  BY <1>2, <1>3, <1>4 DEF Pump

LEMMA PeerSessionInStep ==
  ASSUME TypeOK, CredentialInv, SessionInStepInv, Peer, UNCHANGED strays
  PROVE  SessionInStepInv'
<1>1. /\ PartsTypeOK
      /\ Reply \/ Disturb
      /\ UNCHANGED << sess, auth, out, result, arg, Awaited >>
  BY PartsOfTypeOK DEF Peer, Reply, Disturb, coroutineVars, sessionVars, authVars, Awaited
<1>2. ~Unconnected
  <2>1. ~Stray
    BY ServerAssumption DEF Stray, TypeOK, ServerTypeOK
  <2>2. QED
    BY <1>1, <2>1 DEF Unconnected, Reply, Disturb, Greet, ServerAnswer, GiveUp
<1>3. sess # "Connect" /\ out # "WantsConnect"
  BY <1>2 DEF SessionInStepInv
<1>4. \A w \in Answers : InStepWith(w) => InStepWith(w)' /\ ArgInv'
  BY <1>1, PeerInStep DEF SessionInStepInv
<1>5. \A w \in Answers : w = Awaited => InStepWith(w)' /\ ArgInv'
  BY <1>3, <1>4 DEF SessionInStepInv
<1>6. Rests("handshake") => Rests("handshake")'
  BY <1>1, PeerAtRest
<1>7. QED
  BY <1>1, <1>3, <1>5, <1>6, AwaitedIsAnswer DEF SessionInStepInv

LEMMA StutterInStep ==
  ASSUME SessionInStepInv, UNCHANGED vars
  PROVE  SessionInStepInv'
<1> USE DEF vars, exchangeVars, coroutineVars, wireVars, serverVars, authVars, sessionVars
<1>1. Stream' = Stream
  BY StreamKept
<1>2. \A w : Waits(w) => Waits(w)'
  BY <1>1, WaitsKept
<1>3. \A w : InStepWith(w) => InStepWith(w)'
  BY <1>1, <1>2 DEF InStepWith, Rests, RestsAfter
<1>4. UNCHANGED << Awaited, Unconnected, ArgInv >> /\ (Rests("handshake") => Rests("handshake")')
  BY <1>1 DEF Awaited, Unconnected, ArgInv, Rests
<1>5. QED
  BY <1>3, <1>4 DEF SessionInStepInv

LEMMA NextSessionInStep ==
  ASSUME TypeOK, TypeOK', CredentialInv, PolicyInv, SessionInStepInv, MaxStray = 0, [Next]_vars
  PROVE  SessionInStepInv' /\ UNCHANGED strays
<1>1. UNCHANGED strays
  <2>1. strays \in 0..MaxStray /\ strays' \in 0..MaxStray
    BY DEF TypeOK, ServerTypeOK
  <2>2. QED
    BY <2>1
<1>2. QED
  BY <1>1, ResumeInStep, PumpSessionInStep, PeerSessionInStep, StutterInStep DEF Next, Finished

LEMMA SessionInStepInvariant == ASSUME MaxStray = 0 PROVE Spec => []SessionInStepInv
<1>1. TypeOK /\ TypeOK' /\ CredentialInv /\ PolicyInv /\ SessionInStepInv /\ [Next]_vars =>
        SessionInStepInv'
  BY NextSessionInStep
<1>2. QED
  BY <1>1, InitInStep, SessionTypeOK, SessionCredentialInv, SessionPolicyInv, PTL DEF Spec

\* With a server that keeps the protocol, opening a session leaves no reply
\* unread and no message unanswered, at whatever stage it ends and whatever
\* for, short of losing the stream: what was read in one state of
\* ManagesieveSessionOpen was all there was to read.
THEOREM SessionInStep == ASSUME MaxStray = 0 PROVE Spec => []InStep
<1>1. TypeOK /\ SessionInStepInv => InStep
  <2> SUFFICES ASSUME TypeOK, SessionInStepInv, out = "Complete", result \notin Unframed,
                      st # "closed", sock # "none"
               PROVE  st = "idle" /\ net = <<>> /\ inbox = <<>> /\ buf = <<>> /\ ~dropped
    BY DEF InStep, Unframed
  <2>1. PartsTypeOK
    BY PartsOfTypeOK
  <2>2. sess # "Connect"
    BY DEF SessionInStepInv, Unconnected
  <2>3. \A w \in Answers : w = Awaited => InStepWith(w) /\ RestsAfter(w) = "idle"
    BY <2>2 DEF SessionInStepInv, RestsAfter, Awaited
  <2>4. Rests("idle") /\ ~dropped
    BY <2>3, AwaitedIsAnswer DEF InStepWith
  <2>5. Stream = <<>> /\ inbox = <<>> /\ st = "idle"
    BY <2>4 DEF Rests
  <2>6. Received = <<>> /\ net = <<>>
    <3>1. \A b, n \in Seq(Unit) : Then(b, n) = <<>> => b = <<>> /\ n = <<>>
      BY ThenIsNothing
    <3>2. QED
      BY <2>1, <2>5, <3>1, StreamParts DEF Stream
  <2>7. arg.data = <<>> /\ buf \in Seq(Unit)
    BY <2>1, StreamParts DEF SessionInStepInv, ArgInv
  <2>8. buf = <<>>
    BY <2>6, <2>7, ConcatEmptySeq DEF Received
  <2>9. QED
    BY <2>4, <2>5, <2>6, <2>8
<1>2. QED
  BY <1>1, SessionInStepInvariant, SessionTypeOK, PTL

-----------------------------------------------------------------------------
(* The capabilities of a session.                                          *)

\* The server takes the client for authenticated only within the exchange,
\* and the list the exchange ends with is asked for after that.
FreshInv ==
  /\ sess # "Auth" /\ ~Over => ~authed
  /\ auth = "Capability" => authed
  /\ CapabilitiesFresh

LEMMA ResumeFresh ==
  ASSUME TypeOK, CredentialInv, PolicyInv, SessionInStepInv, FreshInv, Resume
  PROVE  FreshInv'
<1>1. PartsTypeOK /\ out = "Run" /\ ~Over
  BY PartsOfTypeOK, ResumeLeaves DEF Over
<1>2. UNCHANGED << wireVars, serverVars, sock, request, authed >>
  BY ResumeLeaves DEF Resume, serverVars
<1>3. ASSUME out' # "Complete" \/ result' # "ok", sess' # "Auth" => ~authed, auth' = "Capability" => authed
      PROVE  FreshInv'
  BY <1>2, <1>3 DEF FreshInv, CapabilitiesFresh
<1>4. ChannelInv
  BY DEF CredentialInv
<1>5. CASE ConnectRefused \/ Connect
  BY <1>1, <1>2, <1>3, <1>4, <1>5
  DEF ConnectRefused, Connect, At, Complete, Yield, authVars, FreshInv, ChannelInv
<1>6. CASE \/ GreetingReadsMore \/ GreetingFails \/ GreetingRefused \/ WritesStartTls
           \/ RefusesCleartext \/ StartsAuth
  <2>1. sess # "Auth" /\ auth = "Start"
    BY <1>4, <1>6
    DEF GreetingReadsMore, GreetingFails, GreetingRefused, WritesStartTls, RefusesCleartext, StartsAuth,
        Settled, Greeted, Greeting, At, ChannelInv
  <2>2. auth' # "Capability"
    BY <1>6, <2>1
    DEF GreetingReadsMore, GreetingFails, GreetingRefused, WritesStartTls, RefusesCleartext, StartsAuth,
        Start, UnsupportedMechanism, StartFails, StartWrites, authVars
  <2>3. out' # "Complete" \/ result' # "ok"
    <3>1. CASE GreetingReadsMore \/ GreetingFails
      BY <3>1, ReadLeaves DEF GreetingReadsMore, GreetingFails
    <3>2. CASE GreetingRefused \/ WritesStartTls \/ RefusesCleartext
      BY <3>2 DEF GreetingRefused, WritesStartTls, RefusesCleartext, Complete, WantsWrite
    <3>3. CASE StartsAuth
      BY <3>3, StartLeaves
    <3>4. QED
      BY <1>6, <3>1, <3>2, <3>3
  <2>4. QED
    BY <1>1, <1>3, <2>1, <2>2, <2>3 DEF FreshInv
<1>7. CASE StartTlsReadsMore \/ StartTlsFails \/ StartTlsRefused \/ StartTlsAccepted
  <2>1. sess = "StartTls" /\ auth = "Start" /\ auth' = "Start"
    BY <1>4, <1>7
    DEF StartTlsReadsMore, StartTlsFails, StartTlsRefused, StartTlsAccepted, At, ChannelInv, authVars
  <2>2. out' # "Complete" \/ result' # "ok"
    <3>1. CASE StartTlsReadsMore \/ StartTlsFails
      BY <3>1, ReadLeaves DEF StartTlsReadsMore, StartTlsFails
    <3>2. CASE StartTlsRefused \/ StartTlsAccepted
      BY <3>2 DEF StartTlsRefused, StartTlsAccepted, Complete, Yield
    <3>3. QED
      BY <1>7, <3>1, <3>2
  <2>3. QED
    BY <1>1, <1>3, <2>1, <2>2 DEF FreshInv
<1>8. CASE NothingToAuthenticate
  <2>1. /\ sess \in {"Greeting", "Upgraded", "GreetingTls"} /\ sess' = sess /\ auth = "Start" /\ auth' = "Start"
        /\ Reading = "response" /\ Completion(Received).kind = "ok"
        /\ request.sasl = NoSasl /\ caps' = Listed(Received)
        /\ sess = "Greeting" => ~request.starttls
    BY <1>4, <1>8 DEF NothingToAuthenticate, Settled, Greeted, Greeting, At, ChannelInv, sessionVars
  <2>2. InStepWith("greeting")
    BY <2>1 DEF SessionInStepInv, Awaited, Answers
  <2>3. caps'.on = Phase /\ ~authed
    BY <1>1, <2>1, <2>2, ListedInForce DEF FreshInv
  <2>4. sess = "Greeting" => sock = request.transport
    BY <1>1, <2>1 DEF PolicyInv, SocketInv
  <2>5. sess # "Greeting" => request.starttls /\ sock = "tls"
    BY <1>1, <1>4, <2>1 DEF PolicyInv, UpgradeInv, ChannelInv
  <2>6. CapabilitiesFresh'
    BY <1>2, <2>1, <2>3, <2>4, <2>5 DEF CapabilitiesFresh, Phase
  <2>7. QED
    BY <1>1, <1>2, <2>1, <2>3, <2>6 DEF FreshInv
<1>9. CASE AuthContinues
  <2>1. sess = "Auth" /\ sess' = "Auth" /\ AuthResume /\ auth # "Start" /\ request.sasl # NoSasl
    BY <1>9, AuthResumeSpeaks DEF AuthContinues, At, sessionVars, PolicyInv, ExchangeInv
  <2>2. auth' = "Capability" => authed
    <3>1. CASE FetchCapabilities
      <4>1. InStepWith("sasl") /\ Accepts
        BY <2>1, <3>1 DEF FetchCapabilities, Accepts, Reads, SessionInStepInv, Awaited, Answers
      <4>2. QED
        BY <1>1, <4>1, AcceptedIsAuthed
    <3>2. CASE ~FetchCapabilities
      <4>1. auth' = "Capability" => auth = "Capability"
        BY <2>1, <3>2
        DEF AuthResume, ReadsMore, ReadsError, AnswerPending, AnswerChallenge, CancelExchange,
            CompletionRefused, CompletionAccepted, AbortReadsMore, AbortEnds, CapabilityReadsMore,
            CapabilityFails, CapabilityRejected, CapabilityDone, authVars
      <4>2. QED
        BY <4>1 DEF FreshInv
    <3>3. QED
      BY <3>1, <3>2
  <2>3. CASE CapabilityDone
    <3>1. /\ auth = "Capability" /\ Reading = "response" /\ Completion(Received).kind = "ok"
          /\ caps' = Listed(Received)
      BY <2>3 DEF CapabilityDone, Fetching
    <3>2. InStepWith("listing") /\ authed
      BY <2>1, <3>1 DEF SessionInStepInv, Awaited, Answers, FreshInv
    <3>3. caps'.on = "auth"
      BY <1>1, <3>1, <3>2, ListedInForce DEF Phase
    <3>4. QED
      BY <1>2, <2>1, <2>2, <3>3 DEF FreshInv, CapabilitiesFresh
  <2>4. CASE ~CapabilityDone
    <3>1. opts.ensure_capabilities
      BY <1>4 DEF ChannelInv, SessionOptions
    <3>2. out' # "Complete" \/ result' # "ok"
      <4>1. CASE ReadsMore \/ ReadsError \/ AnswerPending \/ AnswerChallenge \/ CancelExchange
        BY <4>1 DEF ReadsMore, ReadsError, AnswerPending, AnswerChallenge, CancelExchange, Reads, Respond,
                    WantsWrite, Yield, Complete
      <4>2. CASE CompletionRefused \/ CompletionAccepted \/ FetchCapabilities
        BY <3>1, <4>2 DEF CompletionRefused, CompletionAccepted, FetchCapabilities, Refused, Complete, WantsWrite
      <4>3. CASE AbortReadsMore \/ AbortEnds
        BY <4>3 DEF AbortReadsMore, AbortEnds, Yield, Complete, TypeOK, AuthTypeOK
      <4>4. CASE CapabilityReadsMore \/ CapabilityFails \/ CapabilityRejected
        BY <4>4, ReadLeaves DEF CapabilityReadsMore, CapabilityFails, CapabilityRejected, Complete
      <4>5. QED
        BY <2>1, <2>4, <4>1, <4>2, <4>3, <4>4 DEF AuthResume
    <3>3. QED
      BY <1>3, <2>1, <2>2, <3>2
  <2>5. QED
    BY <2>3, <2>4
<1>10. QED
  BY <1>5, <1>6, <1>7, <1>8, <1>9 DEF Resume

LEMMA NextFresh ==
  ASSUME TypeOK, CredentialInv, PolicyInv, SessionInStepInv, FreshInv, [Next]_vars
  PROVE  FreshInv'
<1>1. CASE Pump
  <2>1. UNCHANGED << sess, auth, authed, caps, request, result >> /\ out \in Yields /\ out' \in {"Run", "Broken"}
    BY <1>1 DEF Pump, PumpRead, PumpEof, PumpWrite, PumpFail, PumpConnect, PumpUpgrade, Yields,
                sessionVars, authVars, serverVars
  <2>2. QED
    BY <2>1 DEF FreshInv, CapabilitiesFresh, Over, Yields
<1>2. CASE Peer
  <2>1. /\ UNCHANGED << sess, auth, caps, request, out, result >>
        /\ Reply \/ Disturb
    BY <1>2 DEF Peer, Reply, Disturb, coroutineVars, sessionVars, authVars
  <2>2. authed => authed'
    BY <2>1, PartsOfTypeOK, PeerAuthed
  <2>3. CASE sess # "Auth" /\ ~Over
    <3>1. CASE Unconnected \/ out = "WantsTlsUpgrade"
      <4>1. inbox = <<>> \/ st = "closed"
        BY <3>1 DEF SessionInStepInv, Unconnected, Rests
      <4>2. UNCHANGED authed
        BY <2>1, <4>1 DEF Reply, Disturb, Greet, ServerAnswer, GiveUp, Stray, AnswerStartTls,
                          AnswerCapability, AnswerSasl, AnswerNo
      <4>3. QED
        BY <2>1, <4>2 DEF FreshInv, CapabilitiesFresh, Over
    <3>2. CASE ~Unconnected /\ out # "WantsTlsUpgrade"
      <4>1. out \in {"Run", "WantsRead", "WantsWrite"}
        BY <2>3, <3>2 DEF SessionInStepInv, Over, TypeOK, ExchangeTypeOK, Outs, Yields
      <4>2. \A w \in Answers : w = Awaited => InStepWith(w) /\ w # "sasl"
        BY <2>3, <3>2 DEF SessionInStepInv, Awaited
      <4>3. UNCHANGED authed
        BY <2>1, <4>1, <4>2, AwaitedIsAnswer, PartsOfTypeOK, PeerAuthed
      <4>4. QED
        BY <2>1, <4>3 DEF FreshInv, CapabilitiesFresh, Over
    <3>3. QED
      BY <3>1, <3>2
  <2>4. QED
    BY <2>1, <2>2, <2>3 DEF FreshInv, CapabilitiesFresh, Over
<1>3. CASE UNCHANGED vars
  BY <1>3 DEF vars, exchangeVars, coroutineVars, serverVars, authVars, sessionVars, FreshInv,
              CapabilitiesFresh, Over
<1>4. QED
  BY <1>1, <1>2, <1>3, ResumeFresh DEF Next, Finished

\* With a server that keeps the protocol, the capabilities a session is
\* returned with are those in force: sent to an authenticated client if there
\* was a mechanism, over TLS if there was an upgrade, never those of an earlier
\* stage; and a session returned as authenticated is so for the server.
THEOREM SessionCapabilitiesFresh == ASSUME MaxStray = 0 PROVE Spec => []CapabilitiesFresh
<1>1. Init => FreshInv
  BY DEF Init, ExchangeInit, AuthInit, FreshInv, CapabilitiesFresh
<1>2. TypeOK /\ CredentialInv /\ PolicyInv /\ SessionInStepInv /\ FreshInv /\ [Next]_vars => FreshInv'
  BY NextFresh
<1>3. FreshInv => CapabilitiesFresh
  BY DEF FreshInv
<1>4. QED
  BY <1>1, <1>2, <1>3, SessionTypeOK, SessionCredentialInv, SessionPolicyInv, SessionInStepInvariant, PTL
  DEF Spec

-----------------------------------------------------------------------------
(* The upgrade.                                                            *)

\* Nothing is thrown away before the upgrade, which is asked for with nothing
\* in hand; from then on there is nothing on the connection but what was sent
\* over TLS, and the capabilities come from it.
CleanInv ==
  /\ ~Over /\ sess \in {"Connect", "Greeting", "StartTls"} => ~dropped
  /\ sess = "Upgraded" =>
       /\ out \in {"WantsTlsUpgrade", "Run", "Broken"}
       /\ arg = None /\ buf = <<>> /\ ~dropped
  /\ upgraded /\ sock = "tls" => AllSecured
  /\ upgraded /\ sock = "tls" /\ (sess = "Auth" \/ result = "ok") => caps.on # "clear"

LEMMA CleanIsCleanUpgrade == TypeOK /\ CredentialInv /\ PolicyInv /\ CleanInv => CleanUpgrade
<1> SUFFICES ASSUME TypeOK, CredentialInv, PolicyInv, CleanInv PROVE CleanUpgrade
  OBVIOUS
<1>1. upgraded /\ sess \in {"GreetingTls", "Auth"} => sock = "tls"
  BY DEF CredentialInv, ChannelInv
<1>2. ASSUME sess = "GreetingTls"
      PROVE  \A i \in DOMAIN buf : buf[i].of.on # "clear"
  <2>1. buf \in Seq(Secured)
    BY <1>1, <1>2 DEF CleanInv, PolicyInv, UpgradeInv, AllSecured
  <2>2. QED
    BY <2>1, ElementOfSeq, LenProperties DEF Secured
<1>3. sess = "Upgraded" => \A i \in DOMAIN buf : buf[i].of.on # "clear"
  BY EmptySeq DEF CleanInv
<1>4. QED
  BY <1>1, <1>2, <1>3 DEF CleanInv, CleanUpgrade

\* The greeting: on the upgraded connection its bytes came over TLS.
LEMMA GreetingClean ==
  ASSUME TypeOK, CredentialInv, PolicyInv, CleanInv, Resume,
         \/ GreetingReadsMore \/ GreetingFails \/ GreetingRefused
         \/ WritesStartTls \/ NothingToAuthenticate \/ RefusesCleartext \/ StartsAuth
  PROVE  CleanInv'
<1>1. PartsTypeOK /\ out = "Run" /\ UNCHANGED << sock, net, upgraded >>
  BY PartsOfTypeOK, ResumeLeaves
  DEF Resume, wireVars, GreetingReadsMore, GreetingFails, GreetingRefused, WritesStartTls,
      NothingToAuthenticate, RefusesCleartext, StartsAuth, sessionVars
<1>2. sess \in {"Greeting", "Upgraded", "GreetingTls"} /\ ~Over /\ result = "none"
  BY <1>1
  DEF GreetingReadsMore, GreetingFails, GreetingRefused, WritesStartTls, NothingToAuthenticate,
      RefusesCleartext, StartsAuth, Settled, Greeted, Greeting, At, Over, PolicyInv, OpenInv
<1>3. /\ sess = "Greeting" => ~upgraded
      /\ sess # "Greeting" => upgraded /\ sock = "tls"
  BY <1>1, <1>2 DEF PolicyInv, UpgradeInv, CredentialInv, ChannelInv
<1>4. upgraded /\ sock = "tls" => AllSecured /\ Received \in Seq(Secured)
  BY ReceivedSecured DEF CleanInv
<1>5. ASSUME arg' = None, buf' = Received \/ buf' = <<>>, upgraded, sock = "tls"
      PROVE  AllSecured'
  <2>1. <<>> \in Seq(Secured)
    BY EmptySeq
  <2>2. arg'.data \in Seq(Secured) /\ buf' \in Seq(Secured) /\ net' \in Seq(Secured)
    BY <1>1, <1>4, <1>5, <2>1 DEF None, AllSecured
  <2>3. QED
    BY <2>2 DEF AllSecured
<1>6. CASE GreetingReadsMore \/ GreetingFails
  <2>1. /\ sess' \in {"Greeting", "GreetingTls"}
        /\ sess' = "Greeting" => sess = "Greeting"
        /\ result' # "ok" /\ arg' = None /\ buf' = Received /\ UNCHANGED << dropped, caps >>
    BY <1>2, <1>6 DEF GreetingReadsMore, GreetingFails, ReadMore, ReadFail, Yield, Complete,
                      SessAfterRead, authVars
  <2>2. QED
    BY <1>1, <1>2, <1>5, <2>1 DEF CleanInv
<1>7. CASE ~GreetingReadsMore /\ ~GreetingFails
  <2>1. Reading = "response" /\ buf' = <<>> /\ arg' = None
    BY <1>7 DEF GreetingRefused, WritesStartTls, NothingToAuthenticate, RefusesCleartext, StartsAuth,
                Settled, Greeted, NewBuffer, WantsWrite, Complete, Start, UnsupportedMechanism,
                StartFails, StartWrites
  <2>2. sess # "Upgraded"
    BY <1>1, <2>1 DEF CleanInv, Reading, None
  <2>3. CASE GreetingRefused
    BY <1>1, <1>2, <1>5, <2>1, <2>2, <2>3 DEF GreetingRefused, Complete, CleanInv, Over, sessionVars, authVars
  <2>4. CASE ~GreetingRefused
    <3>1. Trailing(Received) = <<>> /\ NewBuffer(Trailing(Received)) /\ caps' = Listed(Received)
      BY <1>7, <2>4 DEF WritesStartTls, NothingToAuthenticate, RefusesCleartext, StartsAuth, Settled, Greeted
    <3>2. UNCHANGED dropped
      BY <3>1, <1>1 DEF NewBuffer, PartsTypeOK, ExchangeTypeOK
    <3>3. upgraded /\ sock = "tls" => caps'.on # "clear"
      BY <1>4, <2>1, <3>1, ReadingResponse, CompletionSecured DEF Listed
    <3>4. sess' \in {"Greeting", "StartTls", "GreetingTls", "Auth"}
          /\ (sess' \in {"Greeting", "StartTls"} => sess = "Greeting")
      BY <1>2, <1>7, <2>2, <2>4 DEF WritesStartTls, NothingToAuthenticate, RefusesCleartext, StartsAuth,
                                    sessionVars, Greeted
    <3>5. QED
      BY <1>1, <1>2, <1>5, <2>1, <3>2, <3>3, <3>4 DEF CleanInv
  <2>5. QED
    BY <2>3, <2>4
<1>8. QED
  BY <1>6, <1>7

\* The reply to STARTTLS: bytes on top of it are refused, not kept and not
\* dropped.
LEMMA StartTlsClean ==
  ASSUME TypeOK, CredentialInv, PolicyInv, CleanInv, Resume,
         StartTlsReadsMore \/ StartTlsFails \/ StartTlsRefused \/ StartTlsAccepted
  PROVE  CleanInv'
<1>1. /\ out = "Run" /\ sess = "StartTls" /\ ~upgraded /\ ~dropped /\ result = "none"
      /\ sock # "tls" /\ UNCHANGED << sock, caps >>
  <2>1. out = "Run" /\ sess = "StartTls" /\ UNCHANGED << sock, caps >>
    BY DEF StartTlsReadsMore, StartTlsFails, StartTlsRefused, StartTlsAccepted, At, authVars, Resume,
           wireVars
  <2>2. QED
    BY <2>1 DEF CleanInv, Over, PolicyInv, OpenInv, UpgradeInv, SocketInv, CredentialInv, ChannelInv
<1>2. CASE StartTlsReadsMore \/ StartTlsFails
  BY <1>1, <1>2 DEF StartTlsReadsMore, StartTlsFails, ReadMore, ReadFail, sessionVars, CleanInv
<1>3. CASE StartTlsRefused
  BY <1>1, <1>3 DEF StartTlsRefused, Complete, sessionVars, CleanInv, Over
<1>4. CASE StartTlsAccepted
  BY <1>1, <1>4 DEF StartTlsAccepted, Yield, NewBuffer, CleanInv
<1>5. QED
  BY <1>2, <1>3, <1>4

LEMMA ResumeClean ==
  ASSUME TypeOK, CredentialInv, PolicyInv, CleanInv, Resume
  PROVE  CleanInv'
<1>1. CASE ConnectRefused \/ Connect
  <2>1. /\ sess = "Connect" /\ ~upgraded /\ ~dropped /\ UNCHANGED << upgraded, dropped >>
        /\ sess' \in {"Connect", "Greeting"}
    BY <1>1 DEF ConnectRefused, Connect, At, sessionVars, CleanInv, Over, CredentialInv, ChannelInv
  <2>2. QED
    BY <2>1 DEF CleanInv
<1>2. CASE AuthContinues
  <2>1. PartsTypeOK /\ sess = "Auth" /\ AuthResume /\ UNCHANGED << sess, upgraded, sock, net >>
    BY <1>2, PartsOfTypeOK DEF AuthContinues, At, sessionVars, Resume, wireVars
  <2>2. upgraded /\ sock = "tls" => AllSecured' /\ caps'.on # "clear"
    BY <2>1, AuthResumeSecured DEF CleanInv
  <2>3. QED
    BY <2>1, <2>2 DEF CleanInv
<1>3. QED
  BY <1>1, <1>2, GreetingClean, StartTlsClean DEF Resume

LEMMA NextClean ==
  ASSUME TypeOK, CredentialInv, PolicyInv, CleanInv, [Next]_vars
  PROVE  CleanInv'
<1>1. PartsTypeOK
  BY PartsOfTypeOK
<1>2. CASE Pump
  <2>1. UNCHANGED << sess, upgraded, caps, result, buf, dropped >> /\ out \in Yields /\ out' \in {"Run", "Broken"}
    BY <1>2 DEF Pump, PumpRead, PumpEof, PumpWrite, PumpFail, PumpConnect, PumpUpgrade, Yields,
                sessionVars, authVars
  <2>2. sess = "Upgraded" => out = "WantsTlsUpgrade" /\ arg' = None
    BY <1>2, <2>1 DEF CleanInv, Yields, Pump, PumpRead, PumpEof, PumpWrite, PumpFail, PumpConnect, PumpUpgrade
  <2>3. ~Over
    BY <2>1 DEF Over, Yields
  <2>4. CASE PumpRead \/ PumpEof(st = "closed") \/ PumpWrite \/ PumpFail
    <3>1. UNCHANGED sock
      BY <2>4 DEF PumpRead, PumpEof, PumpWrite, PumpFail, wireVars
    <3>2. AllSecured => AllSecured'
      BY <1>1, <2>4, PumpSecured
    <3>3. QED
      BY <2>1, <2>2, <2>3, <3>1, <3>2 DEF CleanInv
  <2>5. CASE PumpConnect
    <3>1. ~upgraded
      BY <2>5 DEF PumpConnect, CredentialInv, ChannelInv
    <3>2. QED
      BY <2>1, <2>2, <2>3, <3>1 DEF CleanInv
  <2>6. CASE PumpUpgrade
    <3>1. /\ sess = "Upgraded" /\ result = "none"
          /\ buf' = <<>> /\ arg' = None /\ net' = <<>>
      BY <2>1, <2>2, <2>6 DEF PumpUpgrade, PolicyInv, SocketInv, OpenInv, CleanInv
    <3>2. AllSecured'
      BY <3>1, EmptySeq DEF AllSecured, None
    <3>3. QED
      BY <2>1, <2>2, <3>1, <3>2 DEF CleanInv
  <2>7. QED
    BY <1>2, <2>4, <2>5, <2>6 DEF Pump
<1>3. CASE Peer
  <2>1. /\ UNCHANGED << sess, upgraded, caps, result, out, arg, buf, dropped, sock >>
        /\ Reply \/ Disturb
    BY <1>3 DEF Peer, Reply, Disturb, coroutineVars, sessionVars, authVars
  <2>2. upgraded /\ sock = "tls" => AllSecured'
    BY <1>1, <2>1, PeerSecured DEF CleanInv
  <2>3. QED
    BY <2>1, <2>2 DEF CleanInv, Over
<1>4. CASE UNCHANGED vars
  BY <1>4 DEF vars, exchangeVars, coroutineVars, wireVars, serverVars, authVars, sessionVars, CleanInv,
              AllSecured, Over
<1>5. QED
  BY <1>2, <1>3, <1>4, ResumeClean DEF Next, Finished

\* Whatever is injected into the connection, the upgrade is asked for and the
\* TLS session begins with no plaintext in hand and none thrown away, and the
\* capabilities of an upgraded session were sent over TLS (starttls.rs,
\* Injection; the fresh coroutines of ManagesieveSessionOpen).
THEOREM SessionCleanUpgrade == Spec => []CleanUpgrade
<1>1. Init => CleanInv
  BY DEF Init, ExchangeInit, AuthInit, CleanInv
<1>2. TypeOK /\ CredentialInv /\ PolicyInv /\ CleanInv /\ [Next]_vars => CleanInv'
  BY NextClean
<1>3. QED
  BY <1>1, <1>2, CleanIsCleanUpgrade, SessionTypeOK, SessionCredentialInv, SessionPolicyInv, PTL DEF Spec
=============================================================================
