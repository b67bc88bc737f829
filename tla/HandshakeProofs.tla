--------------------------- MODULE HandshakeProofs ---------------------------
(***************************************************************************)
(* The handshake by hand, for every bound, choice of the caller and        *)
(* behaviour of the server: every variable keeps its type, nothing read in *)
(* the clear outlives the upgrade, and with a server that keeps the        *)
(* protocol each call leaves the connection where the next one can start,  *)
(* with the capabilities in force.                                         *)
(***************************************************************************)
EXTENDS Handshake, AuthenticateProofs

-----------------------------------------------------------------------------
(* Type correctness.                                                       *)

LEMMA PartsOfTypeOK == TypeOK => PartsTypeOK
BY DEF TypeOK, PartsTypeOK

LEMMA NoCapabilitiesType == NoCapabilities \in Capabilities
BY DEF NoCapabilities, Capabilities, Phases

LEMMA InitTypeOK == Init => TypeOK
<1> SUFFICES ASSUME Init PROVE TypeOK
  OBVIOUS
<1>1. Command("CAPABILITY") \in Msg
  BY CommandType DEF Cmds
<1>2. ExchangeTypeOK
  BY <1>1, NoneType, EmptySeq, HandshakeAssumption DEF Init, ExchangeTypeOK, Outs, Results, Sockets
<1>3. ServerTypeOK
  <2>1. asked \in 0..MaxChallenges /\ strays \in 0..MaxStray
    BY ServerAssumption DEF Init
  <2>2. QED
    BY <2>1 DEF Init, ServerTypeOK, ServerStates
<1>4. AuthTypeOK
  BY NoCapabilitiesType DEF Init, AuthInit, AuthTypeOK, AuthStates, Payloads, Absent, Options, Mechanisms
<1>5. calls \in 0..MaxCalls
  BY HandshakeAssumption DEF Init
<1>6. QED
  BY <1>2, <1>3, <1>4, <1>5 DEF Init, TypeOK

\* What a resume is called with and ends with.
LEMMA ResumeFrame ==
  ASSUME Resume
  PROVE  /\ out = "Run" /\ arg' = None /\ out' # "Run"
         /\ UNCHANGED << wireVars, serverVars, callVars >>
         /\ result' = result \/ out' = "Complete"
<1> USE DEF Reads, Aborting, Fetching, Accepts, Yield, Complete, WantsWrite, Respond
<1>1. CASE ReplyReadsMore \/ ReplyFails \/ ReplyInjected \/ ReplyRejected \/ ReplyAccepted
  BY <1>1 DEF Resume, ReplyReadsMore, ReplyFails, ReplyInjected, ReplyRejected, ReplyAccepted, ReadsReply,
              In, ReadMore, ReadFail
<1>2. CASE Authenticates
  <2>1. CASE Start(opts)
    BY <1>2, <2>1 DEF Resume, Authenticates, In, Start, UnsupportedMechanism, StartFails, StartWrites
  <2>2. CASE AuthResume
    BY <1>2, <2>2
    DEF Resume, Authenticates, In, AuthResume, ReadsMore, ReadsError, AnswerPending, AnswerChallenge,
        CancelExchange, CompletionRefused, CompletionAccepted, FetchCapabilities, AbortReadsMore,
        AbortEnds, CapabilityReadsMore, CapabilityFails, CapabilityRejected, CapabilityDone, ReadMore,
        ReadFail
  <2>3. QED
    BY <1>2, <2>1, <2>2 DEF Authenticates
<1>3. CASE Fetches
  BY <1>3 DEF Resume, Fetches, In, CapabilityReadsMore, CapabilityFails, CapabilityRejected,
              CapabilityDone, ReadMore, ReadFail
<1>4. QED
  BY <1>1, <1>2, <1>3 DEF Resume

\* The capability method resumes as the last state of an exchange does.
LEMMA FetchesIsAuthResume == Fetches => AuthResume
BY DEF Fetches, AuthResume

LEMMA CallTypes ==
  ASSUME TypeOK, NEW c \in Calls, Calling(c)
  PROVE  /\ Buffered' /\ result' \in Results /\ arg' \in [some : BOOLEAN, data : Seq(Unit)]
         /\ pending' \in Payloads /\ turn' \in {0, 1, 2} /\ proved' \in BOOLEAN
         /\ cause' \in {"none", "base64", "mechanism"} /\ caps' \in Capabilities
         /\ call' \in Calls /\ calls' \in 0..MaxCalls
         /\ UNCHANGED << sock, net, inbox, sent, st, asked, strays, authed >>
<1>1. Buffered'
  BY PartsOfTypeOK, NewBufferBuffered DEF Calling
<1>2. calls' \in 0..MaxCalls
  BY HandshakeAssumption DEF Calling, TypeOK
<1>3. QED
  BY <1>1, <1>2, NoneType, NoCapabilitiesType
  DEF Calling, Results, Payloads, Absent, EmptySet, wireVars, serverVars

LEMMA CallerTypeOK ==
  ASSUME TypeOK, Caller
  PROVE  TypeOK'
<1>1. ASSUME NEW c \in Calls, Calling(c), out' \in Outs, msg' \in Msg, auth' \in AuthStates,
             opts' \in Options, fresh' \in BOOLEAN
      PROVE  TypeOK'
  <2>1. UNCHANGED ServerTypeOK
    BY <1>1, CallTypes DEF ServerTypeOK
  <2>2. QED
    BY <1>1, <2>1, CallTypes DEF TypeOK, ExchangeTypeOK, AuthTypeOK, Buffered
<1>2. CASE CallGreeting \/ CallAuthenticate
  BY <1>1, <1>2, HandshakeAssumption
  DEF CallGreeting, CallAuthenticate, TypeOK, ExchangeTypeOK, AuthTypeOK, Calls, Outs, AuthStates
<1>3. CASE CallStartTls \/ CallCapability
  BY <1>1, <1>3, CommandType
  DEF CallStartTls, CallCapability, TypeOK, AuthTypeOK, Calls, Outs, Yields, AuthStates, Cmds
<1>4. CASE Upgrades
  <2>1. Buffered'
    BY <1>4, PartsOfTypeOK, NewBufferBuffered DEF Upgrades
  <2>2. QED
    BY <1>4, <2>1 DEF Upgrades, authVars, TypeOK, ExchangeTypeOK, ServerTypeOK, AuthTypeOK, Buffered,
                      Sockets, ServerStates
<1>5. QED
  BY <1>2, <1>3, <1>4 DEF Caller

LEMMA ResumeTypeOK ==
  ASSUME TypeOK, Resume
  PROVE  TypeOK'
<1>0. PartsTypeOK /\ UNCHANGED << wireVars, serverVars, callVars >>
  BY PartsOfTypeOK, ResumeFrame
<1>1. SUFFICES Returned' /\ Buffered' /\ AuthTypeOK'
  BY <1>0 DEF Returned, Buffered, TypeOK, ExchangeTypeOK, ServerTypeOK, wireVars, serverVars, callVars
<1> USE DEF TypeOK, AuthTypeOK
<1>2. CASE ReplyReadsMore
  BY <1>0, <1>2, ReadMoreTypes DEF ReplyReadsMore, authVars
<1>3. CASE ReplyFails
  BY <1>0, <1>3, ReadFailTypes DEF ReplyFails, authVars
<1>4. CASE ReplyInjected \/ ReplyRejected
  <2>1. Returned' /\ Buffered'
    BY <1>0, <1>4, CompleteReturned, NewBufferBuffered DEF ReplyInjected, ReplyRejected, Results, Failures
  <2>2. QED
    BY <1>4, <2>1 DEF ReplyInjected, ReplyRejected, authVars
<1>5. CASE ReplyAccepted
  <2>1. Returned' /\ Buffered'
    BY <1>0, <1>5, CompleteReturned, NewBufferBuffered DEF ReplyAccepted, Results
  <2>2. caps' \in Capabilities
    BY <1>0, <1>5, ReadingResponse, ListedType DEF ReplyAccepted
  <2>3. QED
    BY <1>5, <2>1, <2>2 DEF ReplyAccepted
<1>6. CASE Authenticates /\ Start(opts) /\ UNCHANGED << opts, caps, buf, dropped >>
  BY <1>0, <1>6, StartTypes DEF Buffered, ExchangeTypeOK
<1>7. CASE AuthResume
  BY <1>0, <1>7, AuthResumeTypes
<1>8. QED
  BY <1>2, <1>3, <1>4, <1>5, <1>6, <1>7, FetchesIsAuthResume DEF Resume, Authenticates

LEMMA PumpTypeOK ==
  ASSUME TypeOK, Pump
  PROVE  TypeOK'
<1>1. ExchangeTypeOK'
  BY PartsOfTypeOK, PumpIoTypes DEF Pump
<1>2. QED
  BY <1>1 DEF Pump, TypeOK, ServerTypeOK, AuthTypeOK, serverVars, authVars, callVars

LEMMA PeerTypeOK ==
  ASSUME TypeOK, Peer
  PROVE  TypeOK'
<1>1. CASE Reply \/ Disturb
  <2>1. PartsTypeOK'
    BY <1>1, PartsOfTypeOK, PeerPartsTypeOK DEF Peer
  <2>2. QED
    BY <2>1 DEF Peer, callVars, TypeOK, PartsTypeOK
<1>2. CASE NoHandshake
  BY <1>2 DEF NoHandshake, Peer, coroutineVars, wireVars, authVars, callVars, TypeOK, ExchangeTypeOK,
              ServerTypeOK, ServerStates, AuthTypeOK
<1>3. QED
  BY <1>1, <1>2 DEF Peer

\* Every variable of the handshake, the capabilities a call returns and the
\* state of its coroutine included, keeps its type whatever is called and sent.
THEOREM HandshakeTypeOK == Spec => []TypeOK
<1>1. TypeOK /\ [Next]_vars => TypeOK'
  <2>1. TypeOK /\ UNCHANGED vars => TypeOK'
    BY DEF vars, exchangeVars, coroutineVars, wireVars, serverVars, authVars, callVars,
           TypeOK, ExchangeTypeOK, ServerTypeOK, AuthTypeOK
  <2>2. QED
    BY <2>1, CallerTypeOK, ResumeTypeOK, PumpTypeOK, PeerTypeOK DEF Next, Finished
<1>2. QED
  BY <1>1, InitTypeOK, PTL DEF Spec

-----------------------------------------------------------------------------
(* The upgrade.                                                            *)

\* Up to the upgrade nothing is thrown away unless a call failed, and from
\* then on there is nothing on the connection but what was sent over TLS.
KeptInv ==
  /\ out # "Run" => arg.data = <<>>
  /\ out # "Complete" => result = "none"
  /\ fresh => out = "Complete" /\ ~dropped /\ buf = <<>>
  /\ call \in {"greeting", "starttls"} =>
       /\ result \in {"none", "ok"} => ~dropped
       /\ result = "ok" => buf = <<>>
  /\ call = "starttls" => caps = NoCapabilities
  /\ sock = "tls" => AllSecured /\ (caps = NoCapabilities \/ caps.on # "clear")

LEMMA CallerKept ==
  ASSUME TypeOK, KeptInv, Caller
  PROVE  KeptInv'
<1>1. <<>> \in Seq(Secured)
  BY EmptySeq
<1>2. ASSUME NEW c \in Calls, Calling(c), fresh' => fresh /\ c # "greeting", c = "starttls" => ~fresh
      PROVE  KeptInv'
  <2>1. /\ out = "Complete" /\ result' = "none" /\ arg'.data = <<>> /\ buf' = <<>>
        /\ call' = c /\ caps' = NoCapabilities /\ UNCHANGED << sock, net >>
    BY <1>2 DEF Calling, NewBuffer, EmptySet, None, wireVars
  <2>2. ~fresh'
    BY <1>2 DEF Calling, May, Calls
  <2>3. c \in {"greeting", "starttls"} => ~dropped'
    BY <1>2, <2>1 DEF Calling, May, NewBuffer, KeptInv
  <2>4. sock = "tls" => AllSecured'
    BY <1>1, <2>1 DEF KeptInv, AllSecured
  <2>5. QED
    BY <2>1, <2>2, <2>3, <2>4 DEF KeptInv
<1>3. CASE CallGreeting \/ CallStartTls \/ CallCapability \/ CallAuthenticate
  <2>1. CASE CallGreeting
    BY <1>2, <2>1 DEF CallGreeting, Calls
  <2>2. CASE CallStartTls
    BY <1>2, <2>2 DEF CallStartTls, Calling, May, Calls
  <2>3. CASE CallCapability \/ CallAuthenticate
    BY <1>2, <2>3 DEF CallCapability, CallAuthenticate, Calls
  <2>4. QED
    BY <1>3, <2>1, <2>2, <2>3
<1>4. CASE Upgrades
  <2>1. /\ out = "Complete" /\ call = "starttls" /\ result = "ok" /\ ~dropped /\ buf = <<>>
        /\ arg.data = <<>> /\ caps = NoCapabilities
    BY <1>4 DEF Upgrades, Agreed, KeptInv
  <2>2. /\ out' = "Complete" /\ call' = "none" /\ ~dropped' /\ buf' = <<>>
        /\ arg'.data = <<>> /\ caps' = NoCapabilities /\ net' = <<>>
    BY <1>4, <2>1 DEF Upgrades, NewBuffer, authVars
  <2>3. AllSecured'
    BY <1>1, <2>2 DEF AllSecured
  <2>4. QED
    BY <2>2, <2>3 DEF KeptInv
<1>5. QED
  BY <1>3, <1>4 DEF Caller

\* A reply on top of which nothing was sent leaves nothing behind.
LEMMA ResumeKept ==
  ASSUME TypeOK, KeptInv, Resume
  PROVE  KeptInv'
<1>1. PartsTypeOK /\ ~fresh /\ result = "none"
  BY PartsOfTypeOK, ResumeFrame DEF KeptInv
<1>2. /\ out' # "Run" /\ arg'.data = <<>> /\ UNCHANGED << sock, net, call, fresh >>
      /\ out' # "Complete" => result' = "none"
  BY <1>1, ResumeFrame DEF None, wireVars, callVars
<1>3. sock = "tls" => AllSecured /\ Received \in Seq(Secured)
  BY ReceivedSecured DEF KeptInv
<1>4. CASE ReplyReadsMore \/ ReplyFails \/ ReplyInjected \/ ReplyRejected \/ ReplyAccepted
  <2>1. call \in {"greeting", "starttls"} /\ ~dropped
    BY <1>1, <1>4 DEF ReplyReadsMore, ReplyFails, ReplyInjected, ReplyRejected, ReplyAccepted, ReadsReply,
                      In, KeptInv
  <2>2. buf' = Received \/ buf' = <<>>
    BY <1>4 DEF ReplyReadsMore, ReplyFails, ReplyInjected, ReplyRejected, ReplyAccepted, ReadMore, ReadFail,
                NewBuffer
  <2>3. sock = "tls" => AllSecured'
    BY <1>2, <1>3, <2>2, EmptySeq DEF AllSecured
  <2>4. /\ result' \in {"none", "ok"} => ~dropped'
        /\ result' = "ok" => buf' = <<>>
    <3>1. CASE ReplyReadsMore \/ ReplyFails
      BY <1>1, <2>1, <3>1 DEF ReplyReadsMore, ReplyFails, ReadMore, ReadFail, Yield, Complete
    <3>2. CASE ReplyInjected \/ ReplyRejected
      BY <3>2 DEF ReplyInjected, ReplyRejected, Complete
    <3>3. CASE ReplyAccepted
      BY <2>1, <3>3 DEF ReplyAccepted, NewBuffer
    <3>4. QED
      BY <1>4, <3>1, <3>2, <3>3
  <2>5. /\ call = "starttls" => caps' = caps
        /\ sock = "tls" => caps' = caps \/ caps'.on # "clear"
    <3>1. CASE ReplyAccepted
      BY <1>3, <3>1, ReadingResponse, CompletionSecured DEF ReplyAccepted, Listed
    <3>2. CASE ~ReplyAccepted
      BY <1>4, <3>2 DEF ReplyReadsMore, ReplyFails, ReplyInjected, ReplyRejected, authVars
    <3>3. QED
      BY <3>1, <3>2
  <2>6. QED
    BY <1>1, <1>2, <2>3, <2>4, <2>5 DEF KeptInv
<1>5. CASE Authenticates \/ Fetches
  <2>1. call \in {"authenticate", "capability"}
    BY <1>5 DEF Authenticates, Fetches, In
  <2>2. sock = "tls" => AllSecured' /\ (caps' = caps \/ caps'.on # "clear")
    <3>1. CASE AuthResume
      BY <1>1, <1>2, <1>3, <3>1, AuthResumeSecured
    <3>2. CASE UNCHANGED << caps, buf >>
      BY <1>2, <1>3, <3>2, EmptySeq DEF AllSecured
    <3>3. QED
      BY <1>5, <3>1, <3>2, FetchesIsAuthResume DEF Authenticates
  <2>3. QED
    BY <1>1, <1>2, <2>1, <2>2 DEF KeptInv
<1>6. QED
  BY <1>4, <1>5 DEF Resume

LEMMA NextKept ==
  ASSUME TypeOK, KeptInv, [Next]_vars
  PROVE  KeptInv'
<1>1. PartsTypeOK
  BY PartsOfTypeOK
<1>2. CASE Pump
  <2>1. /\ UNCHANGED << result, call, caps, fresh, buf, dropped, sock >>
        /\ out \in Yields /\ (out' = "Run" \/ (out' = "Broken" /\ arg' = arg))
    BY <1>2 DEF Pump, PumpRead, PumpEof, PumpWrite, PumpFail, wireVars, authVars, callVars, Yields
  <2>2. sock = "tls" => AllSecured'
    BY <1>1, <1>2, PumpSecured DEF Pump, KeptInv
  <2>3. QED
    BY <2>1, <2>2 DEF KeptInv, Yields
<1>3. CASE Peer
  <2>1. UNCHANGED << out, result, arg, buf, dropped, call, caps, fresh, sock >>
    BY <1>3 DEF Peer, Reply, NoHandshake, Disturb, coroutineVars, wireVars, authVars, callVars
  <2>2. sock = "tls" => AllSecured'
    <3>1. CASE Reply \/ Disturb
      BY <1>1, <3>1, PeerSecured DEF KeptInv
    <3>2. CASE NoHandshake
      BY <3>2 DEF NoHandshake, coroutineVars, wireVars, KeptInv, AllSecured
    <3>3. QED
      BY <1>3, <3>1, <3>2 DEF Peer
  <2>3. QED
    BY <2>1, <2>2 DEF KeptInv
<1>4. CASE UNCHANGED vars
  BY <1>4 DEF vars, exchangeVars, coroutineVars, wireVars, authVars, callVars, KeptInv, AllSecured
<1>5. QED
  BY <1>2, <1>3, <1>4, CallerKept, ResumeKept DEF Next, Finished

LEMMA HandshakeKeptInv == Spec => []KeptInv
<1>1. Init => KeptInv
  BY EmptySeq DEF Init, AuthInit, KeptInv, AllSecured, None
<1>2. TypeOK /\ KeptInv /\ [Next]_vars => KeptInv'
  BY NextKept
<1>3. QED
  BY <1>1, <1>2, HandshakeTypeOK, PTL DEF Spec

\* Nothing read in the clear is there once TLS is up, even when someone on
\* the path adds lines of their own: nothing was thrown away to get there, no
\* such line is held, and the capabilities returned came over TLS.
THEOREM HandshakeNothingClearKept == Spec => []NothingClearKept
<1>1. KeptInv => NothingClearKept
  <2> SUFFICES ASSUME KeptInv, sock = "tls"
               PROVE  /\ fresh => ~dropped
                      /\ \A i \in DOMAIN buf : buf[i].of.on # "clear"
                      /\ out = "Complete" /\ caps # NoCapabilities => caps.on # "clear"
    BY DEF NothingClearKept
  <2>1. buf \in Seq(Secured)
    BY DEF KeptInv, AllSecured
  <2>2. \A i \in DOMAIN buf : buf[i].of.on # "clear"
    BY <2>1, ElementOfSeq, LenProperties DEF Secured
  <2>3. QED
    BY <2>2 DEF KeptInv
<1>2. QED
  BY <1>1, HandshakeKeptInv, PTL

-----------------------------------------------------------------------------
(* The calls, with a server that keeps the protocol.                       *)

\* What the next read is the answer to.
Awaited ==
  CASE call = "greeting"                               -> "greeting"
    [] call = "starttls"                               -> "starttls"
    [] call = "capability"                             -> "listing"
    [] call = "authenticate" /\ auth = "Capability"    -> "listing"
    [] call = "authenticate" /\ auth = "Abort"         -> "cancel"
    [] OTHER                                           -> "sasl"

\* authenticate was called and has not written its command.
Unspoken == call = "authenticate" /\ auth = "Start" /\ out = "Run"

\* A connection not greeted on waits for its greeting, whoever reads it; a
\* call that is under way waits for what it asked, and one that returned left
\* the stream at rest for the next.
StepInv ==
  /\ ArgInv
  /\ fresh => Waits("greeting")
  /\ Unspoken => buf = <<>> /\ net \in Seq(Byes) /\ Rests("idle") /\ (st # "closed" => ~dropped)
  /\ ~fresh /\ ~Unspoken => \A w \in Answers : w = Awaited => InStepWith(w)
  /\ ~fresh => call # "none"
  /\ call = "starttls" => sock = "tcp"
  /\ call = "capability" => auth = "Capability"
  /\ call = "authenticate" /\ auth = "Start" => out \in {"Run", "Complete"}

LEMMA AwaitedIsAnswer == Awaited \in Answers
BY DEF Awaited, Answers

LEMMA InitInStep == Init => StepInv
<1> SUFFICES ASSUME Init PROVE StepInv
  OBVIOUS
<1>1. /\ buf = <<>> /\ arg.data = <<>> /\ ~arg.some /\ net = <<>> /\ inbox = <<>> /\ st = "greet"
      /\ fresh /\ call = "none"
  BY DEF Init, None
<1>2. <<>> \in Seq(Unit) /\ <<>> \in Seq(Byes)
  BY EmptySeq
<1>3. Received = <<>>
  BY <1>1, <1>2, ConcatEmptySeq DEF Received
<1>4. Stream = <<>>
  BY <1>1, <1>2, <1>3, ThenNothing DEF Stream
<1>5. WaitsWith("greeting", <<>>)
  BY <1>1, <1>2, <1>4 DEF WaitsWith, Owed
<1>6. QED
  BY <1>1, <1>5 DEF StepInv, Waits, ArgInv, Unspoken

\* A call that may be made finds the connection at rest.
LEMMA CallAtRest ==
  ASSUME TypeOK, KeptInv, StepInv, NEW c \in Calls \ {"greeting"}, Calling(c)
  PROVE  /\ buf' = <<>> /\ Stream' \in Seq(Byes) /\ net' \in Seq(Byes) /\ Rests("idle")' /\ ArgInv'
         /\ st' # "closed" => ~dropped'
<1>1. /\ out = "Complete" /\ result \in Survives /\ ~fresh /\ ~Agreed
      /\ buf' = <<>> /\ arg' = None /\ dropped' = (dropped \/ buf # <<>>)
      /\ UNCHANGED << net, inbox, st >>
  BY DEF Calling, May, Calls, Agreed, NewBuffer, wireVars, serverVars
<1>2. \A w \in Answers : w = Awaited => InStepWith(w) /\ RestsAfter(w) = "idle"
  BY <1>1 DEF StepInv, Unspoken, RestsAfter, Agreed, Awaited
<1>3. net \in Seq(Byes) /\ Rests("idle") /\ (st # "closed" => ~dropped)
  BY <1>1, <1>2, AwaitedIsAnswer DEF InStepWith, Survives, Unframed
<1>4. buf \in Seq(Unit) /\ net \in Seq(Unit) /\ <<>> \in Seq(Unit)
  BY PartsOfTypeOK, StreamParts, EmptySeq
<1>5. st # "closed" => buf = <<>> /\ net = <<>>
  <2>1. \A b, n \in Seq(Unit) : Then(b, n) = <<>> => b = <<>> /\ n = <<>>
    BY ThenIsNothing
  <2>2. Received = buf
    BY <1>1, <1>4, ConcatEmptySeq DEF Received, KeptInv
  <2>3. QED
    BY <1>3, <1>4, <2>1, <2>2 DEF Rests, Stream
<1>6. Stream' = Then(<<>>, net') /\ ArgInv'
  BY <1>1, <1>4, BufferIsReceived
<1>7. Stream' = net
  BY <1>1, <1>4, <1>6, ThenNothing
<1>8. Rests("idle")'
  BY <1>1, <1>3, <1>5, <1>7 DEF Rests
<1>9. st' # "closed" => ~dropped'
  BY <1>1, <1>3, <1>5
<1>10. QED
  BY <1>1, <1>3, <1>6, <1>7, <1>8, <1>9

LEMMA CallerInStep ==
  ASSUME TypeOK, KeptInv, StepInv, Caller
  PROVE  StepInv'
<1>1. CASE CallGreeting
  <2>1. /\ fresh /\ out' = "Run" /\ call' = "greeting" /\ ~fresh'
        /\ arg' = None /\ UNCHANGED << net, inbox, st, authed, sock >>
    BY <1>1 DEF CallGreeting, Calling, May, wireVars, serverVars
  <2>2. buf = <<>> /\ buf' = <<>> /\ ~dropped'
    BY <1>1, <2>1 DEF CallGreeting, Calling, NewBuffer, KeptInv
  <2>3. arg.data = <<>> /\ arg'.data = <<>> /\ ~arg'.some
    BY <1>1, <2>1 DEF CallGreeting, Calling, KeptInv, None
  <2>4. Stream' = Stream
    BY <2>1, <2>2, <2>3 DEF Stream, Received
  <2>5. Waits("greeting")'
    BY <2>1, <2>4, WaitsKept DEF StepInv
  <2>6. InStepWith("greeting")' /\ ArgInv'
    BY <2>1, <2>2, <2>3, <2>5 DEF InStepWith, ArgInv
  <2>7. QED
    BY <2>1, <2>6 DEF StepInv, Unspoken, Awaited
<1>2. CASE CallStartTls
  <2>1. /\ ~fresh' /\ call' = "starttls" /\ sock' = "tcp"
        /\ out' = "WantsWrite" /\ Needs(msg') = "idle" /\ For(msg') = "starttls"
    BY <1>2 DEF CallStartTls, Calling, May, wireVars, Command, Needs, For
  <2>2. /\ Stream' \in Seq(Byes) /\ Rests("idle")' /\ ArgInv'
        /\ st' # "closed" => ~dropped'
    BY <1>2, CallAtRest DEF CallStartTls, Calls
  <2>3. Rests(Needs(msg))'
    BY <2>1, <2>2 DEF Rests
  <2>4. InStepWith("starttls")'
    BY <2>1, <2>2, <2>3 DEF InStepWith
  <2>5. QED
    BY <2>1, <2>2, <2>4 DEF StepInv, Unspoken, Awaited
<1>3. CASE CallCapability
  <2>1. /\ ~fresh' /\ call' = "capability" /\ auth' = "Capability"
        /\ out' = "WantsWrite" /\ Needs(msg') = "idle" /\ For(msg') = "listing"
    BY <1>3 DEF CallCapability, Calling, May, Command, Needs, For
  <2>2. /\ Stream' \in Seq(Byes) /\ Rests("idle")' /\ ArgInv'
        /\ st' # "closed" => ~dropped'
    BY <1>3, CallAtRest DEF CallCapability, Calls
  <2>3. Rests(Needs(msg))'
    BY <2>1, <2>2 DEF Rests
  <2>4. InStepWith("listing")'
    BY <2>1, <2>2, <2>3 DEF InStepWith
  <2>5. QED
    BY <2>1, <2>2, <2>4 DEF StepInv, Unspoken, Awaited
<1>4. CASE CallAuthenticate
  <2>1. ~fresh' /\ call' = "authenticate" /\ auth' = "Start" /\ out' = "Run"
    BY <1>4 DEF CallAuthenticate, Calling, May
  <2>2. /\ buf' = <<>> /\ net' \in Seq(Byes) /\ Rests("idle")' /\ ArgInv'
        /\ st' # "closed" => ~dropped'
    BY <1>4, CallAtRest DEF CallAuthenticate, Calls
  <2>3. QED
    BY <2>1, <2>2 DEF StepInv, Unspoken
<1>5. CASE Upgrades
  <2>1. /\ out = "Complete" /\ call = "starttls" /\ result = "ok" /\ st = "handshake" /\ net = <<>>
        /\ out' = "Complete" /\ call' = "none" /\ fresh' /\ st' = "greet" /\ buf' = <<>>
        /\ UNCHANGED << arg, net, inbox >>
    BY <1>5 DEF Upgrades, Agreed, NewBuffer
  <2>2. ~fresh
    <3>1. CASE fresh
      <4>1. Waits("greeting")
        BY <3>1 DEF StepInv
      <4>2. PICK z : WaitsWith("greeting", z)
        BY <4>1 DEF Waits
      <4>3. QED
        BY <2>1, <4>2 DEF WaitsWith, Owed, IsAnswer, Refusal, Stands
    <3>2. QED
      BY <3>1
  <2>3. InStepWith("starttls")
    BY <2>1, <2>2 DEF StepInv, Unspoken, Awaited, Answers
  <2>4. inbox = <<>> /\ arg.data = <<>>
    BY <2>1, <2>3 DEF InStepWith, Unframed, Rests, KeptInv
  <2>5. Waits("greeting")'
    BY <2>1, <2>4, GreetingOwed
  <2>6. ArgInv'
    BY <2>1, <2>4 DEF ArgInv, StepInv
  <2>7. QED
    BY <2>1, <2>5, <2>6 DEF StepInv, Unspoken
<1>6. QED
  BY <1>1, <1>2, <1>3, <1>4, <1>5 DEF Caller

\* A reply read whole leaves the stream at rest, where the call that reads it
\* says; bytes on top of it are there only if the server hung up.
LEMMA ReplyInStep ==
  ASSUME TypeOK, StepInv, Resume, ~fresh, NEW c \in {"greeting", "starttls"}, In(c),
         ReplyReadsMore \/ ReplyFails \/ ReplyInjected \/ ReplyRejected \/ ReplyAccepted
  PROVE  InStepWith(c)' /\ ArgInv'
<1>1. PartsTypeOK /\ out = "Run" /\ arg' = None /\ UNCHANGED << wireVars, serverVars >>
  BY PartsOfTypeOK, ResumeFrame
<1>2. InStepWith(c) /\ c \in Answers \ {"sasl"}
  BY DEF In, StepInv, Unspoken, Awaited, Answers
<1>3. CASE ReplyReadsMore
  BY <1>1, <1>2, <1>3, ReadMoreInStep DEF ReplyReadsMore, ReadMore
<1>4. CASE ReplyFails
  <2>1. PICK r \in Unframed : Complete(r)
    BY <1>4 DEF ReplyFails, ReadFail, Unframed
  <2>2. QED
    BY <1>1, <1>2, <1>4, <2>1, UnframedInStep DEF ReplyFails, ReadFail
<1>5. CASE ReplyInjected \/ ReplyRejected \/ ReplyAccepted
  <2>1. HasResponse(Received) /\ NewBuffer(Trailing(Received)) /\ out' = "Complete"
    BY <1>5, ReadingResponse DEF ReplyInjected, ReplyRejected, ReplyAccepted, Complete
  <2>2. /\ net' \in Seq(Byes) /\ ArgInv'
        /\ IF c = "starttls" /\ Completion(Received).kind = "ok" THEN Rests("handshake")'
           ELSE Rests("idle")'
        /\ st' # "closed" => ~dropped'
    BY <1>1, <1>2, <2>1, ReplyTaken
  <2>3. Rests(RestsAfter(c))'
    <3>1. CASE ReplyInjected
      <4>1. st' = "closed"
        BY <2>1, <2>2, <3>1 DEF ReplyInjected, NewBuffer
      <4>2. QED
        BY <4>1 DEF Rests
    <3>2. CASE ReplyRejected
      BY <2>2, <3>2 DEF ReplyRejected, Complete, RestsAfter
    <3>3. CASE ReplyAccepted
      BY <2>2, <3>3 DEF ReplyAccepted, Complete, RestsAfter
    <3>4. QED
      BY <1>5, <3>1, <3>2, <3>3
  <2>4. QED
    BY <2>1, <2>2, <2>3, RestInStep
<1>6. QED
  BY <1>3, <1>4, <1>5

LEMMA ResumeInStep ==
  ASSUME TypeOK, KeptInv, StepInv, Resume
  PROVE  StepInv'
<1>1. /\ PartsTypeOK /\ out = "Run" /\ ~fresh /\ ~fresh' /\ out' # "Run" /\ ~Unspoken'
      /\ UNCHANGED << wireVars, serverVars, call, sock >>
  BY PartsOfTypeOK, ResumeFrame DEF KeptInv, callVars, wireVars, Unspoken
<1>2. CASE ReplyReadsMore \/ ReplyFails \/ ReplyInjected \/ ReplyRejected \/ ReplyAccepted
  <2>1. PICK c \in {"greeting", "starttls"} : In(c)
    BY <1>2 DEF ReplyReadsMore, ReplyFails, ReplyInjected, ReplyRejected, ReplyAccepted, ReadsReply
  <2>2. InStepWith(c)' /\ ArgInv'
    BY <1>1, <1>2, <2>1, ReplyInStep
  <2>3. QED
    BY <1>1, <2>1, <2>2 DEF In, StepInv, Awaited
<1>3. CASE Authenticates /\ Start(opts) /\ UNCHANGED << opts, caps, buf, dropped >>
  <2>1. Unspoken /\ call = "authenticate" /\ call' = "authenticate"
    BY <1>1, <1>3 DEF Authenticates, In, Start, Unspoken
  <2>2. /\ buf' = <<>> /\ net \in Seq(Byes) /\ net' \in Seq(Byes) /\ Rests("idle")
        /\ st' # "closed" => ~dropped'
    BY <1>1, <1>3, <2>1 DEF StepInv, wireVars, serverVars
  <2>3. Rests("idle")'
    <3>1. arg' = None /\ <<>> \in Seq(Unit)
      BY <1>1, ResumeFrame, EmptySeq
    <3>2. Stream' = Then(<<>>, net') /\ net \in Seq(Unit)
      BY <1>1, <2>2, <3>1, BufferIsReceived, StreamParts
    <3>3. Stream' = net
      BY <1>1, <3>2, ThenNothing DEF wireVars
    <3>4. Stream = <<>> => net = <<>>
      <4>1. \A b, n \in Seq(Unit) : Then(b, n) = <<>> => n = <<>>
        BY ThenIsNothing
      <4>2. QED
        BY <1>1, <4>1, StreamParts DEF Stream
    <3>5. QED
      BY <1>1, <2>2, <3>3, <3>4 DEF Rests, wireVars, serverVars
  <2>4. /\ auth' = "Read" => InStepWith("sasl")'
        /\ auth' \in {"Start", "Read"} /\ ArgInv'
        /\ auth' = "Start" => out' = "Complete"
    BY <1>1, <1>3, <2>2, <2>3, StartInStep
  <2>5. auth' = "Start" => InStepWith("sasl")'
    BY <2>2, <2>3, <2>4, RestInStep DEF RestsAfter
  <2>6. QED
    BY <1>1, <2>1, <2>4, <2>5 DEF StepInv, Awaited
<1>4. CASE Authenticates /\ AuthResume
  <2>1. call = "authenticate" /\ call' = "authenticate" /\ auth # "Start"
    BY <1>1, <1>4
    DEF Authenticates, In, AuthResume, ReadsMore, ReadsError, AnswerPending, AnswerChallenge,
        CancelExchange, CompletionRefused, CompletionAccepted, FetchCapabilities, AbortReadsMore,
        AbortEnds, CapabilityReadsMore, CapabilityFails, CapabilityRejected, CapabilityDone, Reads,
        Aborting, Fetching, Accepts
  <2>2. ExchangeInStep /\ ArgInv
    BY <1>1, <2>1 DEF StepInv, Unspoken, ExchangeInStep, Awaited, Answers
  <2>3. ExchangeInStep' /\ ArgInv'
    BY <1>1, <1>4, <2>2, AuthResumeInStep
  <2>4. auth' \in AuthStates \ {"Start"}
    BY <1>1, <1>4, <2>1
    DEF AuthResume, ReadsMore, ReadsError, AnswerPending, AnswerChallenge,
        CancelExchange, CompletionRefused, CompletionAccepted, FetchCapabilities, AbortReadsMore,
        AbortEnds, CapabilityReadsMore, CapabilityFails, CapabilityRejected, CapabilityDone, Accepts,
        authVars, AuthStates, PartsTypeOK, AuthTypeOK
  <2>5. QED
    BY <1>1, <2>1, <2>3, <2>4 DEF StepInv, ExchangeInStep, Awaited, AuthStates
<1>5. CASE Fetches
  <2>1. call = "capability" /\ call' = "capability" /\ auth = "Capability" /\ auth' = "Capability"
    BY <1>1, <1>5 DEF Fetches, In, CapabilityReadsMore, CapabilityFails, CapabilityRejected,
                      CapabilityDone, Fetching, authVars
  <2>2. InStepWith("listing")
    BY <1>1, <2>1 DEF StepInv, Unspoken, Awaited, Answers
  <2>3. InStepWith("listing")' /\ ArgInv'
    BY <1>1, <1>5, <2>2, CapabilityInStep DEF Fetches
  <2>4. QED
    BY <1>1, <2>1, <2>3 DEF StepInv, Awaited
<1>6. QED
  BY <1>2, <1>3, <1>4, <1>5 DEF Resume, Authenticates

LEMMA PumpStepInStep ==
  ASSUME TypeOK, KeptInv, StepInv, Pump
  PROVE  StepInv'
<1>1. /\ PartsTypeOK /\ UNCHANGED << serverVars, call, fresh, auth, sock, Awaited >>
      /\ out \in Yields /\ out' \in {"Run", "Broken"}
  BY PartsOfTypeOK
  DEF Pump, PumpRead, PumpEof, PumpWrite, PumpFail, wireVars, authVars, callVars, Yields, Awaited
<1>2. ~fresh /\ ~Unspoken /\ ~(call = "authenticate" /\ auth = "Start")
  BY <1>1 DEF KeptInv, StepInv, Unspoken, Yields
<1>3. \A w \in Answers : InStepWith(w) => InStepWith(w)' /\ ArgInv'
  BY <1>1, PumpInStep DEF Pump, StepInv
<1>4. \A w \in Answers : w = Awaited => InStepWith(w)' /\ ArgInv'
  BY <1>2, <1>3 DEF StepInv
<1>5. ArgInv' /\ ~Unspoken'
  BY <1>1, <1>2, <1>4, AwaitedIsAnswer DEF Unspoken
<1>6. QED
  BY <1>1, <1>2, <1>4, <1>5 DEF StepInv

\* A server that waits for a TLS handshake was sent nothing it could close
\* for, unless the call before gave up on the stream.
LEMMA NoHandshakeInStep ==
  ASSUME PartsTypeOK, NEW w, InStepWith(w), NoHandshake
  PROVE  InStepWith(w)'
<1>1. /\ UNCHANGED << out, result, msg, arg, buf, dropped, sock, net, inbox, authed >>
      /\ st = "handshake" /\ inbox # <<>> /\ st' = "closed"
  BY DEF NoHandshake, coroutineVars, wireVars
<1>2. out # "WantsWrite"
  BY <1>1 DEF InStepWith, Rests, Needs
<1>3. out \notin {"Run", "WantsRead"}
  <2>1. ASSUME NEW z, WaitsWith(w, z) PROVE FALSE
    BY <1>1, <2>1 DEF WaitsWith, Owed, Needs
  <2>2. QED
    BY <2>1 DEF InStepWith, Waits
<1>4. QED
  BY <1>1, <1>2, <1>3 DEF InStepWith, Rests

LEMMA PeerStepInStep ==
  ASSUME TypeOK, StepInv, Peer, UNCHANGED strays
  PROVE  StepInv'
<1>1. /\ PartsTypeOK
      /\ Reply \/ Disturb \/ NoHandshake
      /\ UNCHANGED << call, fresh, auth, out, result, arg, buf, dropped, sock, Awaited, Unspoken >>
  BY PartsOfTypeOK
  DEF Peer, Reply, NoHandshake, Disturb, coroutineVars, wireVars, authVars, callVars, Awaited, Unspoken
<1>2. st # "closed"
  <2>1. ~Stray
    BY ServerAssumption DEF Stray, TypeOK, ServerTypeOK
  <2>2. QED
    BY <1>1, <2>1 DEF Reply, Disturb, NoHandshake, Greet, ServerAnswer, GiveUp, AnswerStartTls,
                      AnswerCapability, AnswerSasl, AnswerNo
<1>3. ArgInv'
  BY <1>1, <1>2 DEF StepInv, ArgInv
<1>4. fresh => Waits("greeting")'
  <2>1. CASE Reply \/ Disturb
    BY <1>1, <2>1, PeerWaits DEF StepInv, Answers
  <2>2. ASSUME NoHandshake, Waits("greeting") PROVE FALSE
    <3>1. PICK z : WaitsWith("greeting", z)
      BY <2>2 DEF Waits
    <3>2. QED
      BY <1>2, <2>2, <3>1 DEF NoHandshake, WaitsWith, Owed
  <2>3. QED
    BY <1>1, <2>1, <2>2 DEF StepInv
<1>5. ASSUME Unspoken
      PROVE  net' \in Seq(Byes) /\ Rests("idle")' /\ (st' # "closed" => ~dropped')
  <2>1. Rests("idle") /\ ~NoHandshake
    BY <1>2, <1>5 DEF StepInv, Rests, NoHandshake
  <2>2. QED
    BY <1>1, <2>1, PeerAtRest
<1>6. \A w \in Answers : InStepWith(w) => InStepWith(w)'
  <2>1. CASE Reply \/ Disturb
    BY <2>1, <1>1, PeerInStep DEF StepInv
  <2>2. CASE NoHandshake
    BY <1>1, <2>2, NoHandshakeInStep
  <2>3. QED
    BY <1>1, <2>1, <2>2
<1>7. QED
  BY <1>1, <1>3, <1>4, <1>5, <1>6 DEF StepInv

LEMMA StutterInStep ==
  ASSUME StepInv, UNCHANGED vars
  PROVE  StepInv'
<1> USE DEF vars, exchangeVars, coroutineVars, wireVars, serverVars, authVars, callVars
<1>1. Stream' = Stream
  BY StreamKept
<1>2. \A w : Waits(w) => Waits(w)'
  BY <1>1, WaitsKept
<1>3. \A w : InStepWith(w) => InStepWith(w)'
  BY <1>1, <1>2 DEF InStepWith, Rests, RestsAfter
<1>4. UNCHANGED << Awaited, Unspoken, ArgInv >> /\ (Rests("idle") => Rests("idle")')
  BY <1>1 DEF Awaited, Unspoken, ArgInv, Rests
<1>5. QED
  BY <1>2, <1>3, <1>4 DEF StepInv

\* Lines nobody asked for are counted and stay counted.
LEMMA StraysStay ==
  ASSUME TypeOK, [Next]_vars, strays' = 0
  PROVE  strays = 0
<1>1. strays' = strays \/ strays' = strays + 1
  BY DEF vars, Next, Caller, CallGreeting, CallStartTls, CallCapability, CallAuthenticate, Calling,
         Upgrades, Resume, Pump, Peer, Reply, NoHandshake, Disturb, Greet, ServerAnswer, GiveUp, Stray,
         Finished, serverVars
<1>2. strays \in Nat
  BY ServerAssumption DEF TypeOK, ServerTypeOK
<1>3. QED
  BY <1>1, <1>2

StepWhileKept == strays = 0 => StepInv

LEMMA HandshakeStepInv == Spec => []StepWhileKept
<1>1. TypeOK /\ KeptInv /\ StepWhileKept /\ [Next]_vars => StepWhileKept'
  <2> SUFFICES ASSUME TypeOK, KeptInv, StepWhileKept, [Next]_vars, strays' = 0
               PROVE  StepInv'
    BY DEF StepWhileKept
  <2>1. strays = 0 /\ StepInv
    BY StraysStay DEF StepWhileKept
  <2>2. QED
    BY <2>1, CallerInStep, ResumeInStep, PumpStepInStep, PeerStepInStep, StutterInStep DEF Next, Finished
<1>2. QED
  BY <1>1, InitInStep, HandshakeTypeOK, HandshakeKeptInv, PTL DEF Spec, StepWhileKept

\* While the server keeps the protocol, a call that returned leaves the
\* connection where the next one can start, whatever it failed on: its reply
\* was read whole and nothing read was thrown away (each method of
\* ManagesieveClient builds a coroutine with a buffer of its own).
THEOREM HandshakeCallsInStep == Spec => []CallsInStep
<1>1. TypeOK /\ KeptInv /\ StepWhileKept => CallsInStep
  <2> SUFFICES ASSUME TypeOK, KeptInv, StepInv, out = "Complete", result \in Survives, ~fresh, st # "closed"
               PROVE  /\ net = <<>> /\ inbox = <<>> /\ buf = <<>> /\ ~dropped
                      /\ st = IF Agreed THEN "handshake" ELSE "idle"
    BY DEF CallsInStep, StepWhileKept
  <2>1. PartsTypeOK
    BY PartsOfTypeOK
  <2>2. \A w \in Answers : w = Awaited =>
          /\ InStepWith(w)
          /\ RestsAfter(w) = IF Agreed THEN "handshake" ELSE "idle"
    BY DEF StepInv, Unspoken, RestsAfter, Agreed, Awaited
  <2>3. /\ Rests(IF Agreed THEN "handshake" ELSE "idle") /\ ~dropped
    BY <2>2, AwaitedIsAnswer DEF InStepWith, Survives, Unframed
  <2>4. Stream = <<>> /\ inbox = <<>> /\ st = IF Agreed THEN "handshake" ELSE "idle"
    BY <2>3 DEF Rests
  <2>5. Received = <<>> /\ net = <<>>
    <3>1. \A b, n \in Seq(Unit) : Then(b, n) = <<>> => b = <<>> /\ n = <<>>
      BY ThenIsNothing
    <3>2. QED
      BY <2>1, <2>4, <3>1, StreamParts DEF Stream
  <2>6. buf = <<>>
    BY <2>1, <2>5, StreamParts, ConcatEmptySeq DEF KeptInv, Received
  <2>7. QED
    BY <2>3, <2>4, <2>5, <2>6
<1>2. QED
  BY <1>1, HandshakeStepInv, HandshakeTypeOK, HandshakeKeptInv, PTL

-----------------------------------------------------------------------------
(* The capabilities a call returns.                                        *)

\* A call starts with none, and what it returns is in force.
SetsInv ==
  /\ ~fresh /\ out # "Complete" => caps = NoCapabilities
  /\ SetsInForce

LEMMA ResumeSets ==
  ASSUME TypeOK, KeptInv, StepWhileKept, SetsInv, Resume
  PROVE  SetsInv'
<1>1. /\ PartsTypeOK /\ out = "Run" /\ ~fresh /\ ~fresh' /\ caps = NoCapabilities
      /\ UNCHANGED << wireVars, serverVars, callVars >> /\ UNCHANGED Phase /\ UNCHANGED strays
  BY PartsOfTypeOK, ResumeFrame DEF KeptInv, SetsInv, callVars, wireVars, serverVars, Phase
<1>2. CASE UNCHANGED caps
  BY <1>1, <1>2 DEF SetsInv, SetsInForce
<1>3. CASE ReplyAccepted /\ call = "greeting"
  <2>1. /\ Reading = "response" /\ Completion(Received).kind = "ok" /\ caps' = Listed(Received)
        /\ out' = "Complete" /\ ~Unspoken
    BY <1>3 DEF ReplyAccepted, Complete, Unspoken
  <2>2. strays = 0 => caps'.on = Phase
    <3>1. strays = 0 => InStepWith("greeting")
      BY <1>1, <1>3, <2>1 DEF StepWhileKept, StepInv, Awaited, Answers
    <3>2. QED
      BY <1>1, <2>1, <3>1, ListedInForce
  <2>3. QED
    BY <1>1, <2>1, <2>2 DEF SetsInv, SetsInForce
<1>4. CASE CapabilityDone /\ (Authenticates \/ Fetches)
  <2>1. /\ Reading = "response" /\ Completion(Received).kind = "ok" /\ caps' = Listed(Received)
        /\ out' = "Complete" /\ ~Unspoken /\ auth = "Capability"
        /\ call \in {"authenticate", "capability"}
    BY <1>4 DEF CapabilityDone, Fetching, Complete, Unspoken, Authenticates, Fetches, In
  <2>2. strays = 0 => caps'.on = Phase
    <3>1. strays = 0 => InStepWith("listing")
      BY <1>1, <2>1 DEF StepWhileKept, StepInv, Awaited, Answers
    <3>2. QED
      BY <1>1, <2>1, <3>1, ListedInForce
  <2>3. QED
    BY <1>1, <2>1, <2>2 DEF SetsInv, SetsInForce
<1>5. \/ UNCHANGED caps
      \/ ReplyAccepted /\ call = "greeting"
      \/ CapabilityDone /\ (Authenticates \/ Fetches)
  <2>1. CASE ReplyReadsMore \/ ReplyFails \/ ReplyInjected \/ ReplyRejected \/ ReplyAccepted
    BY <2>1 DEF ReplyReadsMore, ReplyFails, ReplyInjected, ReplyRejected, ReplyAccepted, authVars
  <2>2. CASE (Authenticates \/ Fetches) /\ AuthResume /\ ~CapabilityDone
    BY <2>2 DEF AuthResume, ReadsMore, ReadsError, AnswerPending, AnswerChallenge, CancelExchange,
                CompletionRefused, CompletionAccepted, FetchCapabilities, AbortReadsMore, AbortEnds,
                CapabilityReadsMore, CapabilityFails, CapabilityRejected, authVars
  <2>3. QED
    BY <2>1, <2>2, FetchesIsAuthResume DEF Resume, Authenticates
<1>6. QED
  BY <1>2, <1>3, <1>4, <1>5

\* What a call returned stays in force until the next is made: the server was
\* left nothing to act on.
LEMMA PeerSets ==
  ASSUME TypeOK, KeptInv, StepWhileKept, SetsInv, Peer, [Next]_vars
  PROVE  SetsInv'
<1>1. /\ PartsTypeOK
      /\ UNCHANGED << out, result, caps, fresh, sock >>
      /\ Reply \/ Disturb \/ NoHandshake
  BY PartsOfTypeOK DEF Peer, Reply, NoHandshake, Disturb, coroutineVars, wireVars, authVars, callVars
<1>2. ASSUME out = "Complete", result = "ok", ~fresh, strays' = 0
      PROVE  strays = 0 /\ Phase' = Phase
  <2>1. strays = 0 /\ StepInv
    BY <1>2, StraysStay DEF StepWhileKept
  <2>2. \A w \in Answers : w = Awaited => InStepWith(w)
    BY <1>2, <2>1 DEF StepInv, Unspoken
  <2>3. st # "closed" => inbox = <<>>
    BY <1>2, <2>2, AwaitedIsAnswer DEF InStepWith, Unframed, Rests
  <2>4. UNCHANGED authed
    BY <1>1, <2>3 DEF Reply, Disturb, NoHandshake, Greet, ServerAnswer, GiveUp, Stray, AnswerStartTls,
                      AnswerCapability, AnswerSasl, AnswerNo
  <2>5. QED
    BY <1>1, <2>1, <2>4 DEF Phase
<1>3. QED
  BY <1>1, <1>2 DEF SetsInv, SetsInForce

LEMMA NextSets ==
  ASSUME TypeOK, KeptInv, StepWhileKept, SetsInv, [Next]_vars
  PROVE  SetsInv'
<1>1. CASE Caller
  <2>1. CASE Upgrades
    BY <2>1 DEF Upgrades, SetsInv, SetsInForce
  <2>2. CASE ~Upgrades
    BY <1>1, <2>2 DEF Caller, CallGreeting, CallStartTls, CallCapability, CallAuthenticate, Calling,
                      EmptySet, SetsInv, SetsInForce
  <2>3. QED
    BY <2>1, <2>2
<1>2. CASE Pump
  <2>1. out \in Yields /\ out' # "Complete" /\ UNCHANGED << caps, fresh >>
    BY <1>2 DEF Pump, PumpRead, PumpEof, PumpWrite, PumpFail, authVars, callVars, Yields
  <2>2. QED
    BY <2>1 DEF SetsInv, SetsInForce, Yields
<1>3. CASE UNCHANGED vars
  BY <1>3 DEF vars, exchangeVars, coroutineVars, wireVars, serverVars, authVars, callVars, SetsInv,
              SetsInForce, Phase
<1>4. QED
  BY <1>1, <1>2, <1>3, ResumeSets, PeerSets DEF Next, Finished

\* With a server that keeps the protocol, the capability set a call returns is
\* the one in force when it returns and until the next call: not the one sent
\* before the upgrade, nor the one sent before an exchange the server took for
\* a success.
THEOREM HandshakeSetsInForce == Spec => []SetsInForce
<1>1. Init => SetsInv
  BY DEF Init, AuthInit, SetsInv, SetsInForce
<1>2. TypeOK /\ KeptInv /\ StepWhileKept /\ SetsInv /\ [Next]_vars => SetsInv'
  BY NextSets
<1>3. SetsInv => SetsInForce
  BY DEF SetsInv
<1>4. QED
  BY <1>1, <1>2, <1>3, HandshakeTypeOK, HandshakeKeptInv, HandshakeStepInv, PTL DEF Spec
=============================================================================
