------------------------- MODULE AuthenticateProofs -------------------------
(***************************************************************************)
(* What one coroutine of an exchange, its pump and its server do to the    *)
(* types of their variables and, with a server that keeps the protocol,    *)
(* what is on the wire while a coroutine waits, writes or has returned.    *)
(* Shared by the proofs about an exchange on its own, within a session     *)
(* being opened and within a handshake by hand.                            *)
(***************************************************************************)
EXTENDS Authenticate, WireProofs

PartsTypeOK == ExchangeTypeOK /\ ServerTypeOK /\ AuthTypeOK

-----------------------------------------------------------------------------
(* Types of what the actions are built from.                               *)

LEMMA ReceivedType ==
  ASSUME PartsTypeOK
  PROVE  Received \in Seq(Unit)
BY ConcatProperties DEF PartsTypeOK, ExchangeTypeOK, Received

LEMMA WholeType ==
  ASSUME PartsTypeOK, NEW kind \in Kinds, NEW val \in Vals, NEW cut \in Cuts
  PROVE  Whole(kind, val, cut) \in Seq(Unit)
<1>1. Phase \in Phases
  BY DEF Phase, Phases
<1>2. [kind |-> kind, val |-> val, on |-> Phase, cut |-> cut] \in Line
  BY <1>1, ServerAssumption DEF Line
<1>3. QED
  BY <1>2, FrameType DEF Whole

LEMMA ListingType ==
  ASSUME PartsTypeOK, NEW offer, NEW cut \in Cuts
  PROVE  Listing(offer, cut) \in Seq(Unit)
<1>1. Whole("ok", "none", cut) \in Seq(Unit) /\ Whole("data", "STARTTLS", cut) \in Seq(Unit)
  BY WholeType DEF Kinds, Statuses, Vals
<1>2. QED
  BY <1>1, ConcatProperties, EmptySeq DEF Listing

\* What the server sends is a sequence of units behind what it sent before.
LEMMA SendType ==
  ASSUME PartsTypeOK, NEW units \in Seq(Unit), Send(units)
  PROVE  net' \in Seq(Unit)
BY ConcatProperties DEF PartsTypeOK, ExchangeTypeOK, Send

LEMMA TellsType ==
  ASSUME PartsTypeOK, NEW kind \in Kinds, NEW val \in Vals, Tells(kind, val)
  PROVE  net' \in Seq(Unit)
<1>1. PICK cut \in Cuts : Send(Whole(kind, val, cut))
  BY DEF Tells, CutsOf, Texts
<1>2. QED
  BY <1>1, WholeType, SendType

LEMMA ListsType ==
  ASSUME PartsTypeOK, Lists
  PROVE  net' \in Seq(Unit)
<1>1. PICK offer \in Offers, cut \in Cuts : Send(Listing(offer, cut))
  BY DEF Lists
<1>2. QED
  BY <1>1, ListingType, SendType

LEMMA ListedType ==
  ASSUME PartsTypeOK, HasResponse(Received)
  PROVE  Listed(Received) \in Capabilities
<1>1. Completion(Received) \in Line /\ Data(Received) \in SUBSET Vals
  BY ReceivedType, ResponseType
<1>2. Completion(Received).on \in Phases
  BY <1>1 DEF Line
<1>3. QED
  BY <1>1, <1>2 DEF Listed, Capabilities

LEMMA NoneType == None \in [some : BOOLEAN, data : Seq(Unit)]
BY EmptySeq DEF None

LEMMA NextPayloadType ==
  ASSUME PartsTypeOK, NEW v
  PROVE  NextPayload(opts.mech, v) \in Payloads
<1>1. turn \in {0, 1, 2}
  BY DEF PartsTypeOK, AuthTypeOK
<1>2. QED
  BY <1>1 DEF NextPayload, Payloads, Absent, Empty, Turns

LEMMA OptsType ==
  ASSUME PartsTypeOK
  PROVE  opts.mech \in Mechanisms
BY DEF PartsTypeOK, AuthTypeOK, Options
-----------------------------------------------------------------------------
(* What a resume returns, and what it leaves, in parts.                    *)

Returned ==
  /\ out \in Outs
  /\ result \in Results
  /\ msg \in Msg
  /\ arg \in [some : BOOLEAN, data : Seq(Unit)]

Buffered == buf \in Seq(Unit) /\ dropped \in BOOLEAN

LEMMA YieldReturned ==
  ASSUME PartsTypeOK, NEW y \in Yields, Yield(y)
  PROVE  Returned'
BY NoneType DEF Yield, Returned, PartsTypeOK, ExchangeTypeOK, Outs

LEMMA WantsWriteReturned ==
  ASSUME PartsTypeOK, NEW m \in Msg, WantsWrite(m)
  PROVE  Returned'
BY NoneType DEF WantsWrite, Returned, PartsTypeOK, ExchangeTypeOK, Outs, Yields

LEMMA CompleteReturned ==
  ASSUME PartsTypeOK, NEW r \in Results, Complete(r)
  PROVE  Returned'
BY NoneType DEF Complete, Returned, PartsTypeOK, ExchangeTypeOK, Outs

LEMMA NewBufferBuffered ==
  ASSUME PartsTypeOK, NEW left, NewBuffer(left)
  PROVE  Buffered'
BY EmptySeq DEF NewBuffer, Buffered

LEMMA CommandType ==
  ASSUME NEW c \in Cmds
  PROVE  Command(c) \in Msg
BY DEF Command, Msg, Payloads

\* ResponseRead, while it has no response to return.
LEMMA ReadMoreTypes ==
  ASSUME PartsTypeOK, ReadMore
  PROVE  Returned' /\ Buffered'
<1>1. Returned'
  BY YieldReturned DEF ReadMore, Yields
<1>2. QED
  BY <1>1, ReceivedType DEF ReadMore, Buffered, PartsTypeOK, ExchangeTypeOK

LEMMA ReadFailTypes ==
  ASSUME PartsTypeOK, ReadFail
  PROVE  Returned' /\ Buffered'
<1>1. Reading \in Results
  BY DEF ReadFail, Results, Failures
<1>2. Returned'
  BY <1>1, CompleteReturned DEF ReadFail
<1>3. QED
  BY <1>2, ReceivedType DEF ReadFail, Buffered, PartsTypeOK, ExchangeTypeOK

LEMMA ReadingResponse ==
  ASSUME Reading = "response"
  PROVE  HasResponse(Received)
BY DEF Reading
-----------------------------------------------------------------------------
(* The server and the pump.                                                *)

\* The server's steps change what it sends, takes and waits for.
LEMMA ServerStepTypes ==
  ASSUME PartsTypeOK, Greet \/ ServerAnswer \/ GiveUp \/ Stray
  PROVE  net' \in Seq(Unit) /\ inbox' \in Seq(Msg) /\ ServerTypeOK'
<1> USE DEF Statuses
<1> USE DEF PartsTypeOK, ExchangeTypeOK, ServerTypeOK
<1>2. ASSUME Refuse PROVE net' \in Seq(Unit) /\ st' \in ServerStates
  BY <1>2, TellsType DEF Refuse, ServerStates, Kinds, Vals
<1>3. CASE Greet
  <2>1. net' \in Seq(Unit) /\ st' \in ServerStates
    BY <1>2, <1>3, ListsType DEF Greet, ServerStates
  <2>2. QED
    BY <1>3, <2>1 DEF Greet
<1>4. CASE ServerAnswer
  <2>1. inbox' \in Seq(Msg)
    BY <1>4, HeadTailProperties DEF ServerAnswer
  <2>2. strays' \in 0..MaxStray
    BY <1>4 DEF ServerAnswer
  <2>3. net' \in Seq(Unit) /\ st' \in ServerStates /\ asked' \in 0..MaxChallenges /\ authed' \in BOOLEAN
    <3>1. CASE AnswerStartTls(Head(inbox))
      <4>1. net' \in Seq(Unit) /\ st' \in ServerStates
        BY <1>2, <3>1, TellsType DEF AnswerStartTls, ServerStates, Kinds, Vals
      <4>2. QED
        BY <3>1, <4>1 DEF AnswerStartTls
    <3>2. CASE AnswerCapability(Head(inbox))
      <4>1. net' \in Seq(Unit) /\ st' \in ServerStates
        BY <1>2, <3>2, ListsType DEF AnswerCapability
      <4>2. QED
        BY <3>2, <4>1 DEF AnswerCapability
    <3>3. CASE AnswerSasl(Head(inbox))
      <4>1. \A val \in Proofs \cup {"none"} : val \in Vals
        BY ServerAssumption DEF Vals
      <4>2. net' \in Seq(Unit) /\ st' \in ServerStates
        BY <1>2, <3>3, <4>1, TellsType DEF AnswerSasl, ServerStates, Kinds
      <4>3. asked' \in 0..MaxChallenges
        <5>1. asked' = asked \/ (asked < MaxChallenges /\ asked' = asked + 1)
          BY <3>3 DEF AnswerSasl
        <5>2. QED
          BY <5>1, ServerAssumption
      <4>4. authed' \in BOOLEAN
        BY <3>3 DEF AnswerSasl
      <4>5. QED
        BY <4>2, <4>3, <4>4
    <3>4. CASE AnswerNo(Head(inbox))
      <4>1. net' \in Seq(Unit) /\ st' \in ServerStates
        BY <3>4, TellsType DEF AnswerNo, ServerStates, Kinds, Vals
      <4>2. QED
        BY <3>4, <4>1 DEF AnswerNo
    <3>5. QED
      BY <1>4, <3>1, <3>2, <3>3, <3>4 DEF ServerAnswer
  <2>4. QED
    BY <2>1, <2>2, <2>3
<1>5. CASE GiveUp
  <2>1. net' \in Seq(Unit) /\ st' \in ServerStates
    BY <1>5, TellsType DEF GiveUp, ServerStates, Kinds, Vals
  <2>2. QED
    BY <1>5, <2>1 DEF GiveUp
<1>6. CASE Stray
  <2>1. ASSUME NEW kind \in Kinds, Tells(kind, IF kind = "data" THEN "plain" ELSE "none")
        PROVE  net' \in Seq(Unit)
    BY <2>1, TellsType DEF Vals
  <2>2. ASSUME NEW cut \in Cuts PROVE SubSeq(Whole("data", "plain", cut), 1, 1) \in Seq(Unit)
    <3>1. Whole("data", "plain", cut) \in Seq(Unit) /\ Len(Whole("data", "plain", cut)) = 2
      BY WholeType DEF Kinds, Vals, Whole, Frame
    <3>2. \A i \in 1..1 : Whole("data", "plain", cut)[i] \in Unit
      BY <3>1, ElementOfSeq
    <3>3. QED
      BY <3>2, SubSeqProperties
  <2>3. net' \in Seq(Unit)
    BY <1>6, <2>1, <2>2, SendType DEF Stray
  <2>4. strays' \in 0..MaxStray
    <3>1. strays < MaxStray /\ strays' = strays + 1
      BY <1>6 DEF Stray
    <3>2. QED
      BY <3>1, ServerAssumption
  <2>5. QED
    BY <1>6, <2>3, <2>4 DEF Stray
<1>7. QED
  BY <1>3, <1>4, <1>5, <1>6

LEMMA PeerPartsTypeOK ==
  ASSUME PartsTypeOK, Reply \/ Disturb, UNCHANGED authVars
  PROVE  PartsTypeOK'
<1>1. net' \in Seq(Unit) /\ inbox' \in Seq(Msg) /\ ServerTypeOK'
  BY ServerStepTypes DEF Reply, Disturb
<1>2. UNCHANGED << coroutineVars, sock, sent, authVars >>
  BY DEF Reply, Disturb
<1>3. QED
  BY <1>1, <1>2 DEF PartsTypeOK, ExchangeTypeOK, AuthTypeOK, coroutineVars, authVars

\* The pump's steps on an open connection.
LEMMA PumpIoTypes ==
  ASSUME PartsTypeOK, PumpRead \/ PumpEof(st = "closed") \/ PumpWrite \/ PumpFail
  PROVE  ExchangeTypeOK'
<1> USE DEF PartsTypeOK, ExchangeTypeOK
<1>1. UNCHANGED << result, msg, buf, dropped >>
  BY DEF PumpRead, PumpEof, PumpWrite, PumpFail, wireVars
<1>3. CASE PumpRead
  <2>1. PICK n \in 1..Len(net) : arg' = Some(SubSeq(net, 1, n)) /\ net' = SubSeq(net, n + 1, Len(net))
    BY <1>3 DEF PumpRead
  <2>2. SubSeq(net, 1, n) \in Seq(Unit) /\ net' \in Seq(Unit)
    <3>1. \A i \in 1..n : net[i] \in Unit
      BY LenProperties, ElementOfSeq
    <3>2. QED
      BY <2>1, <3>1, SubSeqProperties, SuffixType
  <2>3. arg' \in [some : BOOLEAN, data : Seq(Unit)]
    BY <2>1, <2>2 DEF Some
  <2>4. QED
    BY <1>1, <1>3, <2>2, <2>3 DEF PumpRead, Outs
<1>4. CASE PumpEof(st = "closed")
  <2>1. arg' \in [some : BOOLEAN, data : Seq(Unit)]
    BY <1>4, EmptySeq DEF PumpEof, Eof, Some
  <2>2. QED
    BY <1>1, <1>4, <2>1 DEF PumpEof, Outs, wireVars
<1>5. CASE PumpWrite
  <2>1. [msg |-> msg, over |-> sock] \in [msg : Msg, over : Sockets]
    OBVIOUS
  <2>2. inbox' \in Seq(Msg) /\ sent' \in Seq([msg : Msg, over : Sockets])
    BY <1>5, <2>1, AppendProperties DEF PumpWrite
  <2>3. QED
    BY <1>1, <1>5, <2>2, NoneType DEF PumpWrite, Outs
<1>6. CASE PumpFail
  BY <1>1, <1>6 DEF PumpFail, Outs, wireVars
<1>7. QED
  BY <1>3, <1>4, <1>5, <1>6

\* What is written joins what was.
LEMMA WriteExtends ==
  ASSUME PartsTypeOK, PumpWrite
  PROVE  /\ DOMAIN sent' = DOMAIN sent \cup {Len(sent) + 1}
         /\ \A i \in DOMAIN sent : sent'[i] = sent[i]
         /\ sent'[Len(sent) + 1] = [msg |-> msg, over |-> sock]
<1>1. DOMAIN sent = 1..Len(sent) /\ Len(sent) \in Nat
  BY LenProperties DEF PartsTypeOK, ExchangeTypeOK
<1>2. DOMAIN sent' = 1..(Len(sent) + 1)
  BY LenProperties, AppendProperties DEF PumpWrite, PartsTypeOK, ExchangeTypeOK
<1>3. 1..(Len(sent) + 1) = 1..Len(sent) \cup {Len(sent) + 1}
  BY <1>1
<1>4. /\ \A i \in 1..Len(sent) : sent'[i] = sent[i]
      /\ sent'[Len(sent) + 1] = [msg |-> msg, over |-> sock]
  BY DEF PumpWrite, PartsTypeOK, ExchangeTypeOK
<1>5. QED
  BY <1>1, <1>2, <1>3, <1>4

-----------------------------------------------------------------------------
(* The exchange.                                                           *)

LEMMA StartTypes ==
  ASSUME PartsTypeOK, Start(opts)
  PROVE  /\ Returned'
         /\ auth' \in AuthStates /\ pending' \in Payloads /\ turn' \in {0, 1, 2}
         /\ proved' \in BOOLEAN /\ cause' \in {"none", "base64", "mechanism"}
<1> USE DEF PartsTypeOK, AuthTypeOK
<1>1. CASE UnsupportedMechanism(opts)
  BY <1>1, CompleteReturned DEF UnsupportedMechanism, Results, Failures
<1>2. CASE StartFails(opts)
  BY <1>2, CompleteReturned DEF StartFails, Results, Failures
<1>3. CASE StartWrites(opts)
  <2>1. FirstPayload(opts.mech) \in {Absent, 1}
    BY DEF FirstPayload
  <2>2. PICK p \in {Absent, 1} :
          WantsWrite([cmd |-> "AUTHENTICATE", mech |-> opts.mech, payload |-> p])
    BY <1>3, <2>1 DEF StartWrites
  <2>3. [cmd |-> "AUTHENTICATE", mech |-> opts.mech, payload |-> p] \in Msg
    BY <2>2, OptsType DEF Msg, Cmds, Payloads
  <2>4. Returned'
    BY <2>2, <2>3, WantsWriteReturned
  <2>5. pending' \in Payloads /\ turn' \in {0, 1, 2}
    BY <1>3, <2>1 DEF StartWrites, Payloads, Absent
  <2>6. QED
    BY <1>3, <2>4, <2>5 DEF StartWrites, AuthStates
<1>4. QED
  BY <1>1, <1>2, <1>3 DEF Start

LEMMA ChallengeLine ==
  ASSUME PartsTypeOK, Reads("challenge") \/ Reads("completion")
  PROVE  HasLine(Received) /\ FirstLine(Received) \in Line /\ AfterLine(Received) \in Seq(Unit)
<1>1. HasLine(Received)
  BY DEF Reads, LineReading
<1>2. QED
  BY <1>1, ReceivedType, FirstLineType

LEMMA TakeLineBuffered ==
  ASSUME PartsTypeOK, Reads("challenge") \/ Reads("completion"), TakeLine
  PROVE  Buffered'
BY ChallengeLine DEF TakeLine, Buffered, PartsTypeOK, ExchangeTypeOK

LEMMA RespondReturned ==
  ASSUME PartsTypeOK, NEW p \in Payloads, Respond(p)
  PROVE  Returned'
<1>1. [cmd |-> "RESPONSE", mech |-> opts.mech, payload |-> p] \in Msg
  BY OptsType DEF Msg, Cmds
<1>2. QED
  BY <1>1, WantsWriteReturned DEF Respond

LEMMA AdvanceTypes ==
  ASSUME PartsTypeOK, NEW v, Advance(v)
  PROVE  turn' \in {0, 1, 2} /\ proved' \in BOOLEAN
BY DEF Advance, PartsTypeOK, AuthTypeOK

LEMMA AcceptsTypes ==
  ASSUME PartsTypeOK, Accepts
  PROVE  turn' \in {0, 1, 2} /\ proved' \in BOOLEAN /\ UNCHANGED << opts, pending, cause >>
BY AdvanceTypes DEF Accepts, PartsTypeOK, AuthTypeOK

\* Every way a resume of the exchange can go.
LEMMA AuthResumeTypes ==
  ASSUME PartsTypeOK, AuthResume
  PROVE  Returned' /\ Buffered' /\ AuthTypeOK'
<1> USE DEF PartsTypeOK, AuthTypeOK
<1>1. CASE ReadsMore
  <2>1. Returned' /\ Buffered'
    BY <1>1, YieldReturned, ReceivedType DEF ReadsMore, Yields, Buffered, ExchangeTypeOK
  <2>2. QED
    BY <1>1, <2>1 DEF ReadsMore, authVars
<1>2. CASE ReadsError
  <2>1. LineReading \in Results
    BY <1>2 DEF ReadsError, Reads, Results, Failures
  <2>2. Returned' /\ Buffered'
    BY <1>2, <2>1, CompleteReturned, ReceivedType DEF ReadsError, Buffered, ExchangeTypeOK
  <2>3. QED
    BY <1>2, <2>2 DEF ReadsError, authVars
<1>3. CASE AnswerPending
  <2>1. Returned' /\ Buffered'
    BY <1>3, RespondReturned, TakeLineBuffered DEF AnswerPending
  <2>2. QED
    BY <1>3, <2>1 DEF AnswerPending, Payloads
<1>4. CASE AnswerChallenge
  <2> DEFINE val == FirstLine(Received).val
  <2>1. Returned' /\ Buffered'
    BY <1>4, NextPayloadType, RespondReturned, TakeLineBuffered DEF AnswerChallenge
  <2>2. turn' \in {0, 1, 2} /\ proved' \in BOOLEAN
    BY <1>4, AdvanceTypes DEF AnswerChallenge
  <2>3. QED
    BY <1>4, <2>1, <2>2 DEF AnswerChallenge
<1>5. CASE CancelExchange
  <2>1. Returned' /\ Buffered'
    BY <1>5, CommandType, WantsWriteReturned, TakeLineBuffered DEF CancelExchange, Cmds
  <2>2. QED
    BY <1>5, <2>1 DEF CancelExchange, AuthStates
<1>6. CASE CompletionRefused
  <2>1. Refused \in Results
    BY DEF Refused, Results, Failures
  <2>2. Returned' /\ Buffered'
    BY <1>6, <2>1, CompleteReturned, TakeLineBuffered DEF CompletionRefused
  <2>3. QED
    BY <1>6, <2>2 DEF CompletionRefused, authVars
<1>7. CASE CompletionAccepted
  <2>1. Returned' /\ Buffered'
    BY <1>7, CompleteReturned, TakeLineBuffered DEF CompletionAccepted, Accepts, Results
  <2>2. QED
    BY <1>7, <2>1, AcceptsTypes DEF CompletionAccepted
<1>8. CASE FetchCapabilities
  <2>1. Returned' /\ Buffered'
    BY <1>8, CommandType, WantsWriteReturned, NewBufferBuffered DEF FetchCapabilities, Cmds
  <2>2. QED
    BY <1>8, <2>1, AcceptsTypes DEF FetchCapabilities, AuthStates
<1>9. CASE AbortReadsMore
  <2>1. Returned' /\ Buffered'
    BY <1>9, YieldReturned, ReceivedType, UnfinishedType
    DEF AbortReadsMore, Yields, Buffered, ExchangeTypeOK
  <2>2. QED
    BY <1>9, <2>1 DEF AbortReadsMore, authVars
<1>10. CASE AbortEnds
  <2>1. Returned'
    BY <1>10, CompleteReturned DEF AbortEnds, Results, Failures
  <2>2. Buffered'
    BY <1>10, ReceivedType, ResponseType, UnfinishedType DEF AbortEnds, Buffered, ExchangeTypeOK
  <2>3. QED
    BY <1>10, <2>1, <2>2 DEF AbortEnds, authVars
<1>11. CASE CapabilityReadsMore
  BY <1>11, ReadMoreTypes DEF CapabilityReadsMore, authVars
<1>12. CASE CapabilityFails
  BY <1>12, ReadFailTypes DEF CapabilityFails, authVars
<1>13. CASE CapabilityRejected
  <2>1. Returned' /\ Buffered'
    BY <1>13, CompleteReturned, NewBufferBuffered DEF CapabilityRejected, Results, Failures
  <2>2. QED
    BY <1>13, <2>1 DEF CapabilityRejected, authVars
<1>14. CASE CapabilityDone
  <2>1. Returned' /\ Buffered'
    BY <1>14, CompleteReturned, NewBufferBuffered DEF CapabilityDone, Results
  <2>2. caps' \in Capabilities
    BY <1>14, ReadingResponse, ListedType DEF CapabilityDone
  <2>3. QED
    BY <1>14, <2>1, <2>2 DEF CapabilityDone
<1>15. QED
  BY <1>1, <1>2, <1>3, <1>4, <1>5, <1>6, <1>7, <1>8, <1>9, <1>10, <1>11, <1>12, <1>13, <1>14
  DEF AuthResume

-----------------------------------------------------------------------------
(* What is on the connection once it is protected.                         *)

\* Units of lines that were not sent in the clear.
Secured == {u \in Unit : u.of.on # "clear"}

\* All that was sent and is not acted on is among them.
AllSecured == buf \in Seq(Secured) /\ arg.data \in Seq(Secured) /\ net \in Seq(Secured)

LEMMA SecuredAreUnits == Secured \in SUBSET Unit
BY DEF Secured

LEMMA CompletionSecured ==
  ASSUME NEW b \in Seq(Secured), HasResponse(b)
  PROVE  Completion(b).on # "clear"
<1>1. b \in Seq(Unit)
  BY SecuredAreUnits, SeqMonotonic
<1>2. FirstOf(Stops(b)) \in DOMAIN b
  BY <1>1, EndsInDomain, FirstOfIsLeast DEF HasResponse
<1> DEFINE i == FirstOf(Stops(b))
<1>3. b[i] \in Secured
  BY <1>2, ElementOfSeq, LenProperties
<1>4. b[i].of \in Line /\ b[i].of.on # "clear"
  BY <1>3 DEF Secured, Unit
<1>5. \A k, v : [b[i].of EXCEPT !.kind = k, !.val = v].on = b[i].of.on
  BY <1>4 DEF Line
<1>6. QED
  BY <1>4, <1>5 DEF Completion, LineAt

LEMMA ReceivedSecured ==
  ASSUME AllSecured
  PROVE  Received \in Seq(Secured)
BY ConcatProperties DEF AllSecured, Received

\* What a server says on a protected connection.
LEMMA WholeSecured ==
  ASSUME PartsTypeOK, Phase # "clear", NEW kind \in Kinds, NEW val \in Vals, NEW cut \in Cuts
  PROVE  /\ Whole(kind, val, cut) \in Seq(Secured)
         /\ SubSeq(Whole(kind, val, cut), 1, 1) \in Seq(Secured)
<1> DEFINE line == [kind |-> kind, val |-> val, on |-> Phase, cut |-> cut]
<1>1. line \in Line /\ line.on # "clear"
  BY ServerAssumption DEF Line, Phase, Phases
<1>2. [of |-> line, last |-> FALSE] \in Secured /\ [of |-> line, last |-> TRUE] \in Secured
  BY <1>1 DEF Secured, Unit
<1>3. Whole(kind, val, cut) \in Seq(Secured) /\ Len(Whole(kind, val, cut)) = 2
  BY <1>2 DEF Whole, Frame
<1>4. \A i \in 1..1 : Whole(kind, val, cut)[i] \in Secured
  BY <1>3, ElementOfSeq
<1>5. QED
  BY <1>3, <1>4, SubSeqProperties

LEMMA PeerSecured ==
  ASSUME PartsTypeOK, AllSecured, sock # "tcp", Reply \/ Disturb
  PROVE  AllSecured'
<1>1. Phase # "clear"
  BY DEF Phase
<1>2. ASSUME NEW units \in Seq(Secured), Send(units)
      PROVE  net' \in Seq(Secured)
  BY <1>2, ConcatProperties DEF Send, AllSecured
<1>3. /\ \A kind \in Kinds, val \in Vals : Tells(kind, val) => net' \in Seq(Secured)
      /\ \A cut \in Cuts : Send(SubSeq(Whole("data", "plain", cut), 1, 1)) => net' \in Seq(Secured)
  <2>1. ASSUME NEW kind \in Kinds, NEW val \in Vals, Tells(kind, val)
        PROVE  net' \in Seq(Secured)
    <3>1. PICK cut \in Cuts : Send(Whole(kind, val, cut))
      BY <2>1 DEF Tells, CutsOf, Texts
    <3>2. QED
      BY <1>1, <1>2, <3>1, WholeSecured
  <2>2. ASSUME NEW cut \in Cuts, Send(SubSeq(Whole("data", "plain", cut), 1, 1))
        PROVE  net' \in Seq(Secured)
    BY <1>1, <1>2, <2>2, WholeSecured DEF Kinds, Vals
  <2>3. QED
    BY <2>1, <2>2
<1>4. Lists => net' \in Seq(Secured)
  <2>1. ASSUME NEW offer, NEW cut \in Cuts PROVE Listing(offer, cut) \in Seq(Secured)
    <3>1. /\ Whole("ok", "none", cut) \in Seq(Secured)
          /\ Whole("data", "STARTTLS", cut) \in Seq(Secured)
      BY <1>1, WholeSecured DEF Kinds, Statuses, Vals
    <3>2. QED
      BY <3>1, ConcatProperties, EmptySeq DEF Listing
  <2>2. QED
    BY <1>2, <2>1 DEF Lists
<1>5. Refuse => net' \in Seq(Secured)
  BY <1>3 DEF Refuse, Kinds, Statuses, Vals
<1>6. Proofs \cup {"none"} \subseteq Vals
  BY ServerAssumption DEF Vals
<1>7. ASSUME Greet PROVE net' \in Seq(Secured)
  BY <1>4, <1>5, <1>7 DEF Greet
<1>8. ASSUME ServerAnswer PROVE net' \in Seq(Secured)
  <2>1. AnswerStartTls(Head(inbox)) \/ AnswerNo(Head(inbox)) => net' \in Seq(Secured)
    BY <1>3, <1>5 DEF AnswerStartTls, AnswerNo, Kinds, Statuses, Vals
  <2>2. AnswerCapability(Head(inbox)) => net' \in Seq(Secured)
    BY <1>4, <1>5 DEF AnswerCapability
  <2>3. AnswerSasl(Head(inbox)) => net' \in Seq(Secured)
    BY <1>3, <1>5, <1>6 DEF AnswerSasl, Kinds, Statuses
  <2>4. QED
    BY <1>8, <2>1, <2>2, <2>3 DEF ServerAnswer
<1>9. ASSUME GiveUp PROVE net' \in Seq(Secured)
  BY <1>3, <1>9 DEF GiveUp, AllSecured, Kinds, Statuses, Vals
<1>10. ASSUME Stray PROVE net' \in Seq(Secured)
  BY <1>3, <1>10 DEF Stray, Kinds, Statuses, Vals
<1>11. net' \in Seq(Secured) /\ UNCHANGED << buf, arg >>
  BY <1>7, <1>8, <1>9, <1>10 DEF Reply, Disturb, coroutineVars
<1>12. QED
  BY <1>11 DEF AllSecured

LEMMA PumpSecured ==
  ASSUME PartsTypeOK, AllSecured, PumpRead \/ PumpEof(st = "closed") \/ PumpWrite \/ PumpFail
  PROVE  AllSecured'
<1>1. <<>> \in Seq(Secured)
  BY EmptySeq
<1>2. CASE PumpRead
  <2>1. PICK n \in 1..Len(net) : arg' = Some(SubSeq(net, 1, n)) /\ net' = SubSeq(net, n + 1, Len(net))
    BY <1>2 DEF PumpRead
  <2>2. net \in Seq(Secured) /\ n \in Nat /\ n \in 0..Len(net) /\ Len(net) \in Nat
    BY LenProperties DEF AllSecured
  <2>3. \A i \in 1..n : net[i] \in Secured
    BY <2>2, ElementOfSeq, LenProperties
  <2>4. SubSeq(net, 1, n) \in Seq(Secured) /\ SubSeq(net, n + 1, Len(net)) \in Seq(Secured)
    BY <2>2, <2>3, SubSeqProperties, SuffixIn
  <2>5. arg'.data \in Seq(Secured) /\ net' \in Seq(Secured)
    BY <2>1, <2>4 DEF Some
  <2>6. QED
    BY <1>2, <2>5 DEF AllSecured, PumpRead
<1>3. CASE PumpEof(st = "closed") \/ PumpWrite
  <2>1. arg'.data = <<>> /\ UNCHANGED << buf, net >>
    BY <1>3 DEF PumpEof, PumpWrite, Eof, Some, None, wireVars
  <2>2. QED
    BY <1>1, <2>1 DEF AllSecured
<1>4. CASE PumpFail
  BY <1>4 DEF PumpFail, AllSecured, wireVars
<1>5. QED
  BY <1>2, <1>3, <1>4

\* What an exchange keeps, and the list it may end with.
LEMMA AuthResumeSecured ==
  ASSUME PartsTypeOK, AllSecured, AuthResume, UNCHANGED net
  PROVE  /\ AllSecured'
         /\ caps' = caps \/ caps'.on # "clear"
<1>1. Received \in Seq(Secured) /\ <<>> \in Seq(Secured) /\ net' \in Seq(Secured)
  BY ReceivedSecured, EmptySeq DEF AllSecured
<1>2. /\ HasLine(Received) => AfterLine(Received) \in Seq(Secured)
      /\ HasResponse(Received) => Trailing(Received) \in Seq(Secured)
      /\ Unfinished(Received) \in Seq(Secured)
  BY <1>1, SecuredAreUnits, LeftIn
<1>3. arg' = None
  BY DEF AuthResume, ReadsMore, ReadsError, AnswerPending, AnswerChallenge, CancelExchange,
         CompletionRefused, CompletionAccepted, FetchCapabilities, AbortReadsMore, AbortEnds,
         CapabilityReadsMore, CapabilityFails, CapabilityRejected, CapabilityDone,
         ReadMore, ReadFail, Respond, WantsWrite, Yield, Complete
<1>4. buf' \in Seq(Secured)
  <2>1. CASE ReadsMore \/ ReadsError
    BY <1>1, <2>1 DEF ReadsMore, ReadsError
  <2>2. CASE AnswerPending \/ AnswerChallenge \/ CancelExchange \/ CompletionRefused \/ CompletionAccepted
    <3>1. (Reads("challenge") \/ Reads("completion")) /\ TakeLine
      BY <2>2 DEF AnswerPending, AnswerChallenge, CancelExchange, CompletionRefused,
                  CompletionAccepted, Accepts
    <3>2. QED
      BY <1>2, <3>1, ChallengeLine DEF TakeLine
  <2>3. CASE FetchCapabilities
    BY <1>1, <2>3 DEF FetchCapabilities, NewBuffer
  <2>4. CASE AbortReadsMore \/ AbortEnds
    BY <1>2, <2>4 DEF AbortReadsMore, AbortEnds
  <2>5. CASE CapabilityReadsMore \/ CapabilityFails
    BY <1>1, <2>5 DEF CapabilityReadsMore, CapabilityFails, ReadMore, ReadFail
  <2>6. CASE CapabilityRejected \/ CapabilityDone
    BY <1>1, <2>6 DEF CapabilityRejected, CapabilityDone, NewBuffer
  <2>7. QED
    BY <2>1, <2>2, <2>3, <2>4, <2>5, <2>6 DEF AuthResume
<1>5. AllSecured'
  BY <1>1, <1>3, <1>4 DEF AllSecured, None
<1>6. caps' = caps \/ caps'.on # "clear"
  <2>1. CASE CapabilityDone
    BY <1>1, <2>1, ReadingResponse, CompletionSecured DEF CapabilityDone, Listed
  <2>2. CASE ~CapabilityDone
    BY <2>2 DEF AuthResume, ReadsMore, ReadsError, AnswerPending, AnswerChallenge, CancelExchange,
         CompletionRefused, CompletionAccepted, FetchCapabilities, AbortReadsMore, AbortEnds,
         CapabilityReadsMore, CapabilityFails, CapabilityRejected, authVars
  <2>3. QED
    BY <2>1, <2>2
<1>7. QED
  BY <1>5, <1>6

-----------------------------------------------------------------------------
(* In step: a client and a server that keeps the protocol.                 *)

\* All that was sent and is not acted on: what the client holds, what it is
\* handed, and what it can still read.
Stream == Then(Received, net)

\* What a server says when it hangs up: the units of a BYE without a code,
\* the text of which is a string on one line.
Byes == {u \in Unit : u.of.kind = "bye" /\ u.of.val = "none" /\ u.of.cut.kind \in {"bad", "data"}}

\* What a message is answered with, and where the server must stand for that.
For(m) ==
  CASE m.cmd = "STARTTLS"   -> "starttls"
    [] m.cmd = "CAPABILITY" -> "listing"
    [] m.cmd = "CANCEL"     -> "cancel"
    [] OTHER                -> "sasl"
Answers == {"greeting", "starttls", "listing", "sasl", "cancel"}
Needs(m) == IF m.cmd \in {"RESPONSE", "CANCEL"} THEN "exchange" ELSE "idle"

Stands(s) == st \in {s, "closed"}

\* The units r answer w, and the server stands where it does after that.
Refusal(line) == line.kind = "no" /\ Stands("idle")
SaslAnswer(line) ==
  \/ line.kind = "data" /\ Stands("exchange")
  \/ line.kind = "ok" /\ authed /\ Stands("idle")
ListingOf(line, r) ==
  \/ r = Frame(line)
  \/ \E data \in Line : data.kind = "data" /\ r = Then(Frame(data), Frame(line))
IsAnswer(w, r) ==
  \E line \in Line :
    \/ r = Frame(line) /\ Refusal(line)
    \/ w = "sasl" /\ r = Frame(line) /\ SaslAnswer(line)
    \/ w = "starttls" /\ r = Frame(line) /\ line.kind = "ok" /\ Stands("handshake")
    \/ /\ w \in {"greeting", "listing"} /\ ListingOf(line, r)
       /\ line.kind = "ok" /\ line.on = Phase /\ Stands("idle")

\* The answer to w is still to come.
Owed(w) ==
  IF w = "greeting" THEN inbox = <<>> /\ st = "greet"
  ELSE \E m \in Msg : inbox = << m >> /\ st = Needs(m) /\ For(m) = w

\* The client waits for the answer to w: it is owed, or it is on the wire
\* with at most a farewell behind it.
WaitsWith(w, z) ==
  /\ z \in Seq(Byes) /\ (st # "closed" => z = <<>>)
  /\ \/ Stream = z /\ (st # "closed" => Owed(w))
     \/ inbox = <<>> /\ \E r \in Seq(Unit) : IsAnswer(w, r) /\ Stream = Then(r, z)
Waits(w) == \E z : WaitsWith(w, z)

\* Nothing is under way and the server stands at s, unless it hung up.
Rests(s) == st # "closed" => Stream = <<>> /\ inbox = <<>> /\ st = s

Unframed == {"eof", "parse", "toolarge"}
RestsAfter(w) == IF w = "starttls" /\ result = "ok" THEN "handshake" ELSE "idle"

\* A coroutine that has written, or is about to, what w answers.
InStepWith(w) ==
  /\ st # "closed" => ~dropped
  /\ out = "WantsWrite" => Stream \in Seq(Byes) /\ Rests(Needs(msg)) /\ For(msg) = w
  /\ out \in {"Run", "WantsRead"} => Waits(w)
  /\ out = "Complete" /\ result \notin Unframed => net \in Seq(Byes) /\ Rests(RestsAfter(w))

\* The end of the stream comes after all of it.
ArgInv ==
  /\ arg.some /\ arg.data = <<>> => st = "closed" /\ net = <<>>
  /\ out # "Run" => arg.data = <<>>

\* An exchange under way.
ExchangeInStep ==
  /\ auth = "Read" => InStepWith("sasl")
  /\ auth = "Abort" => InStepWith("cancel")
  /\ auth = "Capability" => InStepWith("listing")

-----------------------------------------------------------------------------
(* Farewells.                                                              *)

LEMMA ByesAreUnits ==
  ASSUME NEW z \in Seq(Byes)
  PROVE  z \in Seq(Unit)
BY SeqMonotonic DEF Byes

\* No line of a farewell, whole or not, is anything but a BYE, a string or
\* unreadable.
LEMMA ByesLine ==
  ASSUME NEW z \in Seq(Byes), NEW i \in DOMAIN z
  PROVE  LineAt(z, i).kind \in {"bye", "bad", "data"}
<1>1. \A j \in DOMAIN z : z[j] \in Byes
  BY ElementOfSeq, LenProperties
<1>2. \A j \in DOMAIN z :
        z[j].of \in Line /\ z[j].of.kind = "bye" /\ z[j].of.cut.kind \in {"bad", "data"}
  BY <1>1 DEF Byes, Unit
<1>3. CASE Fragments(z, i) = {}
  BY <1>2, <1>3 DEF LineAt
<1>4. CASE Fragments(z, i) # {}
  <2> DEFINE j == FirstOf(Fragments(z, i))
  <2>1. j \in DOMAIN z
    BY <1>4, FragmentsInDomain, FirstOfIsLeast
  <2>2. [z[i].of EXCEPT !.kind = z[j].of.cut.kind, !.val = z[j].of.cut.val].kind = z[j].of.cut.kind
    BY <1>2 DEF Line
  <2>3. QED
    BY <1>2, <1>4, <2>1, <2>2 DEF LineAt
<1>5. QED
  BY <1>3, <1>4

LEMMA ByesRead ==
  ASSUME NEW b \in Seq(Unit), NEW n \in Seq(Unit), Then(b, n) \in Seq(Byes)
  PROVE  /\ HasLine(b) => /\ FirstLine(b).kind \in {"bye", "bad", "data"}
                          /\ Then(AfterLine(b), n) \in Seq(Byes)
         /\ HasResponse(b) => /\ Completion(b).kind \in {"bye", "bad"}
                              /\ Then(Trailing(b), n) \in Seq(Byes)
         /\ Then(Unfinished(b), n) \in Seq(Byes)
         /\ n \in Seq(Byes)
<1>1. b \in Seq(Byes) /\ n \in Seq(Byes)
  BY ThenParts
<1>2. ASSUME NEW i \in Nat PROVE Then(SubSeq(b, i + 1, Len(b)), n) \in Seq(Byes)
  BY <1>1, <1>2, SuffixIn, ConcatProperties DEF Then
<1>3. HasLine(b) => /\ FirstOf(Ends(b)) \in DOMAIN b /\ FirstOf(Ends(b)) \in Nat
  BY EndsInDomain, FirstOfIsLeast DEF HasLine
<1>4. HasResponse(b) => /\ FirstOf(Stops(b)) \in DOMAIN b /\ FirstOf(Stops(b)) \in Nat
                        /\ FirstOf(Stops(b)) \in Stops(b)
  BY EndsInDomain, FirstOfIsLeast DEF HasResponse
<1>5. HasLine(b) => FirstLine(b).kind \in {"bye", "bad", "data"}
  BY <1>1, <1>3, ByesLine DEF FirstLine
<1>6. HasResponse(b) => Completion(b).kind \in {"bye", "bad"}
  <2>1. HasResponse(b) => Completion(b).kind # "data"
    BY <1>4 DEF Completion, Stops
  <2>2. QED
    BY <1>1, <1>4, <2>1, ByesLine DEF Completion
<1>7. HasLine(b) => Then(AfterLine(b), n) \in Seq(Byes)
  BY <1>2, <1>3 DEF AfterLine
<1>8. HasResponse(b) => Then(Trailing(b), n) \in Seq(Byes)
  BY <1>2, <1>4 DEF Trailing
<1>9. Then(Unfinished(b), n) \in Seq(Byes)
  <2> DEFINE past == {i \in 0..Len(b) : \A j \in Ends(b) : j <= i}
  <2>1. Len(b) \in past /\ past \in SUBSET Nat
    BY LenProperties DEF Ends
  <2>2. FirstOf(past) \in Nat
    BY <2>1, FirstOfIsLeast
  <2>3. QED
    BY <1>2, <2>2 DEF Unfinished
<1>10. QED
  BY <1>1, <1>5, <1>6, <1>7, <1>8, <1>9

-----------------------------------------------------------------------------
(* What the client reads while it waits.                                   *)

LEMMA StreamParts ==
  ASSUME PartsTypeOK
  PROVE  Received \in Seq(Unit) /\ net \in Seq(Unit) /\ buf \in Seq(Unit) /\ arg.data \in Seq(Unit)
BY ReceivedType DEF PartsTypeOK, ExchangeTypeOK

\* A first line that was read while an exchange waits is the answer to its
\* message, and nothing but a farewell is left; or it is no answer at all.
LEMMA SaslRead ==
  ASSUME PartsTypeOK, Waits("sasl"), HasLine(Received)
  PROVE  LET line == FirstLine(Received)
             rest == Then(AfterLine(Received), net)
         IN /\ rest \in Seq(Byes)
            /\ line.kind = "ok" => authed
            /\ st # "closed" => /\ rest = <<>> /\ inbox = <<>>
                                /\ st = IF line.kind = "data" THEN "exchange" ELSE "idle"
<1> DEFINE rest == Then(AfterLine(Received), net)
<1>1. Received \in Seq(Unit) /\ net \in Seq(Unit)
  BY StreamParts
<1>2. PICK z : WaitsWith("sasl", z)
  BY DEF Waits
<1>3. z \in Seq(Byes) /\ z \in Seq(Unit) /\ (st # "closed" => z = <<>>)
  BY <1>2, ByesAreUnits DEF WaitsWith
<1>4. CASE Stream = z
  <2>1. FirstLine(Received).kind \in {"bye", "bad", "data"} /\ rest \in Seq(Byes)
    BY <1>1, <1>3, <1>4, ByesRead DEF Stream
  <2>2. st # "closed" => Received = <<>>
    <3>1. \A b, n \in Seq(Unit) : Then(b, n) = <<>> => b = <<>>
      BY ThenIsNothing
    <3>2. QED
      BY <1>1, <1>3, <1>4, <3>1 DEF Stream
  <2>3. QED
    BY <2>1, <2>2, EmptyHasNoLine
<1>5. CASE inbox = <<>> /\ \E r \in Seq(Unit) : IsAnswer("sasl", r) /\ Stream = Then(r, z)
  <2>1. PICK line \in Line : Stream = Then(Frame(line), z) /\ (Refusal(line) \/ SaslAnswer(line))
    BY <1>5 DEF IsAnswer
  <2>2. FirstLine(Received) = line /\ rest = z
    <3>1. \A b, n \in Seq(Unit) :
            Then(b, n) = Then(Frame(line), z) /\ HasLine(b) => FirstLine(b) = line /\ Then(AfterLine(b), n) = z
      BY <1>3, LineRead
    <3>2. QED
      BY <1>1, <2>1, <3>1 DEF Stream
  <2>3. QED
    BY <1>3, <1>5, <2>1, <2>2 DEF Refusal, SaslAnswer, Stands
<1>6. QED
  BY <1>2, <1>4, <1>5 DEF WaitsWith

\* So is the first response, for the coroutines that wait for a whole one.
LEMMA AnswerRead ==
  ASSUME PartsTypeOK, NEW w \in Answers \ {"sasl"}, Waits(w), HasResponse(Received)
  PROVE  LET line == Completion(Received)
             rest == Then(Trailing(Received), net)
         IN /\ rest \in Seq(Byes)
            /\ line.kind = "ok" => w # "cancel" /\ (w # "starttls" => line.on = Phase)
            /\ st # "closed" => /\ rest = <<>> /\ inbox = <<>>
                                /\ st = IF w = "starttls" /\ line.kind = "ok" THEN "handshake" ELSE "idle"
<1> DEFINE rest == Then(Trailing(Received), net)
<1>1. Received \in Seq(Unit) /\ net \in Seq(Unit)
  BY StreamParts
<1>2. PICK z : WaitsWith(w, z)
  BY DEF Waits
<1>3. z \in Seq(Byes) /\ z \in Seq(Unit) /\ (st # "closed" => z = <<>>)
  BY <1>2, ByesAreUnits DEF WaitsWith
<1>4. CASE Stream = z
  <2>1. Completion(Received).kind \in {"bye", "bad"} /\ rest \in Seq(Byes)
    BY <1>1, <1>3, <1>4, ByesRead DEF Stream
  <2>2. st # "closed" => Received = <<>>
    <3>1. \A b, n \in Seq(Unit) : Then(b, n) = <<>> => b = <<>>
      BY ThenIsNothing
    <3>2. QED
      BY <1>1, <1>3, <1>4, <3>1 DEF Stream
  <2>3. QED
    BY <2>1, <2>2, EmptyHasNoLine
<1>5. ASSUME NEW line \in Line, Stream = Then(Frame(line), z), line.kind # "data"
      PROVE  Completion(Received) = line /\ rest = z
  <2>1. \A b, n \in Seq(Unit) :
          Then(b, n) = Then(Frame(line), z) /\ HasResponse(b) => Completion(b) = line /\ Then(Trailing(b), n) = z
    BY <1>3, <1>5, ReplyRead
  <2>2. QED
    BY <1>1, <1>5, <2>1 DEF Stream
<1>6. ASSUME NEW line \in Line, NEW data \in Line, line.kind = "ok", data.kind = "data",
             Stream = Then(Then(Frame(data), Frame(line)), z)
      PROVE  Completion(Received) = line /\ rest = z
  <2>1. \A b, n \in Seq(Unit) :
          Then(b, n) = Then(Then(Frame(data), Frame(line)), z) /\ HasResponse(b) =>
            Completion(b) = line /\ Then(Trailing(b), n) = z
    <3>1. line.kind # "data"
      BY <1>6
    <3>2. QED
      BY <1>3, <1>6, <3>1, ListingRead
  <2>2. QED
    BY <1>1, <1>6, <2>1 DEF Stream
<1>7. CASE inbox = <<>> /\ \E r \in Seq(Unit) : IsAnswer(w, r) /\ Stream = Then(r, z)
  <2>1. PICK r \in Seq(Unit) : IsAnswer(w, r) /\ Stream = Then(r, z)
    BY <1>7
  <2>2. PICK line \in Line :
          \/ r = Frame(line) /\ Refusal(line)
          \/ w = "starttls" /\ r = Frame(line) /\ line.kind = "ok" /\ Stands("handshake")
          \/ /\ w \in {"greeting", "listing"} /\ ListingOf(line, r)
             /\ line.kind = "ok" /\ line.on = Phase /\ Stands("idle")
    BY <2>1 DEF IsAnswer
  <2>3. CASE r = Frame(line) /\ Refusal(line)
    BY <1>3, <1>5, <1>7, <2>1, <2>3 DEF Refusal, Stands
  <2>4. CASE w = "starttls" /\ r = Frame(line) /\ line.kind = "ok" /\ Stands("handshake")
    BY <1>3, <1>5, <1>7, <2>1, <2>4 DEF Stands
  <2>5. CASE /\ w \in {"greeting", "listing"} /\ ListingOf(line, r)
             /\ line.kind = "ok" /\ line.on = Phase /\ Stands("idle")
    <3>1. Completion(Received) = line /\ rest = z
      BY <1>5, <1>6, <2>1, <2>5 DEF ListingOf
    <3>2. QED
      BY <1>3, <1>7, <2>5, <3>1 DEF Stands
  <2>6. QED
    BY <2>2, <2>3, <2>4, <2>5
<1>8. QED
  BY <1>2, <1>4, <1>7 DEF WaitsWith

\* Until the answer to a cancellation is there, what came has no line and is
\* shorter than any limit, unless the server hung up.
LEMMA CancelRead ==
  ASSUME PartsTypeOK, Waits("cancel"), ~HasResponse(Received)
  PROVE  \/ Unfinished(Received) = Received /\ Len(Received) <= 1
         \/ st = "closed" /\ net \in Seq(Byes) /\ Then(Unfinished(Received), net) \in Seq(Byes)
<1>1. Received \in Seq(Unit) /\ net \in Seq(Unit)
  BY StreamParts
<1>2. PICK z : WaitsWith("cancel", z)
  BY DEF Waits
<1>3. z \in Seq(Byes) /\ z \in Seq(Unit) /\ (st # "closed" => z = <<>>)
  BY <1>2, ByesAreUnits DEF WaitsWith
<1>4. CASE Stream = z
  <2>1. net \in Seq(Byes) /\ Then(Unfinished(Received), net) \in Seq(Byes)
    BY <1>1, <1>3, <1>4, ByesRead DEF Stream
  <2>2. st # "closed" => Received = <<>>
    <3>1. \A b, n \in Seq(Unit) : Then(b, n) = <<>> => b = <<>>
      BY ThenIsNothing
    <3>2. QED
      BY <1>1, <1>3, <1>4, <3>1 DEF Stream
  <2>3. Received = <<>> => Len(Received) <= 1 /\ ~HasLine(Received)
    BY EmptySeq, EmptyHasNoLine
  <2>4. QED
    BY <1>1, <2>1, <2>2, <2>3, UnfinishedWhole
<1>5. CASE \E r \in Seq(Unit) : IsAnswer("cancel", r) /\ Stream = Then(r, z)
  <2>1. PICK line \in Line : Stream = Then(Frame(line), z) /\ Refusal(line)
    BY <1>5 DEF IsAnswer
  <2>2. Len(Received) <= 1 /\ ~HasLine(Received)
    <3>1. line.kind # "data"
      BY <2>1 DEF Refusal
    <3>2. \A b, n \in Seq(Unit) :
            Then(b, n) = Then(Frame(line), z) /\ ~HasResponse(b) => Len(b) <= 1 /\ ~HasLine(b)
      BY <1>3, <3>1, ReplyRead
    <3>3. QED
      BY <1>1, <2>1, <3>2 DEF Stream
  <2>3. QED
    BY <1>1, <2>2, UnfinishedWhole
<1>6. QED
  BY <1>2, <1>4, <1>5 DEF WaitsWith

-----------------------------------------------------------------------------
(* The server.                                                             *)

\* What the server sends is behind all the rest.
LEMMA StreamSent ==
  ASSUME PartsTypeOK, NEW r \in Seq(Unit), Send(r), UNCHANGED << buf, arg >>
  PROVE  Stream' = Then(Stream, r) /\ Received' = Received
<1>1. Received' = Received
  BY DEF Received
<1>2. net' = Then(net, r)
  BY DEF Send, Then
<1>3. Received \in Seq(Unit) /\ net \in Seq(Unit)
  BY StreamParts
<1>4. Then(Received, Then(net, r)) = Then(Then(Received, net), r)
  BY <1>3, ThenThen
<1>5. QED
  BY <1>1, <1>2, <1>4 DEF Stream

LEMMA StreamKept ==
  ASSUME UNCHANGED << buf, arg, net >>
  PROVE  Stream' = Stream /\ Received' = Received
BY DEF Stream, Received

LEMMA WholeByes ==
  ASSUME PartsTypeOK, NEW cut \in CutsOf("bye")
  PROVE  Whole("bye", "none", cut) \in Seq(Byes)
<1> DEFINE line == [kind |-> "bye", val |-> "none", on |-> Phase, cut |-> cut]
<1>1. line \in Line /\ cut.kind \in {"bad", "data"}
  BY ServerAssumption DEF CutsOf, Texts, Line, Kinds, Statuses, Vals, Phase, Phases
<1>2. [of |-> line, last |-> FALSE] \in Byes /\ [of |-> line, last |-> TRUE] \in Byes
  BY <1>1 DEF Byes, Unit
<1>3. QED
  BY <1>2 DEF Whole, Frame

\* The only thing on the wire is what the server just said.
LEMMA Answered ==
  ASSUME PartsTypeOK, NEW w, NEW r \in Seq(Unit), Send(r), UNCHANGED << buf, arg >>,
         Stream = <<>>, inbox' = <<>>, IsAnswer(w, r)'
  PROVE  Waits(w)'
<1>1. Stream' = r
  BY StreamSent, ThenNothing
<1>2. Stream' = Then(r, <<>>)
  BY <1>1, ThenNothing
<1>3. <<>> \in Seq(Byes)
  BY EmptySeq
<1>4. WaitsWith(w, <<>>)'
  BY <1>2, <1>3 DEF WaitsWith
<1>5. QED
  BY <1>4 DEF Waits

\* A server that hung up owes nothing.
LEMMA HungUp ==
  ASSUME NEW w, st' = "closed", Stream' \in Seq(Byes)
  PROVE  Waits(w)'
BY DEF Waits, WaitsWith

LEMMA WholeLine ==
  ASSUME NEW kind \in Kinds, NEW val \in Vals, NEW cut \in Cuts
  PROVE  \E line \in Line :
           /\ line.kind = kind /\ line.val = val /\ line.on = Phase
           /\ Whole(kind, val, cut) = Frame(line)
<1> DEFINE line == [kind |-> kind, val |-> val, on |-> Phase, cut |-> cut]
<1>1. line \in Line
  BY ServerAssumption DEF Line, Phase, Phases
<1>2. Whole(kind, val, cut) = Frame(line)
  BY DEF Whole
<1>3. QED
  BY <1>1, <1>2

LEMMA TellsLine ==
  ASSUME NEW kind \in Kinds, NEW val \in Vals, Tells(kind, val)
  PROVE  \E line \in Line :
           line.kind = kind /\ line.val = val /\ line.on = Phase /\ Send(Frame(line))
<1>1. PICK cut \in Cuts : Send(Whole(kind, val, cut))
  BY DEF Tells, CutsOf, Texts
<1>2. QED
  BY <1>1, WholeLine

\* A NO answers anything, and a BYE ends the connection.
LEMMA RefuseAnswers ==
  ASSUME PartsTypeOK, NEW w, Refuse, UNCHANGED << buf, arg >>, Stream = <<>>, inbox' = <<>>
  PROVE  Waits(w)'
<1>1. CASE Tells("no", "none") /\ st' = "idle"
  <2>1. PICK line \in Line : line.kind = "no" /\ Send(Frame(line))
    BY <1>1, TellsLine DEF Kinds, Statuses, Vals
  <2>2. Frame(line) \in Seq(Unit)
    BY FrameType
  <2>3. IsAnswer(w, Frame(line))'
    BY <1>1, <2>1 DEF IsAnswer, Refusal, Stands
  <2>4. QED
    BY <1>1, <2>1, <2>2, <2>3, Answered
<1>2. CASE Tells("bye", "none") /\ st' = "closed"
  <2>0. PICK cut \in CutsOf("bye") : Send(Whole("bye", "none", cut))
    BY <1>2 DEF Tells
  <2>1. Whole("bye", "none", cut) \in Seq(Byes) /\ Whole("bye", "none", cut) \in Seq(Unit)
    BY WholeByes, ByesAreUnits
  <2>2. Stream' = Whole("bye", "none", cut)
    BY <2>0, <2>1, StreamSent, ThenNothing
  <2>3. QED
    BY <1>2, <2>1, <2>2, HungUp
<1>3. QED
  BY <1>1, <1>2 DEF Refuse

LEMMA ListingAnswers ==
  ASSUME PartsTypeOK, NEW w \in {"greeting", "listing"}, Lists,
         UNCHANGED << buf, arg, sock, authed >>, Stream = <<>>, inbox' = <<>>, st' = "idle"
  PROVE  Waits(w)'
<1>0. PICK offer \in Offers, cut \in Cuts : Send(Listing(offer, cut))
  BY DEF Lists
<1>1. PICK line \in Line :
        line.kind = "ok" /\ line.on = Phase /\ Whole("ok", "none", cut) = Frame(line)
  BY WholeLine DEF Kinds, Statuses, Vals
<1>2. PICK data \in Line : data.kind = "data" /\ Whole("data", "STARTTLS", cut) = Frame(data)
  <2>1. "data" \in Kinds /\ "STARTTLS" \in Vals
    BY DEF Kinds, Vals
  <2>2. QED
    BY <2>1, WholeLine
<1>3. PICK r \in Seq(Unit) : r = Listing(offer, cut)
  BY ListingType
<1>4. ListingOf(line, r)
  <2>1. <<>> \o Frame(line) = Frame(line)
    BY FrameType, ConcatEmptySeq
  <2>2. QED
    BY <1>1, <1>2, <1>3, <2>1 DEF ListingOf, Listing, Then
<1>5. Phase' = Phase
  BY DEF Phase
<1>6. IsAnswer(w, r)'
  BY <1>1, <1>4, <1>5 DEF IsAnswer, ListingOf, Stands
<1>7. QED
  BY <1>0, <1>3, <1>6, Answered

\* The server's answer to the one message it was sent.
LEMMA MessageAnswered ==
  ASSUME PartsTypeOK, NEW w, NEW m \in Msg, inbox = << m >>, st = Needs(m), For(m) = w,
         Stream = <<>>, ServerAnswer, UNCHANGED << buf, arg, sock >>
  PROVE  Waits(w)'
<1>1. Head(inbox) = m /\ inbox' = <<>>
  BY DEF ServerAnswer
<1>2. CASE AnswerStartTls(m)
  <2>1. w = "starttls"
    BY <1>2 DEF AnswerStartTls, For
  <2>2. CASE Tells("ok", "none") /\ st' = "handshake"
    <3>1. PICK line \in Line : line.kind = "ok" /\ Send(Frame(line))
      BY <2>2, TellsLine DEF Kinds, Statuses, Vals
    <3>2. IsAnswer(w, Frame(line))'
      BY <2>1, <2>2, <3>1 DEF IsAnswer, Stands
    <3>3. QED
      BY <1>1, <2>2, <3>1, <3>2, FrameType, Answered
  <2>3. QED
    BY <1>1, <1>2, <2>2, RefuseAnswers DEF AnswerStartTls
<1>3. CASE AnswerCapability(m)
  <2>1. w = "listing"
    BY <1>3 DEF AnswerCapability, For
  <2>2. CASE Lists /\ UNCHANGED st
    BY <1>1, <1>3, <2>1, <2>2, ListingAnswers DEF AnswerCapability
  <2>3. QED
    BY <1>1, <1>3, <2>2, RefuseAnswers DEF AnswerCapability
<1>4. CASE AnswerSasl(m)
  <2>1. w = "sasl"
    BY <1>4 DEF AnswerSasl, For
  <2>2. ASSUME NEW kind \in {"data", "ok"}, NEW val \in Vals, Tells(kind, val),
               st' = IF kind = "data" THEN "exchange" ELSE "idle",
               kind = "ok" => authed'
        PROVE  Waits(w)'
    <3>1. PICK line \in Line : line.kind = kind /\ Send(Frame(line))
      BY <2>2, TellsLine DEF Kinds, Statuses
    <3>2. IsAnswer(w, Frame(line))'
      BY <2>1, <2>2, <3>1 DEF IsAnswer, SaslAnswer, Stands
    <3>3. QED
      BY <1>1, <2>2, <3>1, <3>2, FrameType, Answered
  <2>3. Proofs \cup {"none"} \subseteq Vals
    BY ServerAssumption DEF Vals
  <2>4. CASE /\ \E val \in Proofs : Tells("data", val)
             /\ st' = "exchange"
    BY <2>2, <2>3, <2>4
  <2>5. CASE /\ \E val \in Proofs \cup {"none"} : Tells("ok", val)
             /\ st' = "idle" /\ authed' = TRUE
    BY <2>2, <2>3, <2>5
  <2>6. QED
    BY <1>1, <1>4, <2>4, <2>5, RefuseAnswers DEF AnswerSasl
<1>5. CASE AnswerNo(m)
  <2>1. PICK line \in Line : line.kind = "no" /\ Send(Frame(line))
    BY <1>5, TellsLine DEF AnswerNo, Kinds, Statuses, Vals
  <2>2. IsAnswer(w, Frame(line))'
    BY <1>5, <2>1 DEF AnswerNo, IsAnswer, Refusal, Stands
  <2>3. QED
    BY <1>1, <1>5, <2>1, <2>2, FrameType, Answered DEF AnswerNo
<1>6. QED
  BY <1>1, <1>2, <1>3, <1>4, <1>5 DEF ServerAnswer

\* A greeting it owes.
LEMMA GreetingAnswered ==
  ASSUME PartsTypeOK, inbox = <<>>, Stream = <<>>, Greet, UNCHANGED << buf, arg, sock >>
  PROVE  Waits("greeting")'
<1>1. inbox' = <<>> /\ UNCHANGED authed
  BY DEF Greet
<1>2. CASE Lists /\ st' = "idle"
  BY <1>1, <1>2, ListingAnswers
<1>3. CASE Refuse
  BY <1>1, <1>3, RefuseAnswers
<1>4. QED
  BY <1>2, <1>3 DEF Greet

\* It may hang up while it waits, on anything, and then says no more.
LEMMA GaveUp ==
  ASSUME PartsTypeOK, GiveUp, UNCHANGED << buf, arg, sock >>
  PROVE  /\ st # "closed" /\ st' = "closed" /\ UNCHANGED << inbox, authed >>
         /\ \E bye \in Seq(Byes) : Stream' = Then(Stream, bye) /\ net' = Then(net, bye)
<1>1. CASE Tells("bye", "none")
  <2>0. PICK cut \in CutsOf("bye") : Send(Whole("bye", "none", cut))
    BY <1>1 DEF Tells
  <2>1. Whole("bye", "none", cut) \in Seq(Byes) /\ Whole("bye", "none", cut) \in Seq(Unit)
    BY WholeByes, ByesAreUnits
  <2>2. Stream' = Then(Stream, Whole("bye", "none", cut))
    BY <2>0, <2>1, StreamSent
  <2>3. net' = Then(net, Whole("bye", "none", cut))
    BY <2>0 DEF Send, Then
  <2>4. QED
    BY <2>1, <2>2, <2>3 DEF GiveUp
<1>2. CASE UNCHANGED net
  <2>1. Stream \in Seq(Unit) /\ net \in Seq(Unit)
    BY StreamParts, ThenType DEF Stream
  <2>2. Stream' = Then(Stream, <<>>) /\ net' = Then(net, <<>>)
    BY <1>2, <2>1, StreamKept, ThenNothing
  <2>3. QED
    BY <2>2, EmptySeq DEF GiveUp
<1>3. QED
  BY <1>1, <1>2 DEF GiveUp

\* An empty stream on which a server stands that greets.
LEMMA GreetingOwed ==
  ASSUME buf' = <<>>, arg'.data = <<>>, net' = <<>>, inbox' = <<>>, st' = "greet"
  PROVE  Waits("greeting")'
<1>1. <<>> \in Seq(Unit) /\ <<>> \in Seq(Byes)
  BY EmptySeq
<1>2. Received' = <<>>
  BY <1>1, ConcatEmptySeq DEF Received
<1>3. Stream' = <<>>
  BY <1>1, <1>2, ThenNothing DEF Stream
<1>4. WaitsWith("greeting", <<>>)'
  BY <1>1, <1>3 DEF WaitsWith, Owed
<1>5. QED
  BY <1>4 DEF Waits

\* On a stream at rest a server that does not speak out of turn can only
\* hang up.
LEMMA PeerAtRest ==
  ASSUME PartsTypeOK, NEW s \in {"idle", "exchange", "handshake"}, Rests(s), Reply \/ Disturb,
         UNCHANGED strays
  PROVE  /\ st' = "closed" /\ Stream' \in Seq(Byes) /\ net' \in Seq(Byes) /\ Rests(s)'
         /\ st # "closed" /\ UNCHANGED << out, result, msg, arg, buf, dropped, sock >>
<1>1. UNCHANGED << out, result, msg, arg, buf, dropped, sock >>
  BY DEF Reply, Disturb, coroutineVars
<1>2. Greet \/ ServerAnswer \/ GiveUp
  <2>1. ~Stray
    BY ServerAssumption DEF Stray, PartsTypeOK, ServerTypeOK
  <2>2. QED
    BY <2>1 DEF Reply, Disturb
<1>3. st # "closed"
  BY <1>2 DEF Greet, ServerAnswer, GiveUp, AnswerStartTls, AnswerCapability, AnswerSasl, AnswerNo
<1>4. Stream = <<>> /\ inbox = <<>> /\ st = s
  BY <1>3 DEF Rests
<1>5. GiveUp
  BY <1>2, <1>4 DEF Greet, ServerAnswer
<1>6. net = <<>>
  <2>1. \A b, n \in Seq(Unit) : Then(b, n) = <<>> => n = <<>>
    BY ThenIsNothing
  <2>2. QED
    BY <1>4, <2>1, StreamParts DEF Stream
<1>7. PICK bye \in Seq(Byes) : Stream' = Then(Stream, bye) /\ net' = Then(net, bye)
  BY <1>1, <1>5, GaveUp
<1>8. Then(<<>>, bye) = bye
  BY ByesAreUnits, ThenNothing
<1>9. QED
  BY <1>1, <1>3, <1>4, <1>5, <1>6, <1>7, <1>8 DEF GiveUp, Rests

\* A client that waits for an answer goes on waiting for it.
LEMMA PeerWaits ==
  ASSUME PartsTypeOK, NEW w \in Answers, Waits(w), Reply \/ Disturb, UNCHANGED strays
  PROVE  Waits(w)'
<1>1. UNCHANGED << out, result, msg, arg, buf, dropped, sock >>
  BY DEF Reply, Disturb, coroutineVars
<1>2. Greet \/ ServerAnswer \/ GiveUp
  <2>1. ~Stray
    BY ServerAssumption DEF Stray, PartsTypeOK, ServerTypeOK
  <2>2. QED
    BY <2>1 DEF Reply, Disturb
<1>3. st # "closed"
  BY <1>2 DEF Greet, ServerAnswer, GiveUp, AnswerStartTls, AnswerCapability, AnswerSasl, AnswerNo
<1>4. PICK z : WaitsWith(w, z)
  BY DEF Waits
<1>5. z = <<>>
  BY <1>3, <1>4 DEF WaitsWith
<1>6. ASSUME Stream = <<>>, Owed(w) PROVE Waits(w)'
  <2>1. net = <<>>
    <3>1. \A b, n \in Seq(Unit) : Then(b, n) = <<>> => n = <<>>
      BY ThenIsNothing
    <3>2. QED
      BY <1>6, <3>1, StreamParts DEF Stream
  <2>2. CASE Greet
    <3>1. w = "greeting" /\ inbox = <<>>
      BY <1>6, <2>2 DEF Owed, Greet, Needs
    <3>2. QED
      BY <1>1, <1>6, <2>2, <3>1, GreetingAnswered
  <2>3. CASE ServerAnswer
    <3>1. PICK m \in Msg : inbox = << m >> /\ st = Needs(m) /\ For(m) = w
      BY <1>6, <2>3 DEF Owed, ServerAnswer
    <3>2. QED
      BY <1>1, <1>6, <2>3, <3>1, MessageAnswered
  <2>4. CASE GiveUp
    <3>1. PICK bye \in Seq(Byes) : Stream' = Then(Stream, bye) /\ net' = Then(net, bye)
      BY <1>1, <2>4, GaveUp
    <3>2. Then(<<>>, bye) = bye
      BY ByesAreUnits, ThenNothing
    <3>3. st' = "closed" /\ Stream' \in Seq(Byes)
      BY <1>6, <2>4, <3>1, <3>2 DEF GiveUp
    <3>4. QED
      BY <3>3, HungUp
  <2>5. QED
    BY <1>2, <2>2, <2>3, <2>4
<1>7. ASSUME inbox = <<>>, \E r \in Seq(Unit) : IsAnswer(w, r) /\ Stream = Then(r, z)
      PROVE  Waits(w)'
  <2>1. PICK r \in Seq(Unit) : IsAnswer(w, r) /\ Stream = Then(r, z)
    BY <1>7
  <2>2. ~Greet /\ ~ServerAnswer
    BY <1>3, <1>7, <2>1 DEF IsAnswer, Refusal, SaslAnswer, Stands, Greet, ServerAnswer
  <2>3. PICK bye \in Seq(Byes) : Stream' = Then(Stream, bye)
    BY <1>1, <1>2, <2>2, GaveUp
  <2>4. st' = "closed" /\ UNCHANGED << inbox, authed >>
    BY <1>2, <2>2 DEF GiveUp
  <2>5. Stream = r
    BY <1>5, <2>1, ThenNothing
  <2>6. Phase' = Phase
    BY <1>1, <2>4 DEF Phase
  <2>7. IsAnswer(w, r)'
    BY <2>1, <2>4, <2>6 DEF IsAnswer, Refusal, SaslAnswer, ListingOf, Stands
  <2>8. WaitsWith(w, bye)'
    BY <1>7, <2>3, <2>4, <2>5, <2>7 DEF WaitsWith
  <2>9. QED
    BY <2>8 DEF Waits
<1>8. QED
  BY <1>3, <1>4, <1>5, <1>6, <1>7 DEF WaitsWith

\* Whatever the server does but speak out of turn, the client waits for what
\* it waited for, and what was read whole stays so.
LEMMA PeerInStep ==
  ASSUME PartsTypeOK, NEW w \in Answers, InStepWith(w), ArgInv, Reply \/ Disturb, UNCHANGED strays
  PROVE  InStepWith(w)' /\ ArgInv'
<1>1. UNCHANGED << out, result, msg, arg, buf, dropped, sock >>
  BY DEF Reply, Disturb, coroutineVars
<1>2. st # "closed"
  <2>1. ~Stray
    BY ServerAssumption DEF Stray, PartsTypeOK, ServerTypeOK
  <2>2. QED
    BY <2>1 DEF Reply, Disturb, Greet, ServerAnswer, GiveUp, AnswerStartTls, AnswerCapability,
                AnswerSasl, AnswerNo
<1>3. ~dropped'
  BY <1>1, <1>2 DEF InStepWith
<1>4. ArgInv'
  BY <1>1, <1>2 DEF ArgInv
<1>5. CASE out = "WantsWrite"
  <2>1. Needs(msg) \in {"idle", "exchange", "handshake"} /\ Rests(Needs(msg)) /\ For(msg) = w
    BY <1>5 DEF InStepWith, Needs
  <2>2. st' = "closed" /\ Stream' \in Seq(Byes)
    BY <2>1, PeerAtRest
  <2>3. QED
    BY <1>1, <1>3, <1>4, <1>5, <2>1, <2>2 DEF InStepWith, Rests
<1>6. CASE out = "Complete"
  <2>1. CASE result \notin Unframed
    <3>1. RestsAfter(w) \in {"idle", "exchange", "handshake"} /\ Rests(RestsAfter(w))
      BY <1>6, <2>1 DEF InStepWith, RestsAfter
    <3>2. st' = "closed" /\ net' \in Seq(Byes)
      BY <3>1, PeerAtRest
    <3>3. QED
      BY <1>1, <1>3, <1>4, <1>6, <3>2 DEF InStepWith, Rests
  <2>2. CASE result \in Unframed
    BY <1>1, <1>3, <1>4, <1>6, <2>2 DEF InStepWith
  <2>3. QED
    BY <2>1, <2>2
<1>7. CASE out \in {"Run", "WantsRead"}
  <2>1. Waits(w)'
    BY <1>7, PeerWaits DEF InStepWith
  <2>2. QED
    BY <1>1, <1>3, <1>4, <1>7, <2>1 DEF InStepWith
<1>8. CASE out \notin {"WantsWrite", "Complete", "Run", "WantsRead"}
  BY <1>1, <1>3, <1>4, <1>8 DEF InStepWith
<1>9. QED
  BY <1>5, <1>6, <1>7, <1>8

-----------------------------------------------------------------------------
(* The pump.                                                               *)

LEMMA WaitsKept ==
  ASSUME NEW w, Waits(w), Stream' = Stream, UNCHANGED << st, authed, sock, inbox >>
  PROVE  Waits(w)'
<1>1. PICK z : WaitsWith(w, z)
  BY DEF Waits
<1>2. Phase' = Phase
  BY DEF Phase
<1>3. \A r : IsAnswer(w, r) => IsAnswer(w, r)'
  BY <1>2 DEF IsAnswer, Refusal, SaslAnswer, ListingOf, Stands
<1>4. Owed(w) => Owed(w)'
  BY DEF Owed
<1>5. WaitsWith(w, z)'
  BY <1>1, <1>3, <1>4 DEF WaitsWith
<1>6. QED
  BY <1>5 DEF Waits

\* What a read returns and what it leaves.
LEMMA ReadSplits ==
  ASSUME NEW z \in Seq(Unit), NEW n \in 1..Len(z)
  PROVE  /\ SubSeq(z, 1, n) \in Seq(Unit) /\ SubSeq(z, n + 1, Len(z)) \in Seq(Unit)
         /\ SubSeq(z, 1, n) # <<>>
         /\ Then(SubSeq(z, 1, n), SubSeq(z, n + 1, Len(z))) = z
<1>1. /\ Len(z) \in Nat /\ n \in Nat /\ 1 <= n /\ n <= Len(z) /\ Len(z) \in 1..Len(z)
      /\ n \in 0..Len(z)
  BY LenProperties
<1>2. \A i \in 1..n : z[i] \in Unit
  BY <1>1, LenProperties, ElementOfSeq
<1>3. SubSeq(z, 1, n) \in Seq(Unit) /\ Len(SubSeq(z, 1, n)) = n
  BY <1>1, <1>2, SubSeqProperties
<1>4. SubSeq(z, 1, n) # <<>>
  BY <1>1, <1>3, EmptySeq
<1>5. SubSeq(z, 1, n) \o SubSeq(z, n + 1, Len(z)) = SubSeq(z, 1, Len(z))
  BY <1>1, ConcatAdjacentSubSeq
<1>6. QED
  BY <1>1, <1>3, <1>4, <1>5, SuffixType, SubSeqFull DEF Then

LEMMA PumpStream ==
  ASSUME PartsTypeOK, ArgInv, PumpRead \/ PumpEof(st = "closed") \/ PumpWrite, UNCHANGED st
  PROVE  Stream' = Stream /\ ArgInv'
<1>1. arg.data = <<>> /\ buf' = buf
  BY DEF ArgInv, PumpRead, PumpEof, PumpWrite
<1>2. buf \in Seq(Unit) /\ net \in Seq(Unit)
  BY StreamParts
<1>3. \A b \in Seq(Unit) : b \o <<>> = b
  BY ConcatEmptySeq
<1>4. Received = buf
  BY <1>1, <1>2, <1>3 DEF Received
<1>5. CASE PumpRead
  <2>1. PICK n \in 1..Len(net) : arg' = Some(SubSeq(net, 1, n)) /\ net' = SubSeq(net, n + 1, Len(net))
    BY <1>5 DEF PumpRead
  <2> DEFINE head == SubSeq(net, 1, n)
             left == SubSeq(net, n + 1, Len(net))
  <2>2. head \in Seq(Unit) /\ left \in Seq(Unit) /\ head # <<>> /\ Then(head, left) = net
    BY <1>2, ReadSplits
  <2>3. arg'.data = head /\ net' = left
    BY <2>1 DEF Some
  <2> HIDE DEF head, left
  <2>4. Received' = Then(buf, head)
    BY <1>1, <2>3 DEF Received, Then
  <2>5. Stream' = Then(Then(buf, head), left)
    BY <2>3, <2>4 DEF Stream
  <2>6. Stream' = Then(buf, net)
    BY <1>2, <2>2, <2>5, ThenThen
  <2>7. out' = "Run"
    BY <1>5 DEF PumpRead
  <2>8. QED
    BY <1>4, <2>2, <2>3, <2>6, <2>7 DEF Stream, ArgInv
<1>6. CASE PumpEof(st = "closed")
  <2>1. arg' = Eof /\ net' = net /\ net = <<>> /\ out' = "Run" /\ st = "closed"
    BY <1>6 DEF PumpEof, wireVars
  <2>2. arg'.data = <<>>
    BY <2>1 DEF Eof, Some
  <2>3. Received' = buf
    BY <1>1, <1>2, <1>3, <2>2 DEF Received
  <2>4. ArgInv'
    BY <2>1 DEF ArgInv
  <2>5. QED
    BY <1>4, <2>1, <2>3, <2>4 DEF Stream
<1>7. CASE PumpWrite
  <2>1. arg' = None /\ net' = net /\ out' = "Run"
    BY <1>7 DEF PumpWrite
  <2>2. ~arg'.some /\ arg'.data = <<>>
    BY <2>1 DEF None
  <2>3. Received' = buf
    BY <1>1, <1>2, <1>3, <2>2 DEF Received
  <2>4. QED
    BY <1>4, <2>1, <2>2, <2>3 DEF Stream, ArgInv
<1>8. QED
  BY <1>5, <1>6, <1>7

LEMMA PumpInStep ==
  ASSUME PartsTypeOK, NEW w \in Answers, InStepWith(w), ArgInv,
         PumpRead \/ PumpEof(st = "closed") \/ PumpWrite \/ PumpFail, UNCHANGED serverVars
  PROVE  InStepWith(w)' /\ ArgInv'
<1>1. UNCHANGED << result, msg, buf, dropped, sock, st, authed >>
  BY DEF PumpRead, PumpEof, PumpWrite, PumpFail, wireVars, serverVars
<1>2. CASE PumpFail
  <2>1. out # "Run" /\ out' = "Broken" /\ UNCHANGED << arg, net >>
    BY <1>2 DEF PumpFail, Yields, wireVars
  <2>2. ArgInv'
    BY <1>1, <2>1 DEF ArgInv
  <2>3. QED
    BY <1>1, <2>1, <2>2 DEF InStepWith
<1>3. CASE PumpRead \/ PumpEof(st = "closed")
  <2>1. Stream' = Stream /\ ArgInv'
    BY <1>1, <1>3, PumpStream
  <2>2. out = "WantsRead" /\ out' = "Run" /\ UNCHANGED inbox
    BY <1>3 DEF PumpRead, PumpEof, wireVars
  <2>3. Waits(w)'
    BY <1>1, <2>1, <2>2, WaitsKept DEF InStepWith
  <2>4. QED
    BY <1>1, <2>1, <2>2, <2>3 DEF InStepWith
<1>4. CASE PumpWrite
  <2>1. Stream' = Stream /\ ArgInv'
    BY <1>1, <1>4, PumpStream
  <2>2. out = "WantsWrite" /\ out' = "Run" /\ inbox' = Append(inbox, msg) /\ msg \in Msg
    BY <1>4 DEF PumpWrite, PartsTypeOK, ExchangeTypeOK
  <2>3. Stream \in Seq(Byes) /\ Rests(Needs(msg)) /\ For(msg) = w
    BY <2>2 DEF InStepWith
  <2>4. st # "closed" => Stream = <<>> /\ inbox' = << msg >> /\ st = Needs(msg)
    BY <2>2, <2>3 DEF Rests
  <2>5. w # "greeting"
    BY <2>3 DEF For
  <2>6. WaitsWith(w, Stream)'
    <3>1. st' # "closed" => Owed(w)'
      BY <1>1, <2>2, <2>3, <2>4, <2>5 DEF Owed
    <3>2. QED
      BY <1>1, <2>1, <2>3, <2>4, <3>1 DEF WaitsWith
  <2>7. Waits(w)'
    BY <2>6 DEF Waits
  <2>8. QED
    BY <1>1, <2>1, <2>2, <2>7 DEF InStepWith
<1>5. QED
  BY <1>2, <1>3, <1>4

-----------------------------------------------------------------------------
(* The client.                                                             *)

LEMMA BufferIsReceived ==
  ASSUME NEW b \in Seq(Unit), buf' = b, arg' = None
  PROVE  Received' = b /\ Stream' = Then(b, net') /\ ArgInv'
<1>1. arg'.data = <<>> /\ ~arg'.some
  BY DEF None
<1>2. Received' = b
  BY <1>1, ConcatEmptySeq DEF Received
<1>3. QED
  BY <1>1, <1>2 DEF Stream, ArgInv

\* A resume that asks for more has kept all it was handed.
LEMMA ReadMoreInStep ==
  ASSUME PartsTypeOK, NEW w, InStepWith(w), out = "Run", Yield("WantsRead"), buf' = Received,
         UNCHANGED << dropped, wireVars, serverVars >>
  PROVE  InStepWith(w)' /\ ArgInv'
<1>1. out' = "WantsRead" /\ arg' = None
  BY DEF Yield
<1>2. Received \in Seq(Unit)
  BY StreamParts
<1>3. Stream' = Then(Received, net') /\ ArgInv'
  BY <1>1, <1>2, BufferIsReceived
<1>4. Stream' = Stream
  BY <1>3 DEF Stream, wireVars
<1>5. Waits(w)'
  BY <1>4, WaitsKept DEF InStepWith, wireVars, serverVars
<1>6. QED
  BY <1>1, <1>3, <1>5 DEF InStepWith, serverVars

\* A stream that ended, or was not understood, promises nothing.
LEMMA UnframedInStep ==
  ASSUME NEW w, InStepWith(w), NEW r \in Unframed, Complete(r), buf' = Received,
         PartsTypeOK, UNCHANGED << dropped, wireVars, serverVars >>
  PROVE  InStepWith(w)' /\ ArgInv'
<1>1. out' = "Complete" /\ result' = r /\ arg' = None
  BY DEF Complete
<1>2. ArgInv'
  BY <1>1, StreamParts, BufferIsReceived
<1>3. QED
  BY <1>1, <1>2 DEF InStepWith, serverVars

\* What was waited for is taken out of the buffer and at most a farewell is
\* left, kept or thrown away with the buffer.
LEMMA Taken ==
  ASSUME PartsTypeOK, NEW left \in Seq(Unit), NEW s, Then(left, net) \in Seq(Byes),
         st # "closed" => Then(left, net) = <<>> /\ inbox = <<>> /\ st = s /\ ~dropped,
         arg' = None, (buf' = left /\ UNCHANGED dropped) \/ NewBuffer(left),
         UNCHANGED << wireVars, serverVars >>
  PROVE  /\ Stream' \in Seq(Byes) /\ net' \in Seq(Byes) /\ Rests(s)'
         /\ st' # "closed" => ~dropped'
         /\ ArgInv'
<1>1. net \in Seq(Unit) /\ net' = net /\ <<>> \in Seq(Unit) /\ <<>> \in Seq(Byes)
  BY StreamParts, EmptySeq DEF wireVars
<1>2. net \in Seq(Byes)
  BY <1>1, ThenParts
<1>3. st # "closed" => left = <<>> /\ net = <<>>
  <2>1. \A b, n \in Seq(Unit) : Then(b, n) = <<>> => b = <<>> /\ n = <<>>
    BY ThenIsNothing
  <2>2. QED
    BY <1>1, <2>1
<1>4. CASE buf' = left /\ UNCHANGED dropped
  <2>1. Stream' = Then(left, net) /\ ArgInv'
    BY <1>1, <1>4, BufferIsReceived
  <2>2. QED
    BY <1>1, <1>2, <1>4, <2>1 DEF Rests, wireVars, serverVars
<1>5. CASE NewBuffer(left)
  <2>1. buf' = <<>> /\ dropped' = (dropped \/ left # <<>>)
    BY <1>5 DEF NewBuffer
  <2>2. Stream' = Then(<<>>, net) /\ ArgInv'
    BY <1>1, <2>1, BufferIsReceived
  <2>3. Stream' = net
    BY <1>1, <2>2, ThenNothing
  <2>4. QED
    BY <1>1, <1>2, <1>3, <2>1, <2>2, <2>3 DEF Rests, wireVars, serverVars
<1>6. QED
  BY <1>4, <1>5

\* A line an exchange reads leaves the stream at rest.
LEMMA LineTaken ==
  ASSUME PartsTypeOK, InStepWith("sasl"), Reads("challenge") \/ Reads("completion"),
         arg' = None, TakeLine \/ NewBuffer(AfterLine(Received)),
         UNCHANGED << wireVars, serverVars >>
  PROVE  /\ Stream' \in Seq(Byes) /\ net' \in Seq(Byes)
         /\ IF Reads("challenge") THEN Rests("exchange")' ELSE Rests("idle")'
         /\ st' # "closed" => ~dropped'
         /\ ArgInv'
<1> DEFINE left == AfterLine(Received)
           s == IF Reads("challenge") THEN "exchange" ELSE "idle"
<1>1. HasLine(Received) /\ left \in Seq(Unit)
  BY ChallengeLine
<1>2. Waits("sasl")
  BY DEF InStepWith, Reads
<1>3. /\ Then(left, net) \in Seq(Byes)
      /\ st # "closed" => /\ Then(left, net) = <<>> /\ inbox = <<>>
                          /\ st = IF FirstLine(Received).kind = "data" THEN "exchange" ELSE "idle"
  BY <1>1, <1>2, SaslRead
<1>4. Reads("challenge") <=> FirstLine(Received).kind = "data"
  BY <1>1 DEF Reads, LineReading
<1>5. st # "closed" => Then(left, net) = <<>> /\ inbox = <<>> /\ st = s /\ ~dropped
  BY <1>3, <1>4 DEF InStepWith
<1>6. (buf' = left /\ UNCHANGED dropped) \/ NewBuffer(left)
  BY DEF TakeLine
<1> HIDE DEF left
<1>7. \A t : t = s =>
        /\ Stream' \in Seq(Byes) /\ net' \in Seq(Byes) /\ Rests(t)'
        /\ st' # "closed" => ~dropped'
        /\ ArgInv'
  BY <1>1, <1>3, <1>5, <1>6, Taken
<1>8. QED
  BY <1>7

\* So does a whole response.
LEMMA ReplyTaken ==
  ASSUME PartsTypeOK, NEW w \in Answers \ {"sasl"}, InStepWith(w), out = "Run",
         HasResponse(Received), arg' = None,
         NewBuffer(Trailing(Received)) \/ (buf' = Trailing(Received) /\ UNCHANGED dropped),
         UNCHANGED << wireVars, serverVars >>
  PROVE  /\ Stream' \in Seq(Byes) /\ net' \in Seq(Byes)
         /\ IF w = "starttls" /\ Completion(Received).kind = "ok" THEN Rests("handshake")' ELSE Rests("idle")'
         /\ st' # "closed" => ~dropped'
         /\ ArgInv'
<1> DEFINE left == Trailing(Received)
           s == IF w = "starttls" /\ Completion(Received).kind = "ok" THEN "handshake" ELSE "idle"
<1>1. left \in Seq(Unit)
  BY StreamParts, ResponseType
<1>2. Waits(w)
  BY DEF InStepWith
<1>3. /\ Then(left, net) \in Seq(Byes)
      /\ st # "closed" => Then(left, net) = <<>> /\ inbox = <<>> /\ st = s
  BY <1>2, AnswerRead
<1>4. st # "closed" => Then(left, net) = <<>> /\ inbox = <<>> /\ st = s /\ ~dropped
  BY <1>3 DEF InStepWith
<1> HIDE DEF left
<1>5. \A t : t = s =>
        /\ Stream' \in Seq(Byes) /\ net' \in Seq(Byes) /\ Rests(t)'
        /\ st' # "closed" => ~dropped'
        /\ ArgInv'
  BY <1>1, <1>3, <1>4, Taken DEF left
<1>6. QED
  BY <1>5

\* What a reply leaves behind when nothing is written after it.
LEMMA RestInStep ==
  ASSUME NEW w, net' \in Seq(Byes), out' # "WantsWrite", out' # "Run", out' # "WantsRead",
         st' # "closed" => ~dropped',
         Rests(RestsAfter(w))'
  PROVE  InStepWith(w)'
BY DEF InStepWith

-----------------------------------------------------------------------------
(* The exchange, resumed.                                                  *)

\* The replies it reads a line at a time.
LEMMA ReadInStep ==
  ASSUME PartsTypeOK, InStepWith("sasl"), UNCHANGED << wireVars, serverVars >>,
         \/ ReadsMore \/ ReadsError \/ AnswerPending \/ AnswerChallenge
         \/ CompletionRefused \/ CompletionAccepted
  PROVE  InStepWith("sasl")' /\ ArgInv'
<1>1. CASE ReadsMore
  BY <1>1, ReadMoreInStep DEF ReadsMore, Reads
<1>2. CASE ReadsError
  <2>1. LineReading \in Unframed
    BY <1>2 DEF ReadsError, Reads, Unframed
  <2>2. PICK r \in Unframed : Complete(r)
    BY <1>2, <2>1 DEF ReadsError
  <2>3. QED
    BY <1>2, <2>2, UnframedInStep DEF ReadsError
<1>3. CASE AnswerPending \/ AnswerChallenge
  <2>1. Reads("challenge") /\ TakeLine /\ \E p : Respond(p)
    BY <1>3 DEF AnswerPending, AnswerChallenge
  <2>2. out' = "WantsWrite" /\ arg' = None /\ Needs(msg') = "exchange" /\ For(msg') = "sasl"
    BY <2>1 DEF Respond, WantsWrite, Needs, For
  <2>3. /\ Stream' \in Seq(Byes) /\ Rests("exchange")' /\ ArgInv'
        /\ st' # "closed" => ~dropped'
    BY <2>1, <2>2, LineTaken
  <2>4. Rests(Needs(msg))'
    BY <2>2, <2>3 DEF Rests
  <2>5. QED
    BY <2>2, <2>3, <2>4 DEF InStepWith
<1>4. CASE CompletionRefused \/ CompletionAccepted
  <2>1. Reads("completion") /\ ~Reads("challenge") /\ TakeLine /\ \E r : Complete(r)
    BY <1>4 DEF CompletionRefused, CompletionAccepted, Accepts, Reads
  <2>2. out' = "Complete" /\ arg' = None
    BY <2>1 DEF Complete
  <2>3. /\ net' \in Seq(Byes) /\ Rests("idle")' /\ ArgInv'
        /\ st' # "closed" => ~dropped'
    BY <2>1, <2>2, LineTaken
  <2>4. QED
    BY <2>2, <2>3 DEF InStepWith, RestsAfter
<1>5. QED
  BY <1>1, <1>2, <1>3, <1>4

LEMMA CancelInStep ==
  ASSUME PartsTypeOK, InStepWith("sasl"), UNCHANGED << wireVars, serverVars >>, CancelExchange
  PROVE  InStepWith("cancel")' /\ ArgInv'
<1>1. Reads("challenge") /\ TakeLine
  BY DEF CancelExchange
<1>2. out' = "WantsWrite" /\ arg' = None /\ Needs(msg') = "exchange" /\ For(msg') = "cancel"
  BY DEF CancelExchange, WantsWrite, Command, Needs, For
<1>3. /\ Stream' \in Seq(Byes) /\ Rests("exchange")' /\ ArgInv'
      /\ st' # "closed" => ~dropped'
  BY <1>1, <1>2, LineTaken
<1>4. Rests(Needs(msg))'
  BY <1>2, <1>3 DEF Rests
<1>5. QED
  BY <1>2, <1>3, <1>4 DEF InStepWith

LEMMA FetchInStep ==
  ASSUME PartsTypeOK, InStepWith("sasl"), UNCHANGED << wireVars, serverVars >>, FetchCapabilities
  PROVE  InStepWith("listing")' /\ ArgInv'
<1>1. Reads("completion") /\ ~Reads("challenge") /\ NewBuffer(AfterLine(Received))
  BY DEF FetchCapabilities, Accepts, Reads
<1>2. out' = "WantsWrite" /\ arg' = None /\ Needs(msg') = "idle" /\ For(msg') = "listing"
  BY DEF FetchCapabilities, WantsWrite, Command, Needs, For
<1>3. /\ Stream' \in Seq(Byes) /\ Rests("idle")' /\ ArgInv'
      /\ st' # "closed" => ~dropped'
  BY <1>1, <1>2, LineTaken
<1>4. Rests(Needs(msg))'
  BY <1>2, <1>3 DEF Rests
<1>5. QED
  BY <1>2, <1>3, <1>4 DEF InStepWith

\* The reply to a cancellation, whatever it is, or the end of the stream.
LEMMA AbortInStep ==
  ASSUME PartsTypeOK, InStepWith("cancel"), ArgInv, UNCHANGED << wireVars, serverVars >>,
         AbortReadsMore \/ AbortEnds
  PROVE  InStepWith("cancel")' /\ ArgInv'
<1>1. out = "Run" /\ Waits("cancel")
  BY DEF AbortReadsMore, AbortEnds, Aborting, InStepWith
<1>2. CASE AbortReadsMore
  <2>1. ~HasResponse(Received)
    BY <1>2 DEF AbortReadsMore, SawReply
  <2>2. CASE Unfinished(Received) = Received
    BY <1>1, <1>2, <2>2, ReadMoreInStep DEF AbortReadsMore
  <2>3. CASE st = "closed" /\ Then(Unfinished(Received), net) \in Seq(Byes)
    <3>1. Unfinished(Received) \in Seq(Unit)
      BY StreamParts, UnfinishedType
    <3>2. out' = "WantsRead" /\ arg' = None /\ st' = "closed" /\ net' = net
      BY <1>2, <2>3 DEF AbortReadsMore, Yield, wireVars, serverVars
    <3>3. Stream' = Then(Unfinished(Received), net) /\ ArgInv'
      BY <1>2, <3>1, <3>2, BufferIsReceived DEF AbortReadsMore
    <3>4. Waits("cancel")'
      BY <2>3, <3>2, <3>3, HungUp
    <3>5. QED
      BY <3>2, <3>3, <3>4 DEF InStepWith
  <2>4. QED
    BY <1>1, <2>1, <2>2, <2>3, CancelRead
<1>3. CASE AbortEnds
  <2>1. out' = "Complete" /\ arg' = None /\ UNCHANGED dropped
    BY <1>3 DEF AbortEnds, Complete
  <2>2. CASE HasResponse(Received)
    <3>1. buf' = Trailing(Received)
      BY <1>3, <2>2 DEF AbortEnds
    <3>2. /\ net' \in Seq(Byes) /\ Rests("idle")' /\ ArgInv'
          /\ st' # "closed" => ~dropped'
      BY <1>1, <2>1, <2>2, <3>1, ReplyTaken DEF Answers
    <3>3. QED
      BY <2>1, <3>2 DEF InStepWith, RestsAfter
  <2>3. CASE ~HasResponse(Received)
    <3>1. buf' = Unfinished(Received) /\ Unfinished(Received) \in Seq(Unit)
      BY <1>3, <2>3, StreamParts, UnfinishedType DEF AbortEnds
    <3>2. st = "closed" /\ net \in Seq(Byes)
      <4>1. CASE arg = Eof
        BY <4>1, EmptySeq DEF ArgInv, Eof, Some
      <4>2. CASE arg # Eof
        <5>1. Len(Unfinished(Received)) > MaxUnits
          BY <1>3, <2>3, <4>2 DEF AbortEnds, SawReply
        <5>2. ~(Unfinished(Received) = Received /\ Len(Received) <= 1)
          BY <5>1, LimitsAssumption, StreamParts, LenProperties
        <5>3. QED
          BY <1>1, <2>3, <5>2, CancelRead
      <4>3. QED
        BY <4>1, <4>2
    <3>3. ArgInv'
      BY <2>1, <3>1, StreamParts, BufferIsReceived
    <3>4. QED
      BY <2>1, <3>2, <3>3 DEF InStepWith, Rests, wireVars, serverVars
  <2>4. QED
    BY <2>2, <2>3
<1>4. QED
  BY <1>2, <1>3

LEMMA CapabilityInStep ==
  ASSUME PartsTypeOK, InStepWith("listing"), UNCHANGED << wireVars, serverVars >>,
         CapabilityReadsMore \/ CapabilityFails \/ CapabilityRejected \/ CapabilityDone
  PROVE  InStepWith("listing")' /\ ArgInv'
<1>1. out = "Run"
  BY DEF CapabilityReadsMore, CapabilityFails, CapabilityRejected, CapabilityDone, Fetching
<1>2. CASE CapabilityReadsMore
  BY <1>1, <1>2, ReadMoreInStep DEF CapabilityReadsMore, ReadMore
<1>3. CASE CapabilityFails
  <2>1. PICK r \in Unframed : Complete(r)
    BY <1>3 DEF CapabilityFails, ReadFail, Unframed
  <2>2. QED
    BY <1>3, <2>1, UnframedInStep DEF CapabilityFails, ReadFail
<1>4. CASE CapabilityRejected \/ CapabilityDone
  <2>1. HasResponse(Received) /\ NewBuffer(Trailing(Received)) /\ \E r : Complete(r)
    BY <1>4, ReadingResponse DEF CapabilityRejected, CapabilityDone
  <2>2. out' = "Complete" /\ arg' = None
    BY <2>1 DEF Complete
  <2>3. /\ net' \in Seq(Byes) /\ Rests("idle")' /\ ArgInv'
        /\ st' # "closed" => ~dropped'
    BY <1>1, <2>1, <2>2, ReplyTaken DEF Answers
  <2>4. QED
    BY <2>2, <2>3 DEF InStepWith, RestsAfter
<1>5. QED
  BY <1>2, <1>3, <1>4

\* However a resume of the exchange goes, what it wrote and what it read are
\* in step with the server.
LEMMA AuthResumeInStep ==
  ASSUME PartsTypeOK, ExchangeInStep, ArgInv, AuthResume, UNCHANGED << wireVars, serverVars >>
  PROVE  ExchangeInStep' /\ ArgInv'
<1>1. CASE \/ ReadsMore \/ ReadsError \/ AnswerPending \/ AnswerChallenge
           \/ CompletionRefused \/ CompletionAccepted
  <2>1. auth = "Read" /\ auth' = "Read"
    BY <1>1 DEF ReadsMore, ReadsError, AnswerPending, AnswerChallenge, CompletionRefused,
                CompletionAccepted, Accepts, Reads, authVars
  <2>2. InStepWith("sasl")' /\ ArgInv'
    BY <1>1, <2>1, ReadInStep DEF ExchangeInStep
  <2>3. QED
    BY <2>1, <2>2 DEF ExchangeInStep
<1>2. CASE CancelExchange
  <2>1. auth = "Read" /\ auth' = "Abort"
    BY <1>2 DEF CancelExchange, Reads
  <2>2. InStepWith("cancel")' /\ ArgInv'
    BY <1>2, <2>1, CancelInStep DEF ExchangeInStep
  <2>3. QED
    BY <2>1, <2>2 DEF ExchangeInStep
<1>3. CASE FetchCapabilities
  <2>1. auth = "Read" /\ auth' = "Capability"
    BY <1>3 DEF FetchCapabilities, Accepts, Reads
  <2>2. InStepWith("listing")' /\ ArgInv'
    BY <1>3, <2>1, FetchInStep DEF ExchangeInStep
  <2>3. QED
    BY <2>1, <2>2 DEF ExchangeInStep
<1>4. CASE AbortReadsMore \/ AbortEnds
  <2>1. auth = "Abort" /\ auth' = "Abort"
    BY <1>4 DEF AbortReadsMore, AbortEnds, Aborting, authVars
  <2>2. InStepWith("cancel")' /\ ArgInv'
    BY <1>4, <2>1, AbortInStep DEF ExchangeInStep
  <2>3. QED
    BY <2>1, <2>2 DEF ExchangeInStep
<1>5. CASE CapabilityReadsMore \/ CapabilityFails \/ CapabilityRejected \/ CapabilityDone
  <2>1. auth = "Capability" /\ auth' = "Capability"
    BY <1>5 DEF CapabilityReadsMore, CapabilityFails, CapabilityRejected, CapabilityDone, Fetching,
                authVars
  <2>2. InStepWith("listing")' /\ ArgInv'
    BY <1>5, <2>1, CapabilityInStep DEF ExchangeInStep
  <2>3. QED
    BY <2>1, <2>2 DEF ExchangeInStep
<1>6. QED
  BY <1>1, <1>2, <1>3, <1>4, <1>5 DEF AuthResume

\* The first message of an exchange that starts on a stream at rest.
LEMMA StartInStep ==
  ASSUME PartsTypeOK, Start(opts), buf' = <<>>, net \in Seq(Byes), Rests("idle")', UNCHANGED wireVars,
         st' # "closed" => ~dropped'
  PROVE  /\ auth' = "Read" => InStepWith("sasl")'
         /\ auth' \in {"Start", "Read"} /\ ArgInv'
         /\ auth' = "Start" => out' = "Complete"
<1>1. arg' = None
  BY DEF Start, UnsupportedMechanism, StartFails, StartWrites, Complete, WantsWrite
<1>2. Stream' = Then(<<>>, net) /\ ArgInv'
  BY <1>1, EmptySeq, BufferIsReceived DEF wireVars
<1>3. Stream' \in Seq(Byes)
  BY <1>2, ByesAreUnits, ThenNothing
<1>4. CASE StartWrites(opts)
  <2>1. out' = "WantsWrite" /\ Needs(msg') = "idle" /\ For(msg') = "sasl" /\ auth' = "Read"
    BY <1>4 DEF StartWrites, WantsWrite, Needs, For
  <2>2. Rests(Needs(msg))'
    BY <2>1 DEF Rests
  <2>3. QED
    BY <1>2, <1>3, <2>1, <2>2 DEF InStepWith
<1>5. CASE UnsupportedMechanism(opts) \/ StartFails(opts)
  BY <1>2, <1>5 DEF UnsupportedMechanism, StartFails, Complete, Start
<1>6. QED
  BY <1>4, <1>5 DEF Start

-----------------------------------------------------------------------------
(* What the client may conclude from a reply.                              *)

\* A listing is the one in force when it is read.
LEMMA ListedInForce ==
  ASSUME PartsTypeOK, NEW w \in {"greeting", "listing"}, InStepWith(w), out = "Run",
         Reading = "response", Completion(Received).kind = "ok"
  PROVE  Listed(Received).on = Phase
<1>1. HasResponse(Received) /\ Waits(w)
  BY ReadingResponse DEF InStepWith
<1>2. Completion(Received).on = Phase
  BY <1>1, AnswerRead DEF Answers
<1>3. QED
  BY <1>2 DEF Listed

\* An OK that is accepted is the server's.
LEMMA AcceptedIsAuthed ==
  ASSUME PartsTypeOK, InStepWith("sasl"), Accepts
  PROVE  authed
<1>1. HasLine(Received) /\ FirstLine(Received).kind = "ok" /\ Waits("sasl")
  BY ChallengeLine DEF Accepts, Reads, InStepWith
<1>2. QED
  BY <1>1, SaslRead

\* A server accepts an AUTHENTICATE when it was sent one, and never forgets.
LEMMA PeerAuthed ==
  ASSUME PartsTypeOK, Reply \/ Disturb
  PROVE  /\ authed => authed'
         /\ \A w \in Answers \ {"sasl"} :
              InStepWith(w) /\ out \in {"Run", "WantsRead", "WantsWrite"} => authed' = authed
<1>1. \/ UNCHANGED authed
      \/ ServerAnswer /\ AnswerSasl(Head(inbox))
  BY DEF Reply, Disturb, Greet, ServerAnswer, GiveUp, Stray, AnswerStartTls, AnswerCapability, AnswerNo
<1>2. CASE ServerAnswer /\ AnswerSasl(Head(inbox))
  <2>1. /\ inbox # <<>> /\ st # "closed" /\ (authed' = authed \/ authed' = TRUE)
        /\ For(Head(inbox)) = "sasl"
    BY <1>2 DEF ServerAnswer, AnswerSasl, For
  <2>2. ASSUME NEW w \in Answers \ {"sasl"}, InStepWith(w), out \in {"Run", "WantsRead", "WantsWrite"}
        PROVE  FALSE
    <3>1. CASE out = "WantsWrite"
      BY <2>1, <2>2, <3>1 DEF InStepWith, Rests
    <3>2. CASE out \in {"Run", "WantsRead"}
      <4>1. PICK z : WaitsWith(w, z)
        BY <2>2, <3>2 DEF InStepWith, Waits
      <4>2. Owed(w)
        BY <2>1, <4>1 DEF WaitsWith
      <4>3. QED
        BY <2>1, <2>2, <4>2 DEF Owed
    <3>3. QED
      BY <2>2, <3>1, <3>2
  <2>3. QED
    BY <2>1, <2>2
<1>3. CASE UNCHANGED authed
  BY <1>3
<1>4. QED
  BY <1>1, <1>2, <1>3
=============================================================================
