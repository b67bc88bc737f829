------------------------ MODULE AuthenticationProofs ------------------------
(***************************************************************************)
(* ManagesieveClient::authenticate, for every bound, mechanism and         *)
(* behaviour of the server: the types, what is written and in which order, *)
(* what a success rests on and what a failure reports.                     *)
(***************************************************************************)
EXTENDS Authentication, AuthenticateProofs

-----------------------------------------------------------------------------
(* The invariants.                                                         *)

\* An exchange that was not started said nothing; one that has not returned
\* has no result.
StartInv ==
  /\ auth = "Start" => /\ out \in {"Run", "Complete"} /\ sent = <<>>
                       /\ turn = 0 /\ pending = Absent /\ ~proved
  /\ out # "Complete" => result = "none"
  /\ auth = "Start" => result # "ok"

\* A payload on its way out is the one after those that left; the first may
\* wait for a challenge, and then nothing else was said.
OrderInv ==
  /\ PayloadsInOrder
  /\ out = "WantsWrite" /\ msg.payload \in {1, 2} => Spoken = 1..(msg.payload - 1)
  /\ auth = "Read" /\ pending # Absent =>
       /\ pending = 1 /\ turn = 1 /\ Spoken = {}
       /\ out = "WantsWrite" => msg.payload \notin {1, 2}

\* What the mechanism has said and heard when the client takes an OK.
Proven ==
  /\ FirstPayload(opts.mech) # Absent => Spoken # {}
  /\ Mutual(opts.mech) => proved /\ Spoken = {1, 2}

ProvenInv ==
  /\ Mutual(opts.mech) /\ proved => turn = 2
  /\ auth = "Read" /\ FirstPayload(opts.mech) # Absent => turn # 0
  /\ auth = "Capability" \/ result = "ok" => Proven

\* The reason for a cancellation lives as long as the wait for its reply, and
\* the "*" is written once.
CancelInv ==
  /\ cause # "none" <=> auth = "Abort"
  /\ auth = "Abort" /\ out = "Complete" => result = cause
  /\ \A i \in DOMAIN sent :
       sent[i].msg.cmd = "CANCEL" => i = Len(sent) /\ auth = "Abort" /\ out # "WantsWrite"
  /\ out = "WantsWrite" => (msg.cmd = "CANCEL" <=> auth = "Abort")

\* A coroutine that was given no bytes and must read a whole response holds
\* none: a resume without bytes asks for a read whatever it holds.
HeldInv ==
  /\ NoIdleRead
  /\ arg.some \/ arg.data = <<>>
  /\ auth = "Capability" /\ (out = "WantsWrite" \/ (out = "Run" /\ ~arg.some)) => buf = <<>>

AuthenticationInv == StartInv /\ OrderInv /\ ProvenInv /\ CancelInv /\ HeldInv

-----------------------------------------------------------------------------
(* Type correctness.                                                       *)

LEMMA PartsOfTypeOK == TypeOK <=> PartsTypeOK
BY DEF TypeOK, PartsTypeOK

LEMMA InitTypeOK == Init => TypeOK
<1> SUFFICES ASSUME Init PROVE TypeOK
  OBVIOUS
<1>1. ExchangeTypeOK
  BY NoneType, EmptySeq
  DEF Init, ExchangeInit, ExchangeTypeOK, Outs, Results, Msg, Command, Cmds, Payloads, Absent, Sockets
<1>2. asked \in 0..MaxChallenges /\ strays \in 0..MaxStray
  <2>1. asked = 0 /\ strays = 0
    BY DEF Init
  <2>2. QED
    BY <2>1, ServerAssumption
<1>3. ServerTypeOK
  BY <1>2 DEF Init, ServerTypeOK, ServerStates
<1>4. AuthTypeOK
  BY DEF Init, AuthInit, AuthTypeOK, AuthStates, Payloads, Absent, NoCapabilities, Capabilities, Phases
<1>5. QED
  BY <1>1, <1>3, <1>4 DEF TypeOK

LEMMA ResumeTypeOK ==
  ASSUME TypeOK, Resume
  PROVE  TypeOK'
<1>1. PartsTypeOK
  BY PartsOfTypeOK
<1>2. Returned' /\ Buffered' /\ AuthTypeOK'
  <2>1. CASE Begin
    BY <1>1, <2>1, StartTypes
    DEF Begin, Buffered, PartsTypeOK, ExchangeTypeOK, AuthTypeOK
  <2>2. CASE AuthResume
    BY <1>1, <2>2, AuthResumeTypes
  <2>3. QED
    BY <2>1, <2>2 DEF Resume
<1>3. UNCHANGED << wireVars, serverVars >>
  BY DEF Resume
<1>4. QED
  BY <1>2, <1>3
  DEF TypeOK, ExchangeTypeOK, ServerTypeOK, wireVars, serverVars, Returned, Buffered

LEMMA PumpTypeOK ==
  ASSUME TypeOK, Pump
  PROVE  TypeOK'
<1>1. ExchangeTypeOK'
  BY PartsOfTypeOK, PumpIoTypes DEF Pump
<1>2. QED
  BY <1>1 DEF Pump, TypeOK, ServerTypeOK, AuthTypeOK, serverVars, authVars

\* Every variable stays in its type, whatever the bounds and the mechanisms.
THEOREM AuthenticationTypeOK == Spec => []TypeOK
<1>1. TypeOK /\ [Next]_vars => TypeOK'
  <2> SUFFICES ASSUME TypeOK, [Next]_vars PROVE TypeOK'
    OBVIOUS
  <2>1. CASE Peer
    BY <2>1, PartsOfTypeOK, PeerPartsTypeOK DEF Peer, TypeOK, PartsTypeOK
  <2>2. CASE UNCHANGED vars
    BY <2>2 DEF vars, exchangeVars, coroutineVars, wireVars, serverVars, authVars,
                TypeOK, ExchangeTypeOK, ServerTypeOK, AuthTypeOK
  <2>3. QED
    BY <2>1, <2>2, ResumeTypeOK, PumpTypeOK DEF Next, Finished
<1>2. QED
  BY <1>1, InitTypeOK, PTL DEF Spec

-----------------------------------------------------------------------------
(* What left, before and after a step.                                     *)

LEMMA SentKept ==
  ASSUME UNCHANGED sent
  PROVE  UNCHANGED Spoken /\ \A i : SpokenBefore(i)' = SpokenBefore(i)
BY DEF Spoken, SpokenBefore

LEMMA NothingSpoken ==
  ASSUME sent = <<>>
  PROVE  Spoken = {} /\ DOMAIN sent = {}
BY DEF Spoken, SpokenBefore

\* A message that is written is behind those that were, and says its payload.
LEMMA WriteSpeaks ==
  ASSUME TypeOK, PumpWrite
  PROVE  /\ Len(sent') = Len(sent) + 1 /\ Len(sent) \in Nat /\ DOMAIN sent = 1..Len(sent)
         /\ DOMAIN sent' = 1..(Len(sent) + 1)
         /\ \A i \in DOMAIN sent : sent'[i] = sent[i]
         /\ sent'[Len(sent) + 1] = [msg |-> msg, over |-> sock]
         /\ \A i \in 1..(Len(sent) + 1) : SpokenBefore(i)' = SpokenBefore(i)
         /\ Spoken' = Spoken \cup ({msg.payload} \cap {1, 2})
<1>1. /\ \A i \in DOMAIN sent : sent'[i] = sent[i]
      /\ sent'[Len(sent) + 1] = [msg |-> msg, over |-> sock]
  BY PartsOfTypeOK, WriteExtends
<1>2. /\ Len(sent') = Len(sent) + 1 /\ Len(sent) \in Nat /\ DOMAIN sent = 1..Len(sent)
      /\ DOMAIN sent' = 1..(Len(sent) + 1)
  BY LenProperties, AppendProperties DEF PumpWrite, TypeOK, ExchangeTypeOK
<1>3. ASSUME NEW i \in 1..(Len(sent) + 1)
      PROVE  SpokenBefore(i)' = SpokenBefore(i)
  <2>1. 1..(i - 1) \subseteq DOMAIN sent
    BY <1>2, <1>3
  <2>2. \A j \in 1..(i - 1) : sent'[j].msg.payload = sent[j].msg.payload
    BY <1>1, <2>1
  <2>3. QED
    BY <2>2 DEF SpokenBefore
<1>4. Spoken' = Spoken \cup ({msg.payload} \cap {1, 2})
  <2>1. /\ Len(sent') + 1 - 1 = Len(sent) + 1 /\ Len(sent) + 1 - 1 = Len(sent)
        /\ 1..(Len(sent) + 1) = 1..Len(sent) \cup {Len(sent) + 1}
    BY <1>2
  <2>2. Spoken' = {sent'[j].msg.payload : j \in 1..(Len(sent) + 1)} \cap {1, 2}
    BY <2>1 DEF Spoken, SpokenBefore
  <2>3. Spoken = {sent[j].msg.payload : j \in 1..Len(sent)} \cap {1, 2}
    BY <2>1 DEF Spoken, SpokenBefore
  <2>4. {sent'[j].msg.payload : j \in 1..(Len(sent) + 1)}
          = {sent[j].msg.payload : j \in 1..Len(sent)} \cup {msg.payload}
    <3>1. \A j \in 1..Len(sent) : sent'[j].msg.payload = sent[j].msg.payload
      BY <1>1, <1>2
    <3>2. sent'[Len(sent) + 1].msg.payload = msg.payload
      BY <1>1
    <3>3. QED
      BY <2>1, <3>1, <3>2
  <2>5. QED
    BY <2>2, <2>3, <2>4
<1>5. QED
  BY <1>1, <1>2, <1>3, <1>4

-----------------------------------------------------------------------------
(* The calls of resume.                                                    *)

\* Where a resume may leave the exchange, by the state it was called in.
LEMMA ResumeLeaves ==
  ASSUME TypeOK, Resume
  PROVE  /\ out = "Run" /\ UNCHANGED << sent, opts >>
         /\ \/ out' \in {"WantsRead", "WantsWrite"} /\ result' = result
            \/ out' = "Complete"
<1> USE DEF Yield, WantsWrite, Complete, Respond
<1>1. UNCHANGED << sent >>
  BY DEF Resume, wireVars
<1>2. CASE Begin
  BY <1>1, <1>2 DEF Begin, Start, UnsupportedMechanism, StartFails, StartWrites
<1>3. CASE AuthResume
  BY <1>1, <1>3
  DEF AuthResume, ReadsMore, ReadsError, Reads, AnswerPending, AnswerChallenge, CancelExchange,
      CompletionRefused, CompletionAccepted, FetchCapabilities, Accepts, AbortReadsMore, AbortEnds,
      Aborting, CapabilityReadsMore, CapabilityFails, CapabilityRejected, CapabilityDone, Fetching,
      ReadMore, ReadFail, authVars
<1>4. QED
  BY <1>2, <1>3 DEF Resume

LEMMA ResumeStart ==
  ASSUME TypeOK, StartInv, Resume
  PROVE  StartInv'
<1> USE DEF StartInv
<1>1. out = "Run" /\ UNCHANGED sent /\ (out' # "Complete" => result' = "none")
  BY ResumeLeaves
<1>2. CASE Begin
  BY <1>1, <1>2
  DEF Begin, Start, UnsupportedMechanism, StartFails, StartWrites, Complete, WantsWrite
<1>3. CASE AuthResume
  <2>1. auth' # "Start"
    BY <1>3
    DEF AuthResume, ReadsMore, ReadsError, Reads, AnswerPending, AnswerChallenge, CancelExchange,
        CompletionRefused, CompletionAccepted, FetchCapabilities, Accepts, AbortReadsMore, AbortEnds,
        Aborting, CapabilityReadsMore, CapabilityFails, CapabilityRejected, CapabilityDone, Fetching,
        authVars
  <2>2. QED
    BY <1>1, <2>1
<1>4. QED
  BY <1>2, <1>3 DEF Resume

\* The mechanism is asked for its payloads one after the other.
LEMMA NextInOrder ==
  ASSUME TypeOK, NEW v
  PROVE  NextPayload(opts.mech, v) \in {Absent, Empty, turn + 1} /\ turn \in {0, 1, 2}
<1>1. turn \in {0, 1, 2}
  BY DEF TypeOK, AuthTypeOK
<1>2. QED
  BY <1>1 DEF NextPayload

LEMMA ResumeOrder ==
  ASSUME TypeOK, StartInv, OrderInv, Resume
  PROVE  OrderInv'
<1>1. out = "Run" /\ UNCHANGED sent
  BY ResumeLeaves
<1>2. Spoken' = Spoken /\ \A i : SpokenBefore(i)' = SpokenBefore(i)
  BY <1>1, SentKept
<1>3. turn \in {0, 1, 2} /\ pending \in {-1, 0, 1, 2}
  BY DEF TypeOK, AuthTypeOK, Payloads, Absent, Empty
<1>4. SUFFICES
        /\ auth' = "Read" /\ ~Over' => 1..turn' = Spoken \cup Waiting'
        /\ out' = "WantsWrite" /\ msg'.payload \in {1, 2} => Spoken = 1..(msg'.payload - 1)
        /\ auth' = "Read" /\ pending' # Absent =>
             /\ pending' = 1 /\ turn' = 1 /\ Spoken = {}
             /\ out' = "WantsWrite" => msg'.payload \notin {1, 2}
  BY <1>1, <1>2 DEF OrderInv, PayloadsInOrder
<1> USE DEF OrderInv, PayloadsInOrder, Over, Waiting, Absent, Empty
<1>5. CASE Begin
  <2>1. sent = <<>> /\ turn = 0 /\ pending = -1 /\ Spoken = {}
    BY <1>5, NothingSpoken DEF Begin, Start, StartInv
  <2>2. CASE UnsupportedMechanism(opts) \/ StartFails(opts)
    BY <1>5, <2>1, <2>2 DEF Begin, Start, UnsupportedMechanism, StartFails, Complete
  <2>3. CASE StartWrites(opts)
    <3>1. FirstPayload(opts.mech) \in {-1, 1}
      BY DEF FirstPayload
    <3>2. /\ out' = "WantsWrite" /\ auth' = "Read"
          /\ \/ msg'.payload = -1 /\ pending' = -1 /\ turn' = 0
             \/ msg'.payload = 1 /\ pending' = -1 /\ turn' = 1
             \/ msg'.payload = -1 /\ pending' = 1 /\ turn' = 1
      BY <2>3, <3>1 DEF StartWrites, WantsWrite
    <3>3. 1..0 = {} /\ 1..1 = {1}
      OBVIOUS
    <3>4. ({-1} \cup {-1}) \cap {1, 2} = {} /\ ({-1} \cup {1}) \cap {1, 2} = {1}
          /\ ({1} \cup {-1}) \cap {1, 2} = {1}
      OBVIOUS
    <3>5. Waiting' = ({pending'} \cup {msg'.payload}) \cap {1, 2}
      BY <3>2
    <3>6. 1..turn' = Spoken \cup Waiting'
      BY <2>1, <3>2, <3>3, <3>4, <3>5
    <3>7. QED
      BY <2>1, <3>2, <3>3, <3>6
  <2>4. QED
    BY <1>5, <2>2, <2>3 DEF Begin, Start
<1>6. CASE ReadsMore
  BY <1>1, <1>6 DEF ReadsMore, Reads, Yield, authVars
<1>7. CASE ReadsError \/ CompletionRefused \/ CompletionAccepted
  BY <1>1, <1>7 DEF ReadsError, CompletionRefused, CompletionAccepted, Accepts, Reads, Complete, authVars
<1>8. CASE AnswerPending
  <2>1. auth = "Read" /\ pending = 1 /\ turn = 1 /\ Spoken = {}
    BY <1>8 DEF AnswerPending, Reads
  <2>2. out' = "WantsWrite" /\ msg'.payload = 1 /\ pending' = -1 /\ turn' = 1 /\ auth' = "Read"
    BY <1>8, <2>1 DEF AnswerPending, Respond, WantsWrite
  <2>3. 1..0 = {} /\ 1..1 = {1}
    OBVIOUS
  <2>4. QED
    BY <2>1, <2>2, <2>3
<1>9. CASE AnswerChallenge
  <2> DEFINE p == NextPayload(opts.mech, FirstLine(Received).val)
  <2>1. auth = "Read" /\ pending = -1 /\ 1..turn = Spoken
    BY <1>1, <1>9 DEF AnswerChallenge, Reads
  <2>2. p \in {0, turn + 1}
    BY <1>9, NextInOrder DEF AnswerChallenge
  <2>3. /\ out' = "WantsWrite" /\ msg'.payload = p /\ pending' = -1 /\ auth' = "Read"
        /\ turn' = IF p \in {1, 2} THEN p ELSE turn
    BY <1>9, <2>1 DEF AnswerChallenge, Respond, WantsWrite, Advance
  <2>4. p \in {-1, 0, 1, 2}
    BY NextPayloadType, PartsOfTypeOK DEF Payloads
  <2> HIDE DEF p
  <2>5. CASE p \in {1, 2}
    <3>1. turn' = p /\ p = turn + 1 /\ turn = p - 1 /\ 1..p = 1..turn \cup {p}
      BY <1>3, <2>2, <2>3, <2>5
    <3>2. Waiting' = {p}
      <4>1. Waiting' = ({-1} \cup {p}) \cap {1, 2}
        BY <2>3
      <4>2. ({-1} \cup {1}) \cap {1, 2} = {1} /\ ({-1} \cup {2}) \cap {1, 2} = {2}
        OBVIOUS
      <4>3. QED
        BY <2>5, <4>1, <4>2
    <3>3. QED
      BY <2>1, <2>3, <3>1, <3>2
  <2>6. CASE p \notin {1, 2}
    BY <2>1, <2>3, <2>6
  <2>7. QED
    BY <2>5, <2>6
<1>10. CASE CancelExchange \/ FetchCapabilities
  BY <1>10 DEF CancelExchange, FetchCapabilities, Command, WantsWrite
<1>11. CASE AbortReadsMore \/ AbortEnds
  BY <1>11 DEF AbortReadsMore, AbortEnds, Aborting, Yield, Complete, authVars
<1>12. CASE CapabilityReadsMore \/ CapabilityFails \/ CapabilityRejected \/ CapabilityDone
  BY <1>12
  DEF CapabilityReadsMore, CapabilityFails, CapabilityRejected, CapabilityDone, Fetching, ReadMore,
      ReadFail, Yield, Complete, authVars
<1>13. QED
  BY <1>5, <1>6, <1>7, <1>8, <1>9, <1>10, <1>11, <1>12 DEF Resume, AuthResume

\* A mutual mechanism that knows the server's proof has said everything.
LEMMA AdvanceProven ==
  ASSUME TypeOK, ProvenInv, NEW v, Advance(v)
  PROVE  /\ turn' \in {turn, 1, 2}
         /\ Mutual(opts.mech) /\ proved' => turn = 2 /\ turn' = 2
         /\ Mutual(opts.mech) /\ NextPayload(opts.mech, v) = Empty => proved' /\ turn = 2
<1> DEFINE p == NextPayload(opts.mech, v)
<1>1. turn \in {0, 1, 2}
  BY DEF TypeOK, AuthTypeOK
<1>2. turn' = (IF p \in {1, 2} THEN p ELSE turn) /\ (proved' <=> proved \/ (Mutual(opts.mech) /\ p = 0))
  BY DEF Advance, Empty
<1>3. Mutual(opts.mech) =>
        \/ turn = 1 /\ p = 2
        \/ turn = 2 /\ p = 0
        \/ p = -1
  BY DEF NextPayload, Absent, Empty
<1> HIDE DEF p
<1>4. turn' \in {turn, 1, 2}
  BY <1>2
<1>5. ASSUME Mutual(opts.mech)
      PROVE  /\ proved' => turn = 2 /\ turn' = 2
             /\ p = 0 => proved' /\ turn = 2
  <2>1. proved => turn = 2
    BY <1>5 DEF ProvenInv
  <2>2. CASE turn = 1 /\ p = 2
    BY <1>2, <2>1, <2>2
  <2>3. CASE turn = 2 /\ p = 0
    BY <1>2, <1>5, <2>3
  <2>4. CASE p = -1
    BY <1>2, <2>1, <2>4
  <2>5. QED
    BY <1>3, <1>5, <2>2, <2>3, <2>4
<1>6. QED
  BY <1>4, <1>5 DEF p, Empty

\* The client takes an OK only when the mechanism has said and heard enough.
LEMMA AcceptsProven ==
  ASSUME TypeOK, OrderInv, ProvenInv, Accepts, Spoken' = Spoken
  PROVE  Proven' /\ (Mutual(opts.mech) /\ proved' => turn' = 2)
<1> DEFINE val == FirstLine(Received).val
<1>1. UNCHANGED opts
  BY DEF Accepts
<1>2. auth = "Read" /\ out = "Run" /\ pending = Absent /\ Satisfied
  BY DEF Accepts, Reads
<1>3. 1..turn = Spoken /\ turn \in {0, 1, 2}
  <2>1. Waiting = {}
    BY <1>2 DEF Waiting, Absent
  <2>2. QED
    BY <1>2, <2>1 DEF OrderInv, PayloadsInOrder, Over, TypeOK, AuthTypeOK
<1>4. Mutual(opts.mech) => proved' /\ turn = 2 /\ turn' = 2
  <2>1. CASE val = "none"
    BY <1>2, <2>1 DEF Accepts, Satisfied, ProvenInv
  <2>2. CASE val # "none"
    <3>1. Advance(val)
      BY <2>2 DEF Accepts
    <3>2. Mutual(opts.mech) => proved \/ NextPayload(opts.mech, val) = Empty
      BY <1>2 DEF Satisfied
    <3>3. Mutual(opts.mech) => proved'
      BY <3>1, <3>2 DEF Advance
    <3>4. QED
      BY <3>1, <3>3, AdvanceProven
  <2>3. QED
    BY <2>1, <2>2
<1>5. FirstPayload(opts.mech) # Absent => Spoken # {}
  <2>1. turn # 0 => 1 \in 1..turn
    BY <1>3
  <2>2. QED
    BY <1>2, <1>3, <2>1 DEF ProvenInv
<1>6. turn = 2 => Spoken = {1, 2}
  BY <1>3
<1>7. QED
  BY <1>1, <1>4, <1>5, <1>6 DEF Proven

LEMMA ResumeProven ==
  ASSUME TypeOK, StartInv, OrderInv, ProvenInv, Resume
  PROVE  ProvenInv'
<1>1. /\ out = "Run" /\ UNCHANGED << sent, opts >> /\ result # "ok"
      /\ out' # "Complete" => result' = result
  BY ResumeLeaves DEF StartInv
<1>2. Spoken' = Spoken
  BY <1>1, SentKept
<1> USE DEF ProvenInv
<1>3. CASE Begin
  <2>1. CASE UnsupportedMechanism(opts) \/ StartFails(opts)
    BY <1>1, <1>3, <2>1 DEF Begin, Start, StartInv, UnsupportedMechanism, StartFails, Complete
  <2>2. CASE StartWrites(opts)
    BY <1>1, <1>3, <2>2 DEF Begin, Start, StartInv, StartWrites, WantsWrite, FirstPayload, Absent
  <2>3. QED
    BY <1>3, <2>1, <2>2 DEF Begin, Start
<1>4. CASE ReadsMore \/ ReadsError \/ CompletionRefused
  BY <1>1, <1>4
  DEF ReadsMore, ReadsError, CompletionRefused, Reads, Refused, Yield, Complete, authVars
<1>5. CASE AnswerPending \/ CancelExchange
  BY <1>1, <1>5 DEF AnswerPending, CancelExchange, Reads, Respond, WantsWrite
<1>6. CASE AnswerChallenge
  <2>1. Advance(FirstLine(Received).val) /\ auth = "Read" /\ auth' = "Read" /\ result' = result
    BY <1>6 DEF AnswerChallenge, Reads, Respond, WantsWrite
  <2>2. QED
    BY <1>1, <2>1, AdvanceProven
<1>7. CASE CompletionAccepted \/ FetchCapabilities
  <2>1. Accepts
    BY <1>7 DEF CompletionAccepted, FetchCapabilities
  <2>2. Proven' /\ (Mutual(opts.mech) /\ proved' => turn' = 2)
    BY <1>2, <2>1, AcceptsProven
  <2>3. auth' = "Read" /\ FirstPayload(opts.mech) # Absent => turn' # 0
    <3>1. turn' \in {turn, 1, 2} /\ auth = "Read"
      BY <2>1, AdvanceProven DEF Accepts, Reads
    <3>2. QED
      BY <3>1
  <2>4. QED
    BY <1>1, <2>2, <2>3
<1>8. CASE AbortReadsMore \/ AbortEnds
  <2>1. cause # "ok"
    BY DEF TypeOK, AuthTypeOK
  <2>2. QED
    BY <1>1, <1>8, <2>1 DEF AbortReadsMore, AbortEnds, Aborting, Yield, Complete, authVars
<1>9. CASE CapabilityReadsMore \/ CapabilityFails \/ CapabilityRejected \/ CapabilityDone
  <2>1. auth = "Capability" /\ UNCHANGED << opts, auth, proved, turn >>
    BY <1>9
    DEF CapabilityReadsMore, CapabilityFails, CapabilityRejected, CapabilityDone, Fetching, authVars
  <2>2. QED
    BY <1>1, <1>2, <2>1 DEF Proven
<1>10. QED
  BY <1>3, <1>4, <1>5, <1>6, <1>7, <1>8, <1>9 DEF Resume, AuthResume

LEMMA ResumeCancel ==
  ASSUME TypeOK, StartInv, CancelInv, Resume
  PROVE  CancelInv'
<1>1. out = "Run" /\ UNCHANGED sent
  BY ResumeLeaves
<1> USE DEF CancelInv
<1>2. CASE Begin
  BY <1>1, <1>2, NothingSpoken
  DEF Begin, Start, StartInv, UnsupportedMechanism, StartFails, StartWrites, Complete, WantsWrite
<1>3. CASE ReadsMore \/ ReadsError \/ CompletionRefused
  BY <1>1, <1>3 DEF ReadsMore, ReadsError, CompletionRefused, Reads, Yield, Complete, authVars
<1>4. CASE AnswerPending \/ AnswerChallenge
  BY <1>1, <1>4 DEF AnswerPending, AnswerChallenge, Reads, Respond, WantsWrite
<1>5. CASE CancelExchange
  BY <1>1, <1>5 DEF CancelExchange, Reads, Command, WantsWrite
<1>6. CASE CompletionAccepted \/ FetchCapabilities
  BY <1>1, <1>6
  DEF CompletionAccepted, FetchCapabilities, Accepts, Reads, Complete, Command, WantsWrite
<1>7. CASE AbortReadsMore \/ AbortEnds
  BY <1>1, <1>7 DEF AbortReadsMore, AbortEnds, Aborting, Yield, Complete, authVars
<1>8. CASE CapabilityReadsMore \/ CapabilityFails \/ CapabilityRejected \/ CapabilityDone
  BY <1>1, <1>8
  DEF CapabilityReadsMore, CapabilityFails, CapabilityRejected, CapabilityDone, Fetching, ReadMore,
      ReadFail, Yield, Complete, authVars
<1>9. QED
  BY <1>2, <1>3, <1>4, <1>5, <1>6, <1>7, <1>8 DEF Resume, AuthResume

LEMMA ResumeHeld ==
  ASSUME TypeOK, HeldInv, Resume
  PROVE  HeldInv'
<1>1. out = "Run" /\ arg' = None
  BY ResumeLeaves
  DEF Resume, Begin, Start, UnsupportedMechanism, StartFails, StartWrites, AuthResume, ReadsMore,
      ReadsError, AnswerPending, AnswerChallenge, Respond, CancelExchange, CompletionRefused,
      CompletionAccepted, FetchCapabilities, AbortReadsMore, AbortEnds, CapabilityReadsMore,
      CapabilityFails, CapabilityRejected, CapabilityDone, ReadMore, ReadFail, Yield, WantsWrite,
      Complete
<1>2. Received \in Seq(Unit)
  BY PartsOfTypeOK, ReceivedType
<1>3. arg'.data = <<>>
  BY <1>1 DEF None
<1>4. SUFFICES
        /\ out' = "WantsRead" => IF auth' = "Read" THEN ~HasLine(buf') ELSE ~HasResponse(buf')
        /\ auth' = "Capability" /\ (out' = "WantsWrite" \/ out' = "Run") => buf' = <<>>
  BY <1>3 DEF HeldInv, NoIdleRead
<1> USE DEF HeldInv
<1>5. CASE Begin
  BY <1>5
  DEF Begin, Start, UnsupportedMechanism, StartFails, StartWrites, WantsWrite, Complete
<1>6. CASE ReadsMore
  <2>1. ~HasLine(Received) /\ auth = "Read"
    BY <1>6 DEF ReadsMore, Reads, LineReading
  <2>2. QED
    BY <1>6, <2>1 DEF ReadsMore, Yield, authVars
<1>7. CASE ReadsError \/ CompletionRefused \/ CompletionAccepted
  BY <1>7 DEF ReadsError, CompletionRefused, CompletionAccepted, Complete
<1>8. CASE AnswerPending \/ AnswerChallenge
  BY <1>8 DEF AnswerPending, AnswerChallenge, Reads, Respond, WantsWrite
<1>9. CASE CancelExchange
  BY <1>9 DEF CancelExchange, WantsWrite
<1>10. CASE FetchCapabilities
  BY <1>10 DEF FetchCapabilities, WantsWrite, NewBuffer
<1>11. CASE AbortReadsMore
  <2>1. ~HasResponse(Unfinished(Received))
    BY <1>2, UnfinishedHasNoLine, NoLineNoResponse
  <2>2. QED
    BY <1>11, <2>1 DEF AbortReadsMore, Aborting, Yield, authVars
<1>12. CASE AbortEnds \/ CapabilityFails \/ CapabilityRejected \/ CapabilityDone
  BY <1>12 DEF AbortEnds, CapabilityFails, CapabilityRejected, CapabilityDone, ReadFail, Complete
<1>13. CASE CapabilityReadsMore
  <2>1. auth = "Capability" /\ Reading = "read" /\ buf' = Received /\ out' = "WantsRead" /\ UNCHANGED auth
    BY <1>13 DEF CapabilityReadsMore, Fetching, ReadMore, Yield, authVars
  <2>2. CASE arg.some
    <3>1. ~HasResponse(Received)
      BY <2>1, <2>2 DEF Reading
    <3>2. QED
      BY <2>1, <3>1
  <2>3. CASE ~arg.some
    <3>1. buf = <<>> /\ arg.data = <<>>
      BY <1>1, <2>1, <2>3
    <3>2. Received = <<>>
      BY <3>1, ConcatProperties, EmptySeq DEF Received
    <3>3. QED
      BY <2>1, <3>2, EmptyHasNoLine
  <2>4. QED
    BY <2>2, <2>3
<1>14. QED
  BY <1>5, <1>6, <1>7, <1>8, <1>9, <1>10, <1>11, <1>12, <1>13 DEF Resume, AuthResume

LEMMA ResumeInv ==
  ASSUME TypeOK, AuthenticationInv, Resume
  PROVE  AuthenticationInv'
BY ResumeStart, ResumeOrder, ResumeProven, ResumeCancel, ResumeHeld DEF AuthenticationInv

-----------------------------------------------------------------------------
(* The pump and the server.                                                *)

\* A read, an end of file or a failure of the socket says nothing new.
LEMMA ReadStepInv ==
  ASSUME TypeOK, AuthenticationInv, PumpRead \/ PumpEof(st = "closed") \/ PumpFail, UNCHANGED authVars
  PROVE  AuthenticationInv'
<1>1. /\ UNCHANGED << sent, result, msg, buf, authVars >>
      /\ out' # "Complete" /\ out' # "WantsWrite" /\ out' # "WantsRead"
      /\ out # "Complete" /\ out # "Run" /\ out # "Broken"
      /\ PumpRead \/ PumpEof(st = "closed") => out' = "Run" /\ out = "WantsRead" /\ arg'.some
      /\ PumpFail => out' = "Broken" /\ UNCHANGED arg
  BY DEF PumpRead, PumpEof, PumpFail, wireVars, Yields, Some, Eof
<1>2. Spoken' = Spoken /\ \A i : SpokenBefore(i)' = SpokenBefore(i)
  BY <1>1, SentKept
<1> USE DEF authVars
<1>3. StartInv'
  BY <1>1 DEF AuthenticationInv, StartInv
<1>4. OrderInv'
  <2>1. out' \in {"Run", "Broken"} /\ (out' = "Run" => out = "WantsRead")
    BY <1>1
  <2>2. out' = "Run" => Waiting' = Waiting
    BY <1>1, <2>1 DEF Waiting
  <2>3. QED
    BY <1>1, <1>2, <2>1, <2>2 DEF AuthenticationInv, OrderInv, PayloadsInOrder, Over
<1>5. ProvenInv'
  BY <1>1, <1>2 DEF AuthenticationInv, ProvenInv, Proven
<1>6. CancelInv'
  BY <1>1 DEF AuthenticationInv, CancelInv
<1>7. HeldInv'
  BY <1>1 DEF AuthenticationInv, HeldInv, NoIdleRead
<1>8. QED
  BY <1>3, <1>4, <1>5, <1>6, <1>7 DEF AuthenticationInv

LEMMA WriteStepInv ==
  ASSUME TypeOK, AuthenticationInv, PumpWrite, UNCHANGED authVars
  PROVE  AuthenticationInv'
<1>1. /\ UNCHANGED << result, msg, buf, authVars >>
      /\ out = "WantsWrite" /\ out' = "Run" /\ arg' = None
  BY DEF PumpWrite
<1>2. /\ Len(sent') = Len(sent) + 1 /\ Len(sent) \in Nat /\ DOMAIN sent = 1..Len(sent)
      /\ DOMAIN sent' = 1..(Len(sent) + 1)
      /\ \A i \in DOMAIN sent : sent'[i] = sent[i]
      /\ sent'[Len(sent) + 1] = [msg |-> msg, over |-> sock]
      /\ \A i \in 1..(Len(sent) + 1) : SpokenBefore(i)' = SpokenBefore(i)
      /\ Spoken' = Spoken \cup ({msg.payload} \cap {1, 2})
  BY WriteSpeaks
<1> USE DEF authVars
<1>3. StartInv'
  BY <1>1 DEF AuthenticationInv, StartInv
<1>4. OrderInv'
  <2>1. ASSUME NEW i \in DOMAIN sent', sent'[i].msg.payload \in {1, 2}
        PROVE  SpokenBefore(i)' = 1..(sent'[i].msg.payload - 1)
    <3>1. CASE i \in DOMAIN sent
      <4>1. sent'[i] = sent[i] /\ SpokenBefore(i)' = SpokenBefore(i)
        BY <1>2, <2>1, <3>1
      <4>2. QED
        BY <2>1, <3>1, <4>1 DEF AuthenticationInv, OrderInv, PayloadsInOrder
    <3>2. CASE i = Len(sent) + 1
      <4>1. sent'[i].msg.payload = msg.payload
        BY <1>2, <3>2
      <4>2. SpokenBefore(i)' = SpokenBefore(i)
        BY <1>2, <2>1
      <4>3. SpokenBefore(i) = Spoken
        BY <3>2 DEF Spoken
      <4>4. Spoken = 1..(msg.payload - 1)
        BY <1>1, <2>1, <4>1 DEF AuthenticationInv, OrderInv
      <4>5. QED
        BY <4>1, <4>2, <4>3, <4>4
    <3>3. QED
      BY <1>2, <2>1, <3>1, <3>2
  <2>2. auth' = "Read" /\ ~Over' => 1..turn' = Spoken' \cup Waiting'
    <3>1. auth' = "Read" => 1..turn = Spoken \cup Waiting
      BY <1>1 DEF AuthenticationInv, OrderInv, PayloadsInOrder, Over
    <3>2. Waiting = ({pending} \cup {msg.payload}) \cap {1, 2} /\ Waiting' = {pending} \cap {1, 2}
      BY <1>1 DEF Waiting
    <3>3. Spoken' \cup Waiting' = Spoken \cup Waiting
      BY <1>2, <3>2
    <3>4. QED
      BY <1>1, <3>1, <3>3
  <2>3. auth' = "Read" /\ pending' # Absent => pending' = 1 /\ turn' = 1 /\ Spoken' = {}
    BY <1>1, <1>2 DEF AuthenticationInv, OrderInv
  <2>4. QED
    BY <1>1, <2>1, <2>2, <2>3 DEF OrderInv, PayloadsInOrder
<1>5. ProvenInv'
  <2>1. Spoken \subseteq Spoken' /\ Spoken' \subseteq {1, 2}
    BY <1>2 DEF Spoken, SpokenBefore
  <2>2. Spoken # {} => Spoken' # {}
    BY <2>1
  <2>3. Spoken = {1, 2} => Spoken' = {1, 2}
    BY <2>1
  <2>4. Proven => Proven'
    BY <2>2, <2>3 DEF Proven
  <2>5. QED
    BY <1>1, <2>4 DEF AuthenticationInv, ProvenInv
<1>6. CancelInv'
  <2>1. ASSUME NEW i \in DOMAIN sent', sent'[i].msg.cmd = "CANCEL"
        PROVE  i = Len(sent') /\ auth' = "Abort" /\ out' # "WantsWrite"
    <3>1. CASE i \in DOMAIN sent
      BY <1>1, <1>2, <2>1, <3>1 DEF AuthenticationInv, CancelInv
    <3>2. CASE i = Len(sent) + 1
      BY <1>1, <1>2, <2>1, <3>2 DEF AuthenticationInv, CancelInv
    <3>3. QED
      BY <1>2, <2>1, <3>1, <3>2
  <2>2. QED
    BY <1>1, <2>1 DEF AuthenticationInv, CancelInv
<1>7. HeldInv'
  BY <1>1 DEF AuthenticationInv, HeldInv, NoIdleRead, None
<1>8. QED
  BY <1>3, <1>4, <1>5, <1>6, <1>7 DEF AuthenticationInv

\* The server reaches none of it.
LEMMA OtherStepInv ==
  ASSUME AuthenticationInv, UNCHANGED << out, result, msg, arg, buf, sent, authVars >>
  PROVE  AuthenticationInv'
<1>1. Spoken' = Spoken /\ \A i : SpokenBefore(i)' = SpokenBefore(i)
  BY SentKept
<1> USE DEF authVars, AuthenticationInv
<1>2. StartInv'
  BY DEF StartInv
<1>3. OrderInv'
  BY <1>1 DEF OrderInv, PayloadsInOrder, Waiting, Over
<1>4. ProvenInv' /\ CancelInv'
  BY <1>1 DEF ProvenInv, Proven, CancelInv
<1>5. HeldInv'
  BY DEF HeldInv, NoIdleRead
<1>6. QED
  BY <1>2, <1>3, <1>4, <1>5

-----------------------------------------------------------------------------
(* The exchange.                                                           *)

LEMMA InitInv == Init => AuthenticationInv
<1> SUFFICES ASSUME Init PROVE AuthenticationInv
  OBVIOUS
<1>1. Spoken = {} /\ DOMAIN sent = {}
  BY NothingSpoken DEF Init, ExchangeInit
<1>2. QED
  BY <1>1
  DEF Init, ExchangeInit, AuthInit, AuthenticationInv, StartInv, OrderInv, PayloadsInOrder,
      ProvenInv, CancelInv, HeldInv, NoIdleRead, Over, None

\* The invariant the theorems below rest on.
LEMMA AuthenticationInvariant == Spec => []AuthenticationInv
<1>1. TypeOK /\ AuthenticationInv /\ [Next]_vars => AuthenticationInv'
  <2> SUFFICES ASSUME TypeOK, AuthenticationInv, [Next]_vars PROVE AuthenticationInv'
    OBVIOUS
  <2>1. CASE Resume
    BY <2>1, ResumeInv
  <2>2. CASE Pump
    BY <2>2, ReadStepInv, WriteStepInv DEF Pump
  <2>3. CASE Peer
    BY <2>3, OtherStepInv DEF Peer, Reply, Disturb, coroutineVars
  <2>4. CASE UNCHANGED vars
    BY <2>4, OtherStepInv DEF vars, exchangeVars, coroutineVars, wireVars
  <2>5. QED
    BY <2>1, <2>2, <2>3, <2>4 DEF Next, Finished
<1>2. QED
  BY <1>1, InitInv, AuthenticationTypeOK, PTL DEF Spec

\* No payload of a mechanism is lost, repeated or overtaken: State::Read keeps
\* the one that waits for a challenge across reads of any size, and the first
\* challenge is answered from it.
THEOREM AuthenticationPayloadsInOrder == Spec => []PayloadsInOrder
<1>1. AuthenticationInv => PayloadsInOrder
  BY DEF AuthenticationInv, OrderInv
<1>2. QED
  BY <1>1, AuthenticationInvariant, PTL

\* A server's OK is taken only once a mechanism that speaks first has spoken,
\* and a mutual one has said everything and verified the server
\* (ManagesieveAuthenticate::complete), also when the capabilities are read
\* again before the coroutine returns.
THEOREM AuthenticationOkMeansProved == Spec => []OkMeansProved
<1>1. AuthenticationInv => OkMeansProved
  BY DEF AuthenticationInv, ProvenInv, Proven, OkMeansProved
<1>2. QED
  BY <1>1, AuthenticationInvariant, PTL

\* An exchange the client cancelled ends with the reason State::Abort keeps,
\* whatever arrives meanwhile, and nothing is written behind the "*".
THEOREM AuthenticationCauseReported == Spec => []CauseReported
<1>1. AuthenticationInv => CauseReported
  BY DEF AuthenticationInv, CancelInv, CauseReported
<1>2. QED
  BY <1>1, AuthenticationInvariant, PTL

\* The exchange never waits for bytes while a line, or a response, that it has
\* already read could be acted on: short reads and reads of several lines
\* cannot make it hang.
THEOREM AuthenticationNoIdleRead == Spec => []NoIdleRead
<1>1. AuthenticationInv => NoIdleRead
  BY DEF AuthenticationInv, HeldInv
<1>2. QED
  BY <1>1, AuthenticationInvariant, PTL

-----------------------------------------------------------------------------
(* A server that keeps the protocol.                                       *)

\* Before the exchange the stream is at rest; within it the client waits for
\* the answer to what it wrote last.
AuthInStepInv ==
  /\ ArgInv /\ ExchangeInStep
  /\ auth = "Start" =>
       /\ out \in {"Run", "Complete"} /\ buf = <<>> /\ net \in Seq(Byes)
       /\ Rests("idle") /\ (st # "closed" => ~dropped)

LEMMA InitInStep == Init => AuthInStepInv
<1> SUFFICES ASSUME Init PROVE AuthInStepInv
  OBVIOUS
<1>1. arg.data = <<>> /\ ~arg.some /\ buf = <<>> /\ net = <<>> /\ inbox = <<>> /\ auth = "Start"
  BY DEF Init, ExchangeInit, AuthInit, None
<1>2. <<>> \in Seq(Unit) /\ <<>> \in Seq(Byes)
  BY EmptySeq
<1>3. Received = <<>>
  BY <1>1, <1>2, ConcatEmptySeq DEF Received
<1>4. Stream = <<>>
  BY <1>1, <1>2, <1>3, ThenNothing DEF Stream
<1>5. QED
  BY <1>1, <1>2, <1>4 DEF AuthInStepInv, ArgInv, ExchangeInStep, Rests, Init, ExchangeInit

LEMMA NextInStep ==
  ASSUME TypeOK, TypeOK', MaxStray = 0, AuthInStepInv, [Next]_vars
  PROVE  AuthInStepInv'
<1>1. PartsTypeOK
  BY PartsOfTypeOK
<1>2. UNCHANGED strays
  <2>1. strays \in 0..MaxStray /\ strays' \in 0..MaxStray
    BY DEF TypeOK, ServerTypeOK
  <2>2. QED
    BY <2>1
<1>3. CASE Resume
  <2>1. UNCHANGED << wireVars, serverVars >>
    BY <1>3 DEF Resume
  <2>2. CASE Begin
    <3>1. /\ Start(opts) /\ auth = "Start" /\ buf' = <<>> /\ net \in Seq(Byes) /\ UNCHANGED dropped
          /\ Rests("idle") /\ (st # "closed" => ~dropped)
      BY <2>2 DEF Begin, Start, AuthInStepInv
    <3>2. arg' = None
      BY <3>1 DEF Start, UnsupportedMechanism, StartFails, StartWrites, Complete, WantsWrite
    <3>3. <<>> \in Seq(Unit) /\ Then(<<>>, net) = net
      BY <1>1, StreamParts, EmptySeq, ThenNothing
    <3>4. st # "closed" => net = <<>> /\ inbox = <<>> /\ st = "idle"
      <4>1. \A b, n \in Seq(Unit) : Then(b, n) = <<>> => n = <<>>
        BY ThenIsNothing
      <4>2. QED
        BY <1>1, <3>1, <4>1, StreamParts DEF Rests, Stream
    <3>5. Rests("idle")' /\ (st' # "closed" => ~dropped')
      BY <1>1, <2>1, <3>1, <3>2, <3>3, <3>4, Taken
    <3>6. /\ auth' = "Read" => InStepWith("sasl")'
          /\ auth' \in {"Start", "Read"} /\ ArgInv'
          /\ auth' = "Start" => out' = "Complete"
      BY <1>1, <2>1, <3>1, <3>5, StartInStep
    <3>7. QED
      BY <2>1, <3>1, <3>5, <3>6 DEF AuthInStepInv, ExchangeInStep, wireVars
  <2>3. CASE AuthResume
    <3>1. ExchangeInStep' /\ ArgInv'
      BY <1>1, <2>1, <2>3, AuthResumeInStep DEF AuthInStepInv
    <3>2. auth' # "Start"
      BY <2>3 DEF AuthResume, ReadsMore, ReadsError, AnswerPending, AnswerChallenge, CancelExchange,
                  CompletionRefused, CompletionAccepted, FetchCapabilities, AbortReadsMore, AbortEnds,
                  CapabilityReadsMore, CapabilityFails, CapabilityRejected, CapabilityDone,
                  Accepts, Reads, Aborting, Fetching, authVars
    <3>3. QED
      BY <3>1, <3>2 DEF AuthInStepInv
  <2>4. QED
    BY <1>3, <2>2, <2>3 DEF Resume
<1>4. CASE Pump
  <2>1. auth # "Start" /\ UNCHANGED << serverVars, auth >>
    BY <1>4 DEF Pump, AuthInStepInv, PumpRead, PumpEof, PumpWrite, PumpFail, Yields, authVars
  <2>2. \A w \in Answers : InStepWith(w) => InStepWith(w)' /\ ArgInv'
    BY <1>1, <1>4, <2>1, PumpInStep DEF Pump, AuthInStepInv
  <2>3. QED
    BY <1>1, <2>1, <2>2 DEF AuthInStepInv, ExchangeInStep, Answers, PartsTypeOK, AuthTypeOK, AuthStates
<1>5. CASE Peer
  <2>1. UNCHANGED auth /\ (Reply \/ Disturb)
    BY <1>5 DEF Peer, authVars
  <2>2. CASE auth = "Start"
    <3>1. /\ st' = "closed" /\ net' \in Seq(Byes) /\ Rests("idle")' /\ UNCHANGED << out, buf, arg >>
          /\ st # "closed"
      BY <1>1, <1>2, <2>1, <2>2, PeerAtRest DEF AuthInStepInv
    <3>2. QED
      BY <2>1, <2>2, <3>1 DEF AuthInStepInv, ArgInv, ExchangeInStep
  <2>3. CASE auth # "Start"
    <3>1. \A w \in Answers : InStepWith(w) => InStepWith(w)' /\ ArgInv'
      BY <1>1, <1>2, <2>1, PeerInStep DEF AuthInStepInv
    <3>2. QED
      BY <1>1, <2>1, <2>3, <3>1
      DEF AuthInStepInv, ExchangeInStep, Answers, PartsTypeOK, AuthTypeOK, AuthStates
  <2>4. QED
    BY <2>2, <2>3
<1>6. CASE UNCHANGED vars
  <2>1. Stream' = Stream
    BY <1>6, StreamKept DEF vars, exchangeVars, coroutineVars, wireVars
  <2>2. \A w : Waits(w) => Waits(w)'
    BY <1>6, <2>1, WaitsKept DEF vars, exchangeVars, wireVars, serverVars
  <2>3. \A w : InStepWith(w) => InStepWith(w)'
    BY <1>6, <2>1, <2>2
    DEF vars, exchangeVars, coroutineVars, wireVars, serverVars, InStepWith, Rests, RestsAfter
  <2>4. QED
    BY <1>6, <2>1, <2>3
    DEF vars, exchangeVars, coroutineVars, wireVars, serverVars, authVars, AuthInStepInv, ArgInv,
        ExchangeInStep, Rests
<1>7. QED
  BY <1>3, <1>4, <1>5, <1>6 DEF Next, Finished

\* With a server that keeps the protocol, an exchange that returned, however
\* it failed short of losing the stream, leaves no reply unread and no message
\* unanswered: every way out of State::Read cancels an open exchange and reads
\* the reply, and nothing that came with a reply is thrown away.
THEOREM AuthenticationInStep == ASSUME MaxStray = 0 PROVE Spec => []InStep
<1>1. TypeOK /\ AuthInStepInv /\ [Next]_vars /\ TypeOK' => AuthInStepInv'
  BY NextInStep
<1>2. TypeOK /\ AuthenticationInv /\ AuthInStepInv => InStep
  <2> SUFFICES ASSUME TypeOK, AuthenticationInv, AuthInStepInv, out = "Complete", result \notin Unframed,
                      st # "closed"
               PROVE  st = "idle" /\ net = <<>> /\ inbox = <<>> /\ buf = <<>> /\ ~dropped
    BY DEF InStep, Unframed
  <2>1. Rests("idle") /\ ~dropped
    BY DEF AuthInStepInv, ExchangeInStep, InStepWith, RestsAfter, TypeOK, AuthTypeOK, AuthStates
  <2>2. Stream = <<>> /\ inbox = <<>> /\ st = "idle"
    BY <2>1 DEF Rests
  <2>3. Received = <<>> /\ net = <<>>
    <3>1. \A b, n \in Seq(Unit) : Then(b, n) = <<>> => b = <<>> /\ n = <<>>
      BY ThenIsNothing
    <3>2. QED
      BY <2>2, <3>1, PartsOfTypeOK, StreamParts DEF Stream
  <2>4. buf = <<>>
    <3>1. arg.data = <<>> /\ buf \in Seq(Unit)
      BY PartsOfTypeOK, StreamParts DEF AuthInStepInv, ArgInv
    <3>2. QED
      BY <2>3, <3>1, ConcatEmptySeq DEF Received
  <2>5. QED
    BY <2>1, <2>2, <2>3, <2>4
<1>3. QED
  BY <1>1, <1>2, InitInStep, AuthenticationTypeOK, AuthenticationInvariant, PTL DEF Spec
=============================================================================
