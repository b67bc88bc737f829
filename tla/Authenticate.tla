---------------------------- MODULE Authenticate ----------------------------
(***************************************************************************)
(* ManagesieveAuthenticate (src/rfc5804/authenticate.rs): the SASL         *)
(* exchange of one mechanism with the server.  One action is one way a     *)
(* call of resume can go; the states Write and Cancel do not outlive the   *)
(* call that enters them, so `auth' takes the other four.                  *)
(*                                                                         *)
(* The mechanisms are those of the io-sasl crate, which is not part of the *)
(* repository: `turn' counts the payloads one has computed and `proved'    *)
(* says a mutual one has verified the server.                              *)
(***************************************************************************)
EXTENDS Server

VARIABLES
  opts,       \* the mechanism and the ManagesieveAuthenticateOptions
  auth,       \* the state resume is called in
  pending,    \* State::Read's payload computed and not sent yet
  turn,       \* the mechanism: payloads computed
  proved,     \* the mechanism: it has verified the server's proof
  cause,      \* State::Abort's error
  caps        \* the capabilities read last

authVars == << opts, auth, pending, turn, proved, cause, caps >>

AuthStates == {"Start", "Read", "Abort", "Capability"}
Options == [mech : Mechanisms, initial_response : BOOLEAN, ensure_capabilities : BOOLEAN]
Capabilities == [names : SUBSET Vals, on : Phases]
NoCapabilities == [names |-> {}, on |-> "clear"]

AuthTypeOK ==
  /\ opts \in Options
  /\ auth \in AuthStates
  /\ pending \in Payloads
  /\ turn \in {0, 1, 2}
  /\ proved \in BOOLEAN
  /\ cause \in {"none", "base64", "mechanism"}
  /\ caps \in Capabilities

AuthInit ==
  /\ auth = "Start" /\ pending = Absent
  /\ turn = 0 /\ proved = FALSE /\ cause = "none" /\ caps = NoCapabilities

-----------------------------------------------------------------------------
(* The mechanisms.                                                         *)

Mutual(m) == m = "SCRAM"
Turns(m) == IF m \in {"LOGIN", "SCRAM"} THEN 2 ELSE 1

\* What it computes with no challenge: all but CRAM-MD5 speak first.
FirstPayload(m) == IF m = "CRAM-MD5" THEN Absent ELSE 1

\* What it computes for the challenge v; Absent is a refusal.
NextPayload(m, v) ==
  IF Mutual(m)
    THEN IF turn = 1 /\ v # "final" THEN 2
         ELSE IF turn = 2 /\ v = "final" THEN Empty ELSE Absent
    ELSE IF turn < Turns(m) THEN turn + 1 ELSE Empty

\* Mutant: every challenge fed counts as a payload said.
AdvanceAlways(v) ==
  /\ turn' = turn + 1
  /\ proved' = (proved \/ (Mutual(opts.mech) /\ NextPayload(opts.mech, v) = Empty))

\* The mechanism is fed v: what that makes it compute, and what it now knows.
Advance(v) ==
  LET p == NextPayload(opts.mech, v)
  IN /\ turn' = IF p \in {1, 2} THEN p ELSE turn
     /\ proved' = (proved \/ (Mutual(opts.mech) /\ p = Empty))

-----------------------------------------------------------------------------
(* Start: the mechanism speaks and the command leaves, the payload inline  *)
(* or kept for the first challenge.                                        *)

UnsupportedMechanism(o) ==
  /\ o.mech = "GSSAPI"
  /\ Complete("unsupported")
  /\ UNCHANGED << auth, pending, turn, proved, cause >>

StartFails(o) ==
  /\ o.mech # "GSSAPI"
  /\ Complete("mechanism")
  /\ UNCHANGED << auth, pending, turn, proved, cause >>

\* Mutant: a mechanism with nothing to say counts as having said -1.
StartWritesUncounted(o) ==
  LET payload == FirstPayload(o.mech)
  IN /\ o.mech # "GSSAPI"
     /\ WantsWrite([cmd |-> "AUTHENTICATE", mech |-> o.mech, payload |-> payload])
     /\ pending' = Absent /\ turn' = payload /\ auth' = "Read"
     /\ UNCHANGED << proved, cause >>

StartWrites(o) ==
  LET payload == FirstPayload(o.mech)
      inline == o.initial_response /\ o.mech # "LOGIN"
  IN /\ o.mech # "GSSAPI"
     /\ WantsWrite([cmd |-> "AUTHENTICATE", mech |-> o.mech,
                    payload |-> IF inline THEN payload ELSE Absent])
     /\ pending' = IF inline THEN Absent ELSE payload
     /\ turn' = IF payload = Absent THEN 0 ELSE payload
     /\ auth' = "Read"
     /\ UNCHANGED << proved, cause >>

\* Whichever way it goes the argument is not looked at, and the buffer and
\* the capabilities are left to the caller.
Start(o) ==
  /\ auth = "Start"
  /\ UnsupportedMechanism(o) \/ StartFails(o) \/ StartWrites(o)

-----------------------------------------------------------------------------
(* Read: take_line, then a challenge to answer or a completion.            *)

\* Mutant: a resume that carries nothing asks for a read, as in send.rs.
LineReadingNeedsBytes ==
  IF ~arg.some THEN "read"
  ELSE IF arg = Eof THEN "eof"
  ELSE IF HasLine(Received)
    THEN CASE FirstLine(Received).kind = "bad"  -> "parse"
           [] FirstLine(Received).kind = "data" -> "challenge"
           [] OTHER                             -> "completion"
  ELSE IF Len(Received) > MaxUnits THEN "toolarge" ELSE "read"

LineReading ==
  IF arg = Eof THEN "eof"
  ELSE IF HasLine(Received)
    THEN CASE FirstLine(Received).kind = "bad"  -> "parse"
           [] FirstLine(Received).kind = "data" -> "challenge"
           [] OTHER                             -> "completion"
  ELSE IF Len(Received) > MaxUnits THEN "toolarge" ELSE "read"

Reads(outcome) == out = "Run" /\ auth = "Read" /\ LineReading = outcome

\* Mutant: the pending payload was taken and is not put back.
ReadsMoreForgetful ==
  /\ Reads("read")
  /\ Yield("WantsRead")
  /\ buf' = Received
  /\ pending' = Absent
  /\ UNCHANGED << dropped, opts, auth, turn, proved, cause, caps >>

\* No complete line: ask for more, holding on to the pending payload.
ReadsMore ==
  /\ Reads("read")
  /\ Yield("WantsRead")
  /\ buf' = Received
  /\ UNCHANGED << dropped, authVars >>

ReadsError ==
  /\ Reads("eof") \/ Reads("parse") \/ Reads("toolarge")
  /\ Complete(LineReading)
  /\ buf' = Received
  /\ UNCHANGED << dropped, authVars >>

TakeLine == buf' = AfterLine(Received) /\ UNCHANGED dropped

\* Write: client_response.
Respond(payload) == WantsWrite([cmd |-> "RESPONSE", mech |-> opts.mech, payload |-> payload])

\* Mutant: the pending payload is sent and kept.
AnswerPendingAgain ==
  /\ Reads("challenge") /\ pending # Absent
  /\ Respond(pending)
  /\ TakeLine
  /\ UNCHANGED authVars

\* The first challenge to a mechanism that already spoke is the empty one.
AnswerPending ==
  /\ Reads("challenge") /\ pending # Absent
  /\ Respond(pending)
  /\ pending' = Absent
  /\ TakeLine
  /\ UNCHANGED << opts, auth, turn, proved, cause, caps >>

AnswerChallenge ==
  LET val == FirstLine(Received).val
  IN /\ Reads("challenge") /\ pending = Absent
     /\ val # "garbage" /\ NextPayload(opts.mech, val) # Absent
     /\ Respond(NextPayload(opts.mech, val))
     /\ Advance(val)
     /\ TakeLine
     /\ UNCHANGED << opts, auth, pending, cause, caps >>

\* Mutant: the failure is reported at once, the exchange left open.
CancelExchangeSilently ==
  LET val == FirstLine(Received).val
  IN /\ Reads("challenge") /\ pending = Absent
     /\ Complete(IF val = "garbage" THEN "base64" ELSE "mechanism")
     /\ TakeLine
     /\ UNCHANGED authVars

\* Cancel: the string "*", keeping the reason.
CancelExchange ==
  LET val == FirstLine(Received).val
  IN /\ Reads("challenge") /\ pending = Absent
     /\ WantsWrite(Command("CANCEL"))
     /\ auth' = "Abort"
     /\ cause' = IF val = "garbage" THEN "base64" ELSE "mechanism"
     /\ TakeLine
     /\ UNCHANGED << opts, pending, turn, proved, caps >>

\* complete: the server ended the exchange with a NO or a BYE, or with an OK
\* nothing warrants.
Refused ==
  LET val == FirstLine(Received).val
  IN IF FirstLine(Received).kind # "ok" THEN "rejected"
     ELSE IF pending # Absent THEN "unexpectedok"
     ELSE IF val = "garbage" THEN "base64"
     ELSE "mechanism"

\* Mutant: the mechanism is dropped rather than told the exchange is over.
SatisfiedUntold ==
  LET val == FirstLine(Received).val
  IN val # "garbage" /\ (val # "none" => NextPayload(opts.mech, val) # Absent)

\* What the SASL code teaches the mechanism before it is told the exchange
\* is done: whether it then has what it needs.
Satisfied ==
  LET val == FirstLine(Received).val
      p == NextPayload(opts.mech, val)
  IN /\ val # "garbage"
     /\ val # "none" => p # Absent
     /\ Mutual(opts.mech) => proved \/ (val # "none" /\ p = Empty)

\* io-sasl may also refuse a success code it did not expect, or an end that
\* comes before it has said everything.
MayRefuse ==
  FirstLine(Received).val # "none" \/ turn < Turns(opts.mech)

CompletionRefused ==
  /\ Reads("completion")
  /\ FirstLine(Received).kind = "ok" /\ pending = Absent => ~Satisfied \/ MayRefuse
  /\ Complete(Refused)
  /\ TakeLine
  /\ UNCHANGED authVars

Accepts == /\ Reads("completion")
           /\ FirstLine(Received).kind = "ok" /\ pending = Absent /\ Satisfied
           /\ IF FirstLine(Received).val = "none" THEN UNCHANGED << turn, proved >>
              ELSE Advance(FirstLine(Received).val)
           /\ UNCHANGED << opts, pending, cause >>

CompletionAccepted ==
  /\ Accepts /\ ~opts.ensure_capabilities
  /\ Complete("ok")
  /\ TakeLine
  /\ UNCHANGED << auth, caps >>

\* The capabilities are read again, by a coroutine with a buffer of its own.
FetchCapabilities ==
  /\ Accepts /\ opts.ensure_capabilities
  /\ WantsWrite(Command("CAPABILITY"))
  /\ auth' = "Capability"
  /\ NewBuffer(AfterLine(Received))
  /\ UNCHANGED caps

-----------------------------------------------------------------------------
(* Abort: the reply to the cancellation, whatever it is.                   *)

Aborting == out = "Run" /\ auth = "Abort"

\* Mutant: only one line is looked at.
SawReplyOneLine == HasLine(Received) /\ FirstLine(Received).kind # "data"

\* Mutant: the reply awaited is an OK.
SawReplyOk == HasResponse(Received) /\ Completion(Received).kind = "ok"

\* saw_cancellation_reply
SawReply == HasResponse(Received) \/ Len(Unfinished(Received)) > MaxUnits

AbortReadsMore ==
  /\ Aborting /\ arg # Eof /\ ~SawReply
  /\ Yield("WantsRead")
  /\ buf' = Unfinished(Received)
  /\ UNCHANGED << dropped, authVars >>

\* Mutant: the end of the stream replaces the reason.
AbortEndsEof ==
  /\ Aborting /\ (arg = Eof \/ SawReply)
  /\ Complete(IF arg = Eof THEN "eof" ELSE cause)
  /\ buf' = IF HasResponse(Received) THEN Trailing(Received) ELSE Unfinished(Received)
  /\ UNCHANGED << dropped, authVars >>

\* Mutant: a reply that does not parse replaces the reason.
AbortEndsParse ==
  /\ Aborting /\ (arg = Eof \/ SawReply)
  /\ Complete(IF HasResponse(Received) /\ Completion(Received).kind = "bad" THEN "parse" ELSE cause)
  /\ buf' = IF HasResponse(Received) THEN Trailing(Received) ELSE Unfinished(Received)
  /\ UNCHANGED << dropped, authVars >>

AbortEnds ==
  /\ Aborting /\ (arg = Eof \/ SawReply)
  /\ Complete(cause)
  /\ buf' = IF HasResponse(Received) THEN Trailing(Received) ELSE Unfinished(Received)
  /\ UNCHANGED << dropped, authVars >>

-----------------------------------------------------------------------------
(* Capability: ManagesieveCapabilityGet once its command is written.       *)

Fetching == out = "Run" /\ auth = "Capability"

CapabilityReadsMore == Fetching /\ ReadMore /\ UNCHANGED authVars
CapabilityFails == Fetching /\ ReadFail /\ UNCHANGED authVars

CapabilityRejected ==
  /\ Fetching /\ Reading = "response" /\ Completion(Received).kind # "ok"
  /\ Complete("rejected")
  /\ NewBuffer(Trailing(Received))
  /\ UNCHANGED authVars

\* The list is the one just sent; anything behind it is dropped.
Listed(b) == [names |-> Data(b), on |-> Completion(b).on]

CapabilityDone ==
  /\ Fetching /\ Reading = "response" /\ Completion(Received).kind = "ok"
  /\ Complete("ok")
  /\ caps' = Listed(Received)
  /\ NewBuffer(Trailing(Received))
  /\ UNCHANGED << opts, auth, pending, turn, proved, cause >>

-----------------------------------------------------------------------------
\* Every resume but the first.
AuthResume ==
  \/ ReadsMore \/ ReadsError \/ AnswerPending \/ AnswerChallenge \/ CancelExchange
  \/ CompletionRefused \/ CompletionAccepted \/ FetchCapabilities
  \/ AbortReadsMore \/ AbortEnds
  \/ CapabilityReadsMore \/ CapabilityFails \/ CapabilityRejected \/ CapabilityDone

\* The coroutine has returned, or the pump gave up on it.
Over == out \in {"Complete", "Broken"}

-----------------------------------------------------------------------------
(* What holds of an exchange on its own and of one within a session.       *)

\* A read is only asked for when nothing read already could be acted on: a
\* line the last read went past is answered first (the NOTEs of State::Read).
NoIdleRead ==
  out = "WantsRead" => IF auth = "Read" THEN ~HasLine(buf) ELSE ~HasResponse(buf)

\* With a server that keeps the protocol, a coroutine that returned leaves
\* the connection where the next command can use it: every reply was read,
\* every message taken and the server is idle; failures of the stream itself
\* and a server that hung up are the exceptions.
InStep ==
  out = "Complete" /\ result \notin {"eof", "parse", "toolarge"} =>
    \/ st = "closed" \/ sock = "none"
    \/ st = "idle" /\ net = <<>> /\ inbox = <<>> /\ buf = <<>> /\ ~dropped
=============================================================================
