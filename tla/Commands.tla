------------------------------ MODULE Commands ------------------------------
(***************************************************************************)
(* The script and session commands of ManagesieveClient on an open         *)
(* session: each method runs one coroutine of src/rfc5804 over the client's *)
(* stream (src/client.rs), and every coroutine is a ManagesieveCommandSend  *)
(* (src/send.rs) and a way to read its response.                           *)
(***************************************************************************)
EXTENDS ScriptServer

CONSTANTS
  Calls,      \* the commands callers issue
  MaxCalls,   \* how many of them one behaviour has
  Reuse       \* a stream whose read failed is used again

ASSUME CallsAssumption ==
  /\ Calls \subseteq Call /\ Calls # {} /\ MaxCalls \in Nat /\ Reuse \in BOOLEAN

VARIABLES
  call,       \* the command of the running coroutine
  calls,      \* its number
  told,       \* what the method returned: the outcome and the values
  tags        \* ghost: the tags earlier NOOPs asked for

callVars == << call, calls, told, tags >>
vars == << exchangeVars, scriptServerVars, callVars >>

Untold == [outcome |-> "none", values |-> {}]

Idle == out \in {"Complete", "Broken"}

Init ==
  /\ out = "Complete" /\ result = "none" /\ msg = Unserved /\ arg = None
  /\ buf = <<>> /\ dropped = FALSE
  /\ sock = "tls" /\ net = <<>> /\ inbox = <<>> /\ sent = <<>>
  /\ store \in Store /\ served = Unserved /\ open = TRUE /\ logged = TRUE /\ late = <<>>
  /\ call = (CHOOSE c \in Calls : TRUE) /\ calls = 0 /\ told = Untold /\ tags = {}

-----------------------------------------------------------------------------
(* A call: the coroutine is built and resumed a first time, which yields   *)
(* the command's bytes.  Its buffer is its own and starts empty.           *)

\* The stream of a call that ended, or the one whose read failed.
Usable ==
  \/ told.outcome \in {"none", "ok", "no"}
  \/ Reuse /\ sent # <<>>

OnThisStream == Usable /\ UNCHANGED << net, inbox, open, logged, late >>

\* set_stream: another session, opened as SessionOpen says.  A stream that
\* works is kept.
OnNewStream ==
  /\ ~Usable /\ (open \/ inbox = <<>>)
  /\ net' = <<>> /\ inbox' = <<>> /\ open' = TRUE /\ logged' = TRUE
  /\ late' = late \o [i \in DOMAIN inbox |-> inbox[i].call]

Issue(c) ==
  /\ Idle /\ calls < MaxCalls
  /\ OnThisStream \/ OnNewStream
  /\ call' = c /\ calls' = calls + 1 /\ told' = Untold
  /\ tags' = tags \cup ({call.name} \cap Tags)
  /\ WantsWrite([n |-> calls + 1, call |-> c])
  /\ buf' = <<>> /\ dropped' = FALSE /\ sent' = <<>>
  /\ UNCHANGED << sock, store, served >>

-----------------------------------------------------------------------------
(* What each coroutine makes of its response.                              *)

Responded == out = "Run" /\ Reading = "response"
End == Completion(Received)
DataLines ==
  {LineAt(Received, i) : i \in {j \in Ends(Received) : j < FirstOf(Stops(Received))}}
EntryOf(line) == [val |-> line.val, active |-> line.active]

\* The coroutine is done with its response, and its trailing bytes with it.
Return(r, outcome, values) ==
  /\ Responded
  /\ Complete(r) /\ NewBuffer(Trailing(Received))
  /\ told' = [outcome |-> outcome, values |-> values]

\* Mutant: only a NO is an error.
IsOkOrBye == End.kind # "no"

\* into_result: NO and BYE are one error, told apart by what it carries.
IsOk == End.kind = "ok"
Accepts(op) == call.op = op /\ ~call.raw /\ Responded /\ IsOk

Rejected ==
  /\ ~call.raw /\ Responded /\ ~IsOk
  /\ Return("rejected", End.kind, {Plain(End.val)})

\* The passthrough has no rejection.
RawReturned == call.raw /\ Return("ok", End.kind, {EntryOf(l) : l \in DataLines \cup {End}})

ListAccepted == Accepts("list") /\ Return("ok", "ok", {EntryOf(l) : l \in DataLines})

\* The first data line is the script, whatever follows.
GetAccepted ==
  /\ Accepts("get") /\ DataLines # {}
  /\ Return("ok", "ok", {Plain(LineAt(Received, FirstOf(Ends(Received))).val)})

MissingScript ==
  /\ Accepts("get") /\ DataLines = {}
  /\ Return("missingscript", "missingscript", {})

Warnings == {Plain(v) : v \in {End.val} \cap {"WARNINGS"}}
PutAccepted == Accepts("put") /\ Return("ok", "ok", Warnings)
CheckAccepted == Accepts("check") /\ Return("ok", "ok", Warnings)

\* Mutant: the tag is the one asked for.
NoopAcceptedBlindly == Accepts("noop") /\ Return("ok", "ok", {Plain(v) : v \in {call.name} \cap Tags})

\* The tag is the one the server echoed, which need not be the one asked for.
NoopAccepted == Accepts("noop") /\ Return("ok", "ok", {Plain(v) : v \in {End.val} \cap Tags})

ActivateAccepted == Accepts("activate") /\ Return("ok", "ok", {})
DeleteAccepted == Accepts("delete") /\ Return("ok", "ok", {})
RenameAccepted == Accepts("rename") /\ Return("ok", "ok", {})
HaveSpaceAccepted == Accepts("havespace") /\ Return("ok", "ok", {})
UnauthenticateAccepted == Accepts("unauthenticate") /\ Return("ok", "ok", {})
LogoutAccepted == Accepts("logout") /\ Return("ok", "ok", {})

Accepted ==
  \/ ListAccepted \/ GetAccepted \/ MissingScript \/ PutAccepted \/ CheckAccepted
  \/ NoopAccepted \/ ActivateAccepted \/ DeleteAccepted \/ RenameAccepted
  \/ HaveSpaceAccepted \/ UnauthenticateAccepted \/ LogoutAccepted

\* A response that does not come, or does not parse.
Fails == ReadFail /\ told' = [outcome |-> Reading, values |-> {}]

Resume ==
  /\ out = "Run"
  /\ \/ ReadMore /\ UNCHANGED told
     \/ Fails \/ Rejected \/ RawReturned \/ Accepted
  /\ UNCHANGED << wireVars, scriptServerVars, call, calls, tags >>

-----------------------------------------------------------------------------
PumpWorks ==
  /\ PumpRead \/ PumpEof(~open) \/ PumpWrite
  /\ UNCHANGED << scriptServerVars, callVars >>

\* A read times out, or the socket fails.
PumpBreaks ==
  /\ PumpFail /\ told' = [outcome |-> "io", values |-> {}]
  /\ UNCHANGED << scriptServerVars, call, calls, tags >>

Finished == Idle /\ calls = MaxCalls /\ UNCHANGED vars

Next ==
  \/ \E c \in Calls : Issue(c)
  \/ Resume \/ PumpWorks \/ PumpBreaks
  \/ Peer /\ UNCHANGED callVars
  \/ Finished

Spec == Init /\ [][Next]_vars

\* run is a loop that always calls resume again and blocks in a read only
\* until bytes or the end of the stream arrive; the server answers.
FairSpec ==
  /\ Spec
  /\ WF_vars(Resume)
  /\ WF_vars(PumpWorks)
  /\ WF_vars(ServerAnswers /\ UNCHANGED << coroutineVars, sock, sent, callVars >>)

-----------------------------------------------------------------------------
\* Every variable stays in its type; a value handed to a caller is a whole
\* name, body or code, never a string cut by a read.
TypeOK ==
  /\ out \in Outs \ {"WantsConnect", "WantsTlsUpgrade"}
  /\ told.outcome \in {"none", "io", "missingscript"} \cup Failures \cup Statuses
  /\ told.values \subseteq Entry
  /\ store \in Store
  /\ served.n \in 0..MaxCalls /\ served.reply.lines \subseteq Entry
  /\ logged \in BOOLEAN /\ open \in BOOLEAN
  /\ \A i \in DOMAIN inbox : inbox[i].n \in 1..calls /\ inbox[i].call \in Calls
  /\ Len(late) <= MaxCalls

\* Who replaces the stream after a failure is promised that the store is
\* changed only by commands that were called, each at most once and, unless
\* the call failed, before it returns; and that what a method returns is the
\* answer to its own command, made of the state it was served in.  A read
\* in pieces, a goodbye instead of an answer, a command left on a dead stream
\* and served later than its successor are all within it.
Phase == IF Idle THEN "idle" ELSE IF served.n = calls THEN "served" ELSE "called"
StoreOf == INSTANCE ScriptStore WITH
  phase <- Phase,
  reply <- IF Phase = "served" THEN served.reply ELSE NoReply,
  late <- late \o (IF Idle THEN [i \in DOMAIN inbox |-> inbox[i].call] ELSE <<>>)
StoreSpec == StoreOf!Spec

\* A NOOP got back a tag none of `others', and has left no reply of an earlier
\* command unread or still to come.
InStepOnceEchoed(others) ==
  Idle /\ call.op = "noop" /\ ~call.raw /\ call.name \in Tags \ others
       /\ told.outcome = "ok" /\ Plain(call.name) \in told.values
    => inbox = <<>> /\ \A i \in DOMAIN net : net[i].of.on = 0

\* After reads failed and the stream was used again, at the head of a script
\* or in the middle of one, a NOOP that gets back a tag that nobody asked for
\* before, and that no string of the server reads as, is in step.
OwnTagMeansInStep == InStepOnceEchoed(tags \cup {c.val : c \in Cuts})

\* What the doc of noop.rs says without the second condition: the tag echoed
\* lets "a client tell its own round trip from a reply it did not ask for".
FreshTagMeansInStep == InStepOnceEchoed(tags)

\* Every call returns.
Returns == ~Idle ~> Idle

\* On a stream used again every call returns, unless a marker left of a reply
\* that was not read whole has it wait for the octets of a literal.
ReturnsUnlessOpen == ~Idle ~> Idle \/ HoldsOpen(buf)

\* And whatever is in its buffer, a call does not outlast the connection.
EndsOnceClosed == ~open /\ ~Idle ~> Idle
=============================================================================
