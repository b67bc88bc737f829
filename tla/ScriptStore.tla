---------------------------- MODULE ScriptStore ----------------------------
(***************************************************************************)
(* What the command methods of ManagesieveClient promise a caller that     *)
(* takes a new stream once a call failed, without a word of the protocol:  *)
(* a command is served at most once, and what the caller is told is the    *)
(* answer to the command it called.  A call that fails tells nothing of    *)
(* whether the command was served, or still will be.                       *)
(***************************************************************************)
EXTENDS Scripts, SequencesExt

CONSTANT Calls    \* the commands callers issue, a subset of Call

VARIABLES
  store,    \* the scripts, on the server
  phase,    \* idle, called or served
  call,     \* the command called last
  reply,    \* how it was served: status, code and data lines
  told,     \* what the caller was told: the outcome and the values
  late      \* commands given up on that the server may still serve

vars == << store, phase, call, reply, told, late >>

NoReply == [status |-> "none", code |-> "none", lines |-> {}]
Untold == [outcome |-> "none", values |-> {}]

Init ==
  /\ store \in Store /\ phase = "idle"
  /\ call \in Calls /\ reply = NoReply /\ told = Untold /\ late = <<>>

Issue == \E c \in Calls :
  /\ phase = "idle"
  /\ call' = c /\ phase' = "called" /\ told' = Untold
  /\ UNCHANGED << store, reply, late >>

Accept ==
  /\ phase = "called" /\ Allowed(store, call)
  /\ store' = Applied(store, call)
  /\ reply' \in Replies(store, call)
  /\ phase' = "served"
  /\ UNCHANGED << call, told, late >>

Refuse ==
  /\ phase = "called"
  /\ reply' \in Refusals(store, call)
  /\ phase' = "served"
  /\ UNCHANGED << store, call, told, late >>

\* What a caller learns from a reply.  The passthrough hands it over as it
\* is, a rejection is its code, and each command reads of an OK what is meant
\* for it.
Values ==
  IF call.raw THEN reply.lines \cup {Plain(reply.code)}
  ELSE IF reply.status # "ok" THEN {Plain(reply.code)}
  ELSE CASE call.op \in {"list", "get"} -> reply.lines
         [] call.op \in {"put", "check"} -> {Plain(reply.code)} \cap {Plain("WARNINGS")}
         [] call.op = "noop" -> {Plain(reply.code)} \ {Plain("none")}
         [] OTHER -> {}

Tell ==
  /\ phase = "served"
  /\ told' = [outcome |-> reply.status, values |-> Values]
  /\ phase' = "idle" /\ reply' = NoReply
  /\ UNCHANGED << store, call, late >>

\* The stream failed, or said goodbye before it came to this command.
Lose ==
  /\ phase # "idle"
  /\ told'.outcome \notin {"none", "ok", "no"}
  /\ phase' = "idle" /\ reply' = NoReply
  /\ \/ UNCHANGED late
     \/ phase = "called" /\ late' = Append(late, call)
  /\ UNCHANGED << store, call >>

\* The old stream's command reaches the server after all, or never will.
ServeLate == \E i \in DOMAIN late :
  /\ \/ UNCHANGED store
     \/ Allowed(store, late[i]) /\ store' = Applied(store, late[i])
  /\ late' = RemoveAt(late, i)
  /\ UNCHANGED << phase, call, reply, told >>

Next == Issue \/ Accept \/ Refuse \/ Tell \/ Lose \/ ServeLate

Spec == Init /\ [][Next]_vars
=============================================================================
