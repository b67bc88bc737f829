--------------------------- MODULE SessionPolicy ---------------------------
(***************************************************************************)
(* What opening a session promises its caller about the channel, without   *)
(* a word of the protocol: a connection that is refused, opened, secured   *)
(* when STARTTLS was asked for, and only then used to present credentials  *)
(* (the docs of ManagesieveSessionOpenOptions and of the errors of         *)
(* src/session.rs).                                                        *)
(***************************************************************************)
CONSTANTS
  Requests,    \* what callers ask for
  Disclosing   \* the mechanisms that hand over a reusable credential

VARIABLES
  request,     \* transport, starttls, allow_cleartext_auth, sasl
  channel,     \* none, clear or protected
  presented,   \* credentials were presented
  outcome      \* pending, open or failed

vars == << request, channel, presented, outcome >>

Init ==
  /\ request \in Requests
  /\ channel = "none" /\ presented = FALSE /\ outcome = "pending"

\* STARTTLS is only for a connection in the clear.
Connect ==
  /\ outcome = "pending" /\ channel = "none"
  /\ request.starttls => request.transport = "tcp"
  /\ channel' = IF request.transport = "tcp" THEN "clear" ELSE "protected"
  /\ UNCHANGED << request, presented, outcome >>

Secure ==
  /\ outcome = "pending" /\ channel = "clear"
  /\ request.starttls /\ ~presented
  /\ channel' = "protected"
  /\ UNCHANGED << request, presented, outcome >>

\* The channel is the one that was asked for.
Ready == channel # "none" /\ (request.starttls => channel = "protected")

Present ==
  /\ outcome = "pending" /\ Ready /\ ~presented
  /\ request.sasl # "none"
  /\ \/ channel = "protected"
     \/ request.sasl \notin Disclosing
     \/ request.allow_cleartext_auth
  /\ presented' = TRUE
  /\ UNCHANGED << request, channel, outcome >>

Open ==
  /\ outcome = "pending" /\ Ready
  /\ presented = (request.sasl # "none")
  /\ outcome' = "open"
  /\ UNCHANGED << request, channel, presented >>

Fail ==
  /\ outcome = "pending"
  /\ outcome' = "failed"
  /\ UNCHANGED << request, channel, presented >>

Next == Connect \/ Secure \/ Present \/ Open \/ Fail

Spec == Init /\ [][Next]_vars
=============================================================================
