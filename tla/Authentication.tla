--------------------------- MODULE Authentication ---------------------------
(***************************************************************************)
(* ManagesieveClient::authenticate: one ManagesieveAuthenticate pumped     *)
(* against a server on an open connection (src/client.rs), and what its    *)
(* exchanges promise.                                                      *)
(***************************************************************************)
EXTENDS Authenticate

CONSTANT Mechs  \* the mechanisms the caller has credentials for

ASSUME MechsAssumption == Mechs \subseteq Mechanisms

vars == << exchangeVars, serverVars, authVars >>

Init ==
  /\ ExchangeInit /\ AuthInit
  /\ sock = "tls" /\ st = "idle" /\ asked = 0 /\ strays = 0 /\ authed = FALSE
  /\ opts \in {o \in Options : o.mech \in Mechs}

Begin == out = "Run" /\ Start(opts) /\ UNCHANGED << opts, caps, buf, dropped >>
Resume == (Begin \/ AuthResume) /\ UNCHANGED << wireVars, serverVars >>

Pump ==
  /\ PumpRead \/ PumpEof(st = "closed") \/ PumpWrite \/ PumpFail
  /\ UNCHANGED << serverVars, authVars >>

Peer == (Reply \/ Disturb) /\ UNCHANGED authVars

Finished == Over /\ UNCHANGED vars

Next == Resume \/ Pump \/ Peer \/ Finished

Spec == Init /\ [][Next]_vars

\* The pump is a loop that always calls resume again, and blocks in a read
\* only until bytes or the end of the stream arrive; the server replies.
FairSpec ==
  /\ Spec
  /\ WF_vars(Resume)
  /\ WF_vars((PumpRead \/ PumpEof(st = "closed") \/ PumpWrite) /\ UNCHANGED << serverVars, authVars >>)
  /\ WF_vars(Reply /\ UNCHANGED authVars)

-----------------------------------------------------------------------------
\* Every variable stays in its type.
TypeOK == ExchangeTypeOK /\ ServerTypeOK /\ AuthTypeOK

\* The payloads that left, and those that left before the ith message.
SpokenBefore(i) == {sent[j].msg.payload : j \in 1..(i - 1)} \cap {1, 2}
Spoken == SpokenBefore(Len(sent) + 1)

\* The payloads the mechanism computed that did not leave yet.
Waiting ==
  ({pending} \cup (IF out = "WantsWrite" THEN {msg.payload} ELSE {})) \cap {1, 2}

\* No payload is lost, repeated or overtaken: each leaves after all those
\* before it, and what left is what the mechanism computed, save the one
\* waiting in `pending' or in a WantsWrite.  Holding `pending' across short
\* reads and answering the first challenge from it (authenticate.rs,
\* State::Read) is what this is about.
PayloadsInOrder ==
  /\ \A i \in DOMAIN sent :
        sent[i].msg.payload \in {1, 2} => SpokenBefore(i) = 1..(sent[i].msg.payload - 1)
  /\ auth = "Read" /\ ~Over => 1..turn = Spoken \cup Waiting

\* A success rests on what the mechanism had to say and hear: one that speaks
\* first has spoken, and a mutual one has said everything and verified the
\* server's proof (ManagesieveAuthenticate::complete).
OkMeansProved ==
  out = "Complete" /\ result = "ok" =>
    /\ FirstPayload(opts.mech) # Absent => Spoken # {}
    /\ Mutual(opts.mech) => proved /\ Spoken = {1, 2}

\* What the doc of ManagesieveAuthenticateError::UnexpectedOk says of every
\* mechanism: a server that "answered OK before the mechanism sent anything"
\* is reported as such.
UnexpectedOkReported ==
  out = "Complete" /\ authed /\ Spoken = {} /\ result \in {"ok", "mechanism", "unexpectedok"}
    => result = "unexpectedok"

\* A cancelled exchange ends with the reason it was cancelled for, whatever
\* the server or the connection does meanwhile, and the "*" is the last
\* thing written.
CauseReported ==
  /\ cause # "none" /\ out = "Complete" => result = cause
  /\ \A i \in DOMAIN sent : sent[i].msg.cmd = "CANCEL" => i = Len(sent)

\* The exchange always ends.
Terminates == <>Over

\* A line that was not finished is the last thing on its way: the reply will
\* run into it.
Torn == net # <<>> /\ ~net[Len(net)].last

\* With stray lines too the exchange ends, unless a reply ran into one and may
\* have been read as a part of it, or was thrown away with one.
TerminatesUnlessTorn == <>(Over \/ Torn \/ dropped)

\* Even then it does not outlast the connection.
EndsOnceClosed == st = "closed" ~> Over
=============================================================================
