----------------------------- MODULE Handshake -----------------------------
(***************************************************************************)
(* The handshake driven by hand: the greeting, starttls, authenticate and  *)
(* capability methods of ManagesieveClient (src/client.rs), called one     *)
(* after the other as their docs ask, the caller doing the TLS upgrade     *)
(* itself.  Unlike ManagesieveSessionOpen, nothing but the connection      *)
(* lives from one call to the next: each method builds its coroutine, run  *)
(* pumps it and drops it, with what its buffer still holds.                *)
(***************************************************************************)
EXTENDS Authenticate

CONSTANTS
  MaxCalls,     \* methods called
  Choices,      \* the mechanisms and options callers authenticate with
  Plain         \* sockets the connection may start on

ASSUME HandshakeAssumption ==
  MaxCalls \in Nat /\ Choices \subseteq Options /\ Plain \subseteq {"tcp", "tls"}

VARIABLES
  call,     \* the method called last
  calls,    \* how many were called
  fresh     \* the connection, or its TLS session, was not greeted on yet

callVars == << call, calls, fresh >>
vars == << exchangeVars, serverVars, authVars, callVars >>

Calls == {"greeting", "starttls", "authenticate", "capability"}

TypeOK ==
  /\ ExchangeTypeOK /\ ServerTypeOK /\ AuthTypeOK
  /\ call \in Calls \cup {"none"} /\ calls \in 0..MaxCalls /\ fresh \in BOOLEAN

Init ==
  /\ out = "Complete" /\ result = "ok" /\ msg = Command("CAPABILITY")
  /\ arg = None /\ buf = <<>> /\ dropped = FALSE
  /\ net = <<>> /\ inbox = <<>> /\ sent = <<>>
  /\ sock \in Plain /\ st = "greet" /\ asked = 0 /\ strays = 0 /\ authed = FALSE
  /\ AuthInit /\ opts = [mech |-> "PLAIN", initial_response |-> TRUE, ensure_capabilities |-> TRUE]
  /\ call = "none" /\ calls = 0 /\ fresh = TRUE

-----------------------------------------------------------------------------
(* The caller: a method is called once the one before returned, unless it  *)
(* failed in a way the connection does not survive.                        *)

Survives == {"ok", "rejected", "unsupported", "unexpectedok", "base64", "mechanism"}
Agreed == call = "starttls" /\ result = "ok" /\ sock = "tcp"

May(c) ==
  CASE c = "greeting" -> fresh
    [] c = "starttls" -> ~fresh /\ sock = "tcp" /\ call = "greeting" /\ result = "ok"
    [] OTHER          -> ~fresh /\ ~Agreed

\* Mutant: the set of the last call is still there.
SetKept == UNCHANGED caps

\* What a coroutine returns is empty until it reads a listing.
EmptySet == caps' = NoCapabilities

\* A method: its coroutine is new, and returned nothing.
Calling(c) ==
  /\ out = "Complete" /\ result \in Survives /\ calls < MaxCalls /\ May(c)
  /\ call' = c /\ calls' = calls + 1
  /\ NewBuffer(buf)
  /\ result' = "none" /\ arg' = None
  /\ pending' = Absent /\ turn' = 0 /\ proved' = FALSE /\ cause' = "none"
  /\ EmptySet
  /\ UNCHANGED << wireVars, serverVars >>

CallGreeting ==
  /\ Calling("greeting") /\ fresh' = FALSE
  /\ out' = "Run" /\ auth' = "Start" /\ UNCHANGED << msg, opts >>

\* The first resume of a command yields its bytes.
CallStartTls ==
  /\ Calling("starttls") /\ UNCHANGED fresh
  /\ out' = "WantsWrite" /\ msg' = Command("STARTTLS") /\ auth' = "Start" /\ UNCHANGED opts

CallCapability ==
  /\ Calling("capability") /\ UNCHANGED fresh
  /\ out' = "WantsWrite" /\ msg' = Command("CAPABILITY") /\ auth' = "Capability" /\ UNCHANGED opts

CallAuthenticate ==
  /\ Calling("authenticate") /\ UNCHANGED fresh
  /\ opts' \in Choices
  /\ out' = "Run" /\ auth' = "Start" /\ UNCHANGED msg

\* The caller upgrades the socket and builds a new client around it.
Upgrades ==
  /\ out = "Complete" /\ Agreed /\ st = "handshake" /\ net = <<>>
  /\ sock' = "tls" /\ st' = "greet" /\ fresh' = TRUE
  /\ NewBuffer(buf) /\ call' = "none"
  /\ UNCHANGED << out, result, msg, arg, net, inbox, sent, asked, strays, authed,
                  authVars, calls >>

-----------------------------------------------------------------------------
(* The coroutines.                                                         *)

In(c) == out = "Run" /\ call = c

\* ManagesieveGreetingGet and ManagesieveStartTls read alike.
ReadsReply == \E c \in {"greeting", "starttls"} : In(c)

ReplyReadsMore == ReadsReply /\ ReadMore /\ UNCHANGED authVars
ReplyFails == ReadsReply /\ ReadFail /\ UNCHANGED authVars

\* Bytes past the response are looked at before its status.
ReplyInjected ==
  /\ ReadsReply /\ Reading = "response" /\ Trailing(Received) # <<>>
  /\ Complete("injection")
  /\ NewBuffer(Trailing(Received)) /\ UNCHANGED authVars

ReplyRejected ==
  /\ ReadsReply /\ Reading = "response"
  /\ Trailing(Received) = <<>> /\ Completion(Received).kind # "ok"
  /\ Complete("rejected")
  /\ NewBuffer(Trailing(Received)) /\ UNCHANGED authVars

\* Mutant: whatever trails the reply is not looked at.
ReplyAcceptedTrailed ==
  /\ ReadsReply /\ Reading = "response" /\ Completion(Received).kind = "ok"
  /\ Complete("ok")
  /\ caps' = IF call = "greeting" THEN Listed(Received) ELSE caps
  /\ NewBuffer(Trailing(Received))
  /\ UNCHANGED << opts, auth, pending, turn, proved, cause >>

ReplyAccepted ==
  /\ ReadsReply /\ Reading = "response"
  /\ Trailing(Received) = <<>> /\ Completion(Received).kind = "ok"
  /\ Complete("ok")
  /\ caps' = IF call = "greeting" THEN Listed(Received) ELSE caps
  /\ NewBuffer(Trailing(Received))
  /\ UNCHANGED << opts, auth, pending, turn, proved, cause >>

Authenticates ==
  /\ In("authenticate")
  /\ \/ Start(opts) /\ UNCHANGED << opts, caps, buf, dropped >>
     \/ AuthResume

\* auth is Capability here, as it is within an exchange.
Fetches ==
  /\ In("capability")
  /\ CapabilityReadsMore \/ CapabilityFails \/ CapabilityRejected \/ CapabilityDone

Resume ==
  /\ \/ ReplyReadsMore \/ ReplyFails \/ ReplyInjected \/ ReplyRejected \/ ReplyAccepted
     \/ Authenticates \/ Fetches
  /\ UNCHANGED << wireVars, serverVars, callVars >>

Caller == CallGreeting \/ CallStartTls \/ CallCapability \/ CallAuthenticate \/ Upgrades

Pump ==
  /\ PumpRead \/ PumpEof(st = "closed") \/ PumpWrite \/ PumpFail
  /\ UNCHANGED << serverVars, authVars, callVars >>

\* A server waiting for a TLS handshake that gets a command closes.
NoHandshake ==
  /\ st = "handshake" /\ inbox # <<>>
  /\ st' = "closed"
  /\ UNCHANGED << coroutineVars, wireVars, asked, strays, authed >>

Peer == (Reply \/ NoHandshake \/ Disturb) /\ UNCHANGED << authVars, callVars >>

\* The caller may stop after any call.
Finished == Over /\ UNCHANGED vars

Next == Caller \/ Resume \/ Pump \/ Peer \/ Finished
Spec == Init /\ [][Next]_vars

\* The pump always calls resume again and blocks in a read only until bytes
\* or the end of the stream arrive; the server replies, or closes.  Nothing is asked of
\* the caller.
FairSpec ==
  /\ Spec
  /\ WF_vars(Resume)
  /\ WF_vars((PumpRead \/ PumpEof(st = "closed") \/ PumpWrite)
             /\ UNCHANGED << serverVars, authVars, callVars >>)
  /\ WF_vars((Reply \/ NoHandshake) /\ UNCHANGED << authVars, callVars >>)

-----------------------------------------------------------------------------
\* While the server keeps the protocol, a call that returned leaves the
\* connection where the next one can start: its reply was read whole and
\* nothing read was thrown away, whatever it failed on.  Each call is blind
\* to what the one before it left behind.
CallsInStep ==
  out = "Complete" /\ result \in Survives /\ ~fresh /\ strays = 0 =>
    \/ st = "closed"
    \/ /\ net = <<>> /\ inbox = <<>> /\ buf = <<>> /\ ~dropped
       /\ st = IF Agreed THEN "handshake" ELSE "idle"

\* A capability set a call returns is the one in force when it returns: not
\* the one sent before the upgrade, nor, after a failed exchange the server
\* took for a success, the one sent before it.
SetsInForce ==
  out = "Complete" /\ result = "ok" /\ caps # NoCapabilities /\ ~fresh /\ strays = 0 =>
    caps.on = Phase

\* What was read in the clear is not there once TLS is up, even when someone
\* on the path adds lines of their own: an injected line ends the handshake.
NothingClearKept ==
  sock = "tls" /\ sent # <<>> /\ sent[1].over = "tcp" =>
    /\ fresh => ~dropped
    /\ \A i \in DOMAIN buf : buf[i].of.on # "clear"
    /\ out = "Complete" /\ caps # NoCapabilities => caps.on # "clear"

\* A line that was not finished is the last thing on its way: the reply will
\* run into it.
Torn == net # <<>> /\ ~net[Len(net)].last

\* Every call returns, unless a reply ran into a stray line and may have been
\* read as a part of it, or was thrown away with one.
CallsReturn == <>Torn \/ <>dropped \/ (~Over ~> Over)
=============================================================================
