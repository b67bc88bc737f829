------------------------------ MODULE Exchange ------------------------------
(***************************************************************************)
(* One coroutine, the pump that drives it and the connection between them  *)
(* and the server: src/coroutine.rs, the two base coroutines of            *)
(* src/send.rs, and the loops of src/client.rs and src/client/connect.rs.  *)
(*                                                                         *)
(* A coroutine is a function of its own state and of the argument it is    *)
(* resumed with: one step of the model is one call of resume, from the     *)
(* argument the pump hands over to the next yield.  `out' is what resume   *)
(* returned last, or "Run" while the pump holds an answer to resume with.  *)
(***************************************************************************)
EXTENDS Wire

CONSTANTS
  MaxUnits,     \* MAX_RESPONSE, in units
  MaxRead       \* READ_BUFFER_SIZE, in units: the most one read returns

ASSUME LimitsAssumption == MaxUnits \in Nat \ {0} /\ MaxRead \in Nat \ {0}

VARIABLES
  out,          \* what the coroutine yielded, or how the pump ended
  result,       \* of a completed coroutine: "ok" or the error it returned
  msg,          \* the bytes a WantsWrite carries
  arg,          \* the argument of the next resume
  buf,          \* bytes read and not parsed yet
  dropped,      \* ghost: bytes read from the server were thrown away unparsed
  sock,         \* the socket the pump holds
  net,          \* units the server sent and the pump has not read
  inbox,        \* messages the pump wrote and the server has not taken
  sent          \* ghost: every message written, with the socket it left by

coroutineVars == << out, result, msg, arg, buf, dropped >>
wireVars == << sock, net, inbox, sent >>
exchangeVars == << coroutineVars, wireVars >>

Yields == {"WantsRead", "WantsWrite", "WantsConnect", "WantsTlsUpgrade"}
Outs == {"Run", "Complete", "Broken"} \cup Yields
Sockets == {"none", "tcp", "tls", "unix"}

Mechanisms == {"PLAIN", "LOGIN", "OAUTHBEARER", "XOAUTH2", "ANONYMOUS",
               "EXTERNAL", "CRAM-MD5", "SCRAM", "GSSAPI"}
NoSasl == "none"

\* The payload of a message: the nth the mechanism computed, the empty one,
\* or none at all.
Empty == 0
Absent == -1
Payloads == {Absent, Empty, 1, 2}

Cmds == {"STARTTLS", "AUTHENTICATE", "RESPONSE", "CANCEL", "CAPABILITY"}
Msg == [cmd : Cmds, mech : Mechanisms \cup {NoSasl}, payload : Payloads]
Command(c) == [cmd |-> c, mech |-> NoSasl, payload |-> Absent]

\* Option<&[u8]>: None, or the bytes of a read, empty at end of file.
None == [some |-> FALSE, data |-> <<>>]
Some(units) == [some |-> TRUE, data |-> units]
Eof == Some(<<>>)

Failures == {"eof", "toolarge", "parse", "rejected", "injection",
             "unsupported", "unexpectedok", "base64", "mechanism",
             "starttlsovertls", "starttlsunsupported", "cleartextauth"}
Results == {"none", "ok"} \cup Failures

ExchangeTypeOK ==
  /\ out \in Outs
  /\ result \in Results
  /\ msg \in Msg
  /\ arg \in [some : BOOLEAN, data : Seq(Unit)]
  /\ buf \in Seq(Unit)
  /\ dropped \in BOOLEAN
  /\ sock \in Sockets
  /\ net \in Seq(Unit)
  /\ inbox \in Seq(Msg)
  /\ sent \in Seq([msg : Msg, over : Sockets])

\* Nothing was sent, read or parsed yet.
ExchangeInit ==
  /\ out = "Run" /\ result = "none" /\ msg = Command("CAPABILITY")
  /\ arg = None /\ buf = <<>> /\ dropped = FALSE
  /\ net = <<>> /\ inbox = <<>> /\ sent = <<>>

-----------------------------------------------------------------------------
(* What a resume may end with: the argument it was called with is gone,    *)
(* and buf and dropped are left to the caller.                             *)

Yield(y) == out' = y /\ arg' = None /\ UNCHANGED << result, msg >>
WantsWrite(m) == out' = "WantsWrite" /\ arg' = None /\ msg' = m /\ UNCHANGED result
Complete(r) == out' = "Complete" /\ arg' = None /\ result' = r /\ UNCHANGED msg

\* The coroutine that owned the buffer is replaced by one with its own: what
\* is left of the old buffer is gone.
NewBuffer(left) == buf' = <<>> /\ dropped' = (dropped \/ left # <<>>)

\* Mutant: the buffer is replaced by the bytes that arrived.
ReceivedOnly == arg.data

\* extend_from_slice: the buffer with the argument's bytes behind it.
Received == buf \o arg.data

\* Mutant: an empty read is more of nothing.
ReadingIgnoresEof ==
  IF ~arg.some THEN "read"
  ELSE IF HasResponse(Received)
    THEN IF Completion(Received).kind = "bad" THEN "parse" ELSE "response"
  ELSE IF Len(Received) > MaxUnits THEN "toolarge" ELSE "read"

\* ManagesieveResponseRead::resume, up to the value it returns.
Reading ==
  IF ~arg.some THEN "read"
  ELSE IF arg.data = <<>> THEN "eof"
  ELSE IF HasResponse(Received)
    THEN IF Completion(Received).kind = "bad" THEN "parse" ELSE "response"
  ELSE IF Len(Received) > MaxUnits THEN "toolarge" ELSE "read"

\* It needs more bytes.
ReadMore ==
  /\ Reading = "read"
  /\ Yield("WantsRead")
  /\ buf' = Received
  /\ UNCHANGED dropped

\* It returns an error of its own.
ReadFail ==
  /\ Reading \in {"eof", "toolarge", "parse"}
  /\ Complete(Reading)
  /\ buf' = Received
  /\ UNCHANGED dropped

-----------------------------------------------------------------------------
(* The pump, and the failures of its socket.                               *)

\* A read returns some of what the server sent.
PumpRead ==
  /\ out = "WantsRead"
  /\ \E n \in 1..Len(net) :
        /\ n <= MaxRead
        /\ arg' = Some(SubSeq(net, 1, n))
        /\ net' = SubSeq(net, n + 1, Len(net))
  /\ out' = "Run"
  /\ UNCHANGED << result, msg, buf, dropped, sock, inbox, sent >>

\* A read returns nothing once everything was read from a closed peer.
PumpEof(closed) ==
  /\ out = "WantsRead" /\ net = <<>> /\ closed
  /\ arg' = Eof
  /\ out' = "Run"
  /\ UNCHANGED << result, msg, buf, dropped, wireVars >>

PumpWrite ==
  /\ out = "WantsWrite"
  /\ inbox' = Append(inbox, msg)
  /\ sent' = Append(sent, [msg |-> msg, over |-> sock])
  /\ arg' = None
  /\ out' = "Run"
  /\ UNCHANGED << result, msg, buf, dropped, sock, net >>

\* An I/O error ends the pump: the coroutine is dropped where it stands.
PumpFail ==
  /\ out \in Yields
  /\ out' = "Broken"
  /\ UNCHANGED << result, msg, arg, buf, dropped, wireVars >>
=============================================================================
