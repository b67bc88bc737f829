---------------------------- MODULE ResponseRead ----------------------------
(***************************************************************************)
(* The two coroutines that read what a server sends, octet by octet: the   *)
(* same octets delivered in every possible way.  ManagesieveResponseRead   *)
(* (src/send.rs) keeps a response until it is whole.                       *)
(* ManagesieveAuthenticate (src/rfc5804/authenticate.rs) drains one line   *)
(* at a time from the front of its buffer, because a challenge is answered *)
(* before the response it belongs to is over; only its reading is here,    *)
(* Authenticate has the exchange.  The server sends a stream and closes; a *)
(* read returns any part of what is left of it.                            *)
(***************************************************************************)
EXTENDS Responses

CONSTANTS
  Streams,      \* what a server may send: [kind, octets, said, readers], said is
                \* what it means, readers the coroutines it is sent to
  MaxResponse,  \* MAX_RESPONSE, in octets
  MaxRead       \* READ_BUFFER_SIZE, in octets

ASSUME ReadAssumption ==
  /\ MaxResponse \in Nat /\ MaxRead \in Nat \ {0}
  /\ \A s \in Streams : s.octets \in Seq(Octet) /\ s.readers \subseteq {"response", "line"}

VARIABLES
  stream,       \* ghost: what the server sends, and what it means by it
  reader,       \* the coroutine that reads it: "response" or "line"
  net,          \* the octets that were not read
  buf,          \* the octets read, but those drained or past the response
  outcome,      \* "reading", "taking" while the buffer was not looked at,
                \* "response", or the error
  response,     \* the response the coroutine completed with
  trailing,     \* and the octets read past it
  taken         \* the lines taken from the front of the buffer

vars == << stream, reader, net, buf, outcome, response, trailing, taken >>

Unread == [is |-> "none"]

Init ==
  /\ stream \in Streams /\ reader \in stream.readers
  /\ net = stream.octets
  /\ buf = <<>> /\ outcome = "reading" /\ response = Unread /\ trailing = <<>> /\ taken = <<>>

\* Mutant: the buffer is replaced by the octets that arrived.
ExtendLost(data) == data

\* extend_from_slice.
Extend(data) == buf \o data

\* A read hands its octets to resume, which puts them behind those it holds.
Read ==
  /\ outcome = "reading"
  /\ \E n \in 1..Min({Len(net), MaxRead}) :
        /\ buf' = Extend(SubSeq(net, 1, n))
        /\ net' = SubSeq(net, n + 1, Len(net))
  /\ outcome' = "taking"
  /\ UNCHANGED << stream, reader, response, trailing, taken >>

\* The read of a closed stream returns nothing.
ReadEof ==
  /\ outcome = "reading" /\ net = <<>>
  /\ outcome' = "eof"
  /\ UNCHANGED << stream, reader, net, buf, response, trailing, taken >>

\* Mutant: the limit is for a buffer nothing was taken from.
TooLargeUntaken == taken = <<>> /\ Len(buf) > MaxResponse

TooLarge == Len(buf) > MaxResponse

\* What both do when nothing is complete.
ReadsMore == outcome' = IF TooLarge THEN "toolarge" ELSE "reading"

\* The rest of ManagesieveResponseRead::resume.
Responded(parsed) ==
  \/ /\ parsed.is = "response"
     /\ outcome' = "response" /\ response' = parsed
     /\ buf' = SubSeq(buf, 1, parsed.consumed)
     /\ trailing' = SubSeq(buf, parsed.consumed + 1, Len(buf))
  \/ parsed.is = "error" /\ outcome' = parsed.err /\ UNCHANGED << buf, response, trailing >>
  \/ parsed.is = "incomplete" /\ ReadsMore /\ UNCHANGED << buf, response, trailing >>

TakeResponse ==
  /\ outcome = "taking" /\ reader = "response"
  /\ Responded(ParseResponse(buf))
  /\ UNCHANGED << stream, reader, net, taken >>

\* Mutant: the line takes the whole buffer with it.
DrainAll(consumed) == <<>>

\* drain(..consumed).
Drain(consumed) == SubSeq(buf, consumed + 1, Len(buf))

Took(parsed) ==
  \/ /\ parsed.is = "line"
     /\ taken' = Append(taken, parsed.line) /\ buf' = Drain(parsed.consumed)
     /\ outcome' = IF parsed.line.is = "completion" THEN "response" ELSE "taking"
  \/ parsed.is = "error" /\ outcome' = parsed.err /\ UNCHANGED << buf, taken >>
  \/ parsed.is = "incomplete" /\ ReadsMore /\ UNCHANGED << buf, taken >>

\* take_line, and the answer to a challenge: the exchange goes on with what
\* is already there before it reads again.
TakeLine ==
  /\ outcome = "taking" /\ reader = "line"
  /\ Took(ParseLine(buf))
  /\ UNCHANGED << stream, reader, net, response, trailing >>

Finished == outcome \notin {"reading", "taking"} /\ UNCHANGED vars

Next == Read \/ ReadEof \/ TakeResponse \/ TakeLine \/ Finished
Spec == Init /\ [][Next]_vars

-----------------------------------------------------------------------------
\* Every octet that was not drained is at its place, in order.
TypeOK ==
  /\ outcome \in {"reading", "taking", "response", "toolarge", "eof", "EmptyLine",
                  "UnknownStatus", "UnterminatedResponseCode", "EmptyResponseCode"} \cup LexErrors
  /\ IsSuffix(buf \o trailing \o net, stream.octets)
  /\ reader = "response" => buf \o trailing \o net = stream.octets
  /\ (outcome = "response" /\ reader = "response") = (response # Unread)

\* However many octets a server sends without completing a response, or a
\* line, the coroutine holds at most the limit and one read (MAX_RESPONSE of
\* send.rs: "rather than an allocation that grows until the process dies").
BufferBounded == Len(buf \o trailing) <= MaxResponse + MaxRead

\* The same octets delivered in arbitrary splits produce the outcome that
\* parsing the whole buffer produces (the parser-hardening delta): the same
\* response ending at the same octet, or the same error; end of file only
\* for a stream without a whole response, and the limit only for one whose
\* first MaxResponse octets do not settle it.
SplitInvariance ==
  reader = "response" =>
    LET whole == ParseResponse(stream.octets)
    IN CASE outcome \in {"reading", "taking"} -> TRUE
         [] outcome = "response" -> response = whole
         [] outcome = "eof"      -> whole.is = "incomplete"
         [] outcome = "toolarge" ->
              ParseResponse(SubSeq(stream.octets, 1, MaxResponse)).is = "incomplete"
         [] OTHER                -> whole = Bad(outcome)

\* However the octets are cut, and whatever was read ahead of the exchange,
\* the lines taken one by one are those of the response read as a whole, and
\* what follows it is left in the buffer.
LinesAsWhole ==
  reader = "line" =>
    LET whole == ParseResponse(stream.octets)
    IN CASE outcome \in {"reading", "taking", "toolarge"} ->
              whole.is = "response" => IsPrefix(taken, whole.data)
         [] outcome = "response" ->
              /\ whole.is = "response"
              /\ taken = Append(whole.data, whole.completion)
              /\ buf \o net = SubSeq(stream.octets, whole.consumed + 1, Len(stream.octets))
         [] outcome = "eof"      -> whole.is = "incomplete"
         [] OTHER                -> whole = Bad(outcome)

\* A response a server sent is the response the caller gets, whichever of
\* its strings travel quoted and whichever as literals, whatever octets are
\* in them and whatever follows.
Delivered ==
  stream.kind = "response" /\ reader = "response" =>
    /\ outcome \in {"reading", "taking", "response"}
    /\ outcome = "response" =>
         /\ response.data = stream.said.data
         /\ response.completion = stream.said.completion
         /\ trailing \o net = stream.said.tail

\* A literal is as long as its marker says, leading zeros and a "+" included:
\* the octets counted are the string whatever they look like, up to the
\* largest literal and no further, and a larger one is refused with its
\* marker, before any of it is waited for.
LiteralAsAnnounced ==
  stream.kind = "sized" /\ reader = "response" /\ outcome # "taking" =>
    LET size == stream.said.size
        start == stream.said.start
        marked == Len(buf \o trailing) >= start
    IN CASE size <= MaxLiteral ->
              /\ outcome \in {"reading", "response"}
              /\ outcome = "response" =>
                   response.data[1].tokens = << Str(SubSeq(stream.octets, start + 1, start + size)) >>
         [] size > MaxLiteral /\ size <= MaxSize ->
              outcome = IF marked THEN "LiteralTooLarge" ELSE "reading"
         [] OTHER ->
              outcome = IF marked THEN "InvalidLiteralMarker" ELSE "reading"
=============================================================================
