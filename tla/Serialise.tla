----------------------------- MODULE Serialise -----------------------------
(***************************************************************************)
(* What the commands of src/rfc5804 put on the wire, and what a server     *)
(* that reads octets makes of it.  A command is serialised whole and       *)
(* written whole (src/send.rs, src/client.rs); the server reads what it    *)
(* likes of the stream and takes a line once it is complete.  Its lexer is *)
(* the one of src/utils.rs: both directions have the tokens of section 4   *)
(* of RFC 5804.                                                            *)
(***************************************************************************)
EXTENDS Lexer, FiniteSets

CONSTANTS
  Callers,      \* what callers issue: sequences of commands [op, name, to], see Ops
  MaxServed     \* octets one read of the server returns at most

BareOps == {"LISTSCRIPTS", "LOGOUT", "UNAUTHENTICATE", "CAPABILITY", "STARTTLS", "NOOP"}
NameOps == {"GETSCRIPT", "DELETESCRIPT", "SETACTIVE", "NOOP tag"}
Ops == BareOps \cup NameOps
         \cup {"PUTSCRIPT", "CHECKSCRIPT", "RENAMESCRIPT", "HAVESPACE", "AUTHENTICATE",
               "AUTHENTICATE initial", "RESPONSE", "CANCEL", "RAW"}
Issued == UNION {ToSet(caller) : caller \in Callers}

\* The arguments are octets, any, that a server reads when they come as a
\* literal; a size is a number.
ASSUME SerialiseAssumption ==
  /\ MaxServed \in Nat \ {0} /\ Ops \cup {"NOOP", "AUTHENTICATE", "*"} \subseteq Octet
  /\ Callers \subseteq Seq(Issued)
  /\ \A c \in Issued :
       /\ c.op \in Ops /\ c.name \in Seq(Octet) /\ c.to \in Seq(Octet)
       /\ c.op # "RAW" => \A n \in {Len(c.name), Len(c.to)} : n <= MaxLiteral /\ n <= MaxSize
       /\ c.op = "HAVESPACE" => c.to # <<>> /\ ToSet(c.to) \subseteq Digits

-----------------------------------------------------------------------------
(* Strings.                                                                *)

\* Mutant: the limit is on the value, not on what travels.
FitsUnescaped(value, escapes) == Len(value) <= MaxQuoted

Fits(value, escapes) == Len(value) + escapes <= MaxQuoted

\* quote: a value between quotes, its specials escaped.
EscapedAt(value, i, From) ==
  IF i > Len(value) THEN <<>>
  ELSE (IF value[i] \in QuotedSpecials THEN << Backslash, value[i] >> ELSE << value[i] >>)
         \o From[i + 1]

Escaped(value) ==
  LET From[i \in 1..(Len(value) + 1)] == EscapedAt(value, i, From)
  IN From[1]

Quoted(value) == << Quote >> \o Escaped(value) \o << Quote >>

Quotable(value) ==
  /\ Fits(value, Cardinality({i \in DOMAIN value : value[i] \in QuotedSpecials}))
  /\ ToSet(value) \cap Control = {}

\* A number in decimal.
DecimalAt(n, Of) ==
  IF n < 10 THEN << Numerals[n + 1] >> ELSE Of[n \div 10] \o << Numerals[(n % 10) + 1] >>

Decimal(n) ==
  LET Of[k \in 0..n] == DecimalAt(k, Of)
  IN Of[n]

\* literal: the non-synchronising form, all in one write.
Marker(size) == << Brace >> \o Decimal(size) \o << "+", "}" >> \o Crlf
Literal(value) == Marker(Len(value)) \o value

\* string: quoted when it can be, a literal otherwise.
String(value) == IF Quotable(value) THEN Quoted(value) ELSE Literal(value)

-----------------------------------------------------------------------------
(* The commands, each From<Cmd> for Vec<u8>.                               *)

Bare(c) == << c.op >> \o Crlf
PutScript(c) == << "PUTSCRIPT", " " >> \o String(c.name) \o << " " >> \o Literal(c.to) \o Crlf
CheckScript(c) == << "CHECKSCRIPT", " " >> \o Literal(c.to) \o Crlf
GetScript(c) == << "GETSCRIPT", " " >> \o String(c.name) \o Crlf
DeleteScript(c) == << "DELETESCRIPT", " " >> \o String(c.name) \o Crlf
RenameScript(c) ==
  << "RENAMESCRIPT", " " >> \o String(c.name) \o << " " >> \o String(c.to) \o Crlf
HaveSpace(c) == << "HAVESPACE", " " >> \o String(c.name) \o << " " >> \o c.to \o Crlf

\* Without a name, which is the empty string, no script is active.
SetActive(c) == << "SETACTIVE", " " >> \o String(c.name) \o Crlf
NoopTag(c) == << "NOOP", " " >> \o String(c.name) \o Crlf

\* The mechanism, and the initial response if it is inlined; `to' is base64.
Authenticate(c) == << "AUTHENTICATE", " " >> \o String(c.name) \o Crlf
AuthenticateInitial(c) ==
  << "AUTHENTICATE", " " >> \o String(c.name) \o << " " >> \o String(c.to) \o Crlf

\* client_response, and the string that cancels an exchange.
Response(c) == String(c.to) \o Crlf
Cancel == << Quote, "*", Quote >> \o Crlf

\* The passthrough closes what the caller left open.
Raw(c) == IF IsSuffix(Crlf, c.to) THEN c.to ELSE c.to \o Crlf

Octets(c) ==
  CASE c.op \in BareOps             -> Bare(c)
    [] c.op = "PUTSCRIPT"           -> PutScript(c)
    [] c.op = "CHECKSCRIPT"         -> CheckScript(c)
    [] c.op = "GETSCRIPT"           -> GetScript(c)
    [] c.op = "DELETESCRIPT"        -> DeleteScript(c)
    [] c.op = "RENAMESCRIPT"        -> RenameScript(c)
    [] c.op = "HAVESPACE"           -> HaveSpace(c)
    [] c.op = "SETACTIVE"           -> SetActive(c)
    [] c.op = "NOOP tag"            -> NoopTag(c)
    [] c.op = "AUTHENTICATE"        -> Authenticate(c)
    [] c.op = "AUTHENTICATE initial" -> AuthenticateInitial(c)
    [] c.op = "RESPONSE"            -> Response(c)
    [] c.op = "CANCEL"              -> Cancel
    [] c.op = "RAW"                 -> Raw(c)

-----------------------------------------------------------------------------
VARIABLES
  calls,        \* the commands the caller has yet to issue
  written,      \* the commands written, in order
  sent,         \* octets written and not read by the server
  held,         \* octets the server read and has not taken
  lines         \* what the server took: the tokens of a line, or an error

serialiseVars == << calls, written, sent, held, lines >>

SerialiseInit ==
  calls \in Callers /\ written = <<>> /\ sent = <<>> /\ held = <<>> /\ lines = <<>>

\* Mutant: the command before is still in front of it, in a buffer nobody
\* cleared.
Uncleared(c) == (IF written = <<>> THEN <<>> ELSE Octets(Last(written))) \o Octets(c)

\* What one write hands to the socket: write_all takes it to the end.
Written(c) == Octets(c)

\* One write per command.  It may go out before the server is done with the
\* one before: UNAUTHENTICATE and the cancelled exchange do not wait.
Write ==
  /\ calls # <<>>
  /\ calls' = Tail(calls) /\ written' = Append(written, Head(calls))
  /\ sent' = sent \o Written(Head(calls))
  /\ UNCHANGED << held, lines >>

ServerReads ==
  /\ \E n \in 1..Min({Len(sent), MaxServed}) :
        held' = held \o SubSeq(sent, 1, n) /\ sent' = SubSeq(sent, n + 1, Len(sent))
  /\ UNCHANGED << calls, written, lines >>

ServerTakes ==
  /\ LET Takes(scanned) ==
           /\ scanned.is # "incomplete"
           /\ lines' = Append(lines, scanned)
           /\ held' = IF scanned.is = "line" THEN SubSeq(held, scanned.consumed + 1, Len(held))
                                             ELSE <<>>
     IN Takes(ScanLine(held))
  /\ UNCHANGED << calls, written, sent >>

AllServed ==
  /\ calls = <<>> /\ sent = <<>> /\ ScanLine(held).is = "incomplete"
  /\ UNCHANGED serialiseVars

SerialiseNext == Write \/ ServerReads \/ ServerTakes \/ AllServed
SerialiseSpec == SerialiseInit /\ [][SerialiseNext]_serialiseVars

-----------------------------------------------------------------------------
(* What a caller means by a command: its tokens in the grammar of RFC 5804. *)

Verb(c) == Atom(<< c.op >>)
Meaning(c) ==
  CASE c.op \in BareOps -> << Verb(c) >>
    [] c.op \in NameOps \ {"NOOP tag"} -> << Verb(c), Str(c.name) >>
    [] c.op \in {"PUTSCRIPT", "RENAMESCRIPT"} -> << Verb(c), Str(c.name), Str(c.to) >>
    [] c.op = "CHECKSCRIPT" -> << Verb(c), Str(c.to) >>
    [] c.op = "HAVESPACE" -> << Verb(c), Str(c.name), Atom(c.to) >>
    [] c.op = "NOOP tag" -> << Atom(<< "NOOP" >>), Str(c.name) >>
    [] c.op = "AUTHENTICATE" -> << Verb(c), Str(c.name) >>
    [] c.op = "AUTHENTICATE initial" ->
         << Atom(<< "AUTHENTICATE" >>), Str(c.name), Str(c.to) >>
    [] c.op = "RESPONSE" -> << Str(c.to) >>
    [] c.op = "CANCEL" -> << Str(<< "*" >>) >>
    [] c.op = "RAW" -> c.means

\* A caller of the passthrough gives a command whole, and means what it gives.
RawsAreWhole(callers) ==
  \A caller \in callers : \A i \in DOMAIN caller :
    caller[i].op = "RAW" =>
      ScanLine(Raw(caller[i])) =
        [is |-> "line", tokens |-> caller[i].means, consumed |-> Len(Raw(caller[i]))]

\* The buffers hold the end of what was written, and nothing else.
SerialiseTypeOK ==
  /\ written \o calls \in Callers
  /\ IsSuffix(held \o sent, FlattenSeq([i \in DOMAIN written |-> Octets(written[i])]))
  /\ \A i \in DOMAIN lines : lines[i].is \in {"line", "error"}

\* Whatever octets a name, a tag, a script or a response is made of, and
\* however the server's reads cut them, each command is one line with the
\* arguments the caller gave, in the order of the calls: nothing in an
\* argument ends its command early, starts another one or is left over.  No
\* quoted string is longer than RFC 5804 lets a server accept.
UnderstoodAsMeant ==
  /\ Len(lines) <= Len(written)
  /\ \A i \in DOMAIN lines : lines[i].is = "line" /\ lines[i].tokens = Meaning(written[i])
  /\ sent = <<>> /\ ScanLine(held).is = "incomplete" => held = <<>> /\ Len(lines) = Len(written)
  /\ \A i \in DOMAIN written :
       \A string \in {String(written[i].name), String(written[i].to)} :
         string[1] = Quote => Len(string) <= MaxQuoted + 2

\* The docs of raw.rs and of the client: the CRLF closing a command is added
\* when the caller left it out, a command carrying a literal being passed
\* marker and octets together.  A command left open is one the server waits
\* for the rest of, and nobody will send it.
RawCommandsClosed ==
  sent = <<>> /\ ScanLine(held).is = "incomplete" => Len(lines) = Len(written)
=============================================================================
