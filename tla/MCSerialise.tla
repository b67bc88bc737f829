---------------------------- MODULE MCSerialise ----------------------------
(* Instances of Serialise: the arguments callers give.                     *)
EXTENDS Serialise

AllOctets == STRING

Alphabet == {"a", Quote, Backslash, "{", ")", CR, LF, "NUL"}
Values == UNION {[1..n -> Alphabet] : n \in 0..2}
Awkward ==
  {<<>>, << "a", "a", Quote >>, << Backslash, Quote >>, Crlf, << "a", "a", "a", "a" >>,
   << "{", "1", "+", "}" >> \o Crlf, << Quote >> \o Crlf \o << "LOGOUT" >> \o Crlf,
   << "a", "a", "a", "a", "a", "a", "a", "a", "a", "a", LF >>}

Command(op, name, to) == [op |-> op, name |-> name, to |-> to]

AllCommands ==
  {Command(op, <<>>, <<>>) : op \in BareOps \cup {"CANCEL"}}
  \cup {Command(op, n, <<>>) : op \in NameOps, n \in Values \cup Awkward}
  \cup {Command("PUTSCRIPT", n, b) : n \in Awkward, b \in Values \cup Awkward}
  \cup {Command("CHECKSCRIPT", <<>>, b) : b \in Values \cup Awkward}
  \cup {Command("RENAMESCRIPT", n, m) : n \in Awkward, m \in Awkward}
  \cup {Command("HAVESPACE", n, Decimal(size)) : n \in Awkward, size \in {0, 10, 99}}
  \cup {Command("AUTHENTICATE", << "a" >>, <<>>)}
  \cup {Command("AUTHENTICATE initial", << "a" >>, [i \in 1..n |-> "b"]) : n \in 0..4}
  \cup {Command("RESPONSE", <<>>, [i \in 1..n |-> "b"]) : n \in 0..4}

\* Pairs of commands: one of each kind, and the arguments that are hardest.
FewCommands ==
  {Command("LOGOUT", <<>>, <<>>), Command("CANCEL", <<>>, <<>>)}
  \cup {Command("PUTSCRIPT", n, b) : n \in {<< Quote >>, Crlf},
                                     b \in {<<>>, << "{", "1", "+", "}" >> \o Crlf}}
  \cup {Command("NOOP tag", << Backslash, Quote >>, <<>>), Command("RESPONSE", <<>>, <<>>)}

\* A passthrough command as its caller means it: closed or not, with or
\* without a literal.
RawCommand(octets, means) == [op |-> "RAW", name |-> <<>>, to |-> octets, means |-> means]
Listed == RawCommand(<< "LISTSCRIPTS" >>, << Atom(<< "LISTSCRIPTS" >>) >>)
Closed == RawCommand(<< "LISTSCRIPTS" >> \o Crlf, << Atom(<< "LISTSCRIPTS" >>) >>)
Check(body, close) ==
  RawCommand(<< "CHECKSCRIPT", " " >> \o Literal(body) \o close,
             << Atom(<< "CHECKSCRIPT" >>), Str(body) >>)
RawCommands == {Listed, Closed} \cup {Check(b, Crlf) : b \in {<<>>, << "a" >>, << "a" >> \o Crlf}}
                 \cup {Check(<< "a" >>, <<>>)}
OpenCommands == {Check(b, <<>>) : b \in {<< "a" >>, << "a" >> \o Crlf}}

\* One command, any; or two, few, the second written before or after the
\* server has read the first.
OneOrTwo ==
  {<< c >> : c \in AllCommands \cup RawCommands}
  \cup {<< c, d >> : c \in FewCommands \cup RawCommands, d \in FewCommands \cup RawCommands}
ASSUME RawsOfOneOrTwo == RawsAreWhole(OneOrTwo)

OpenCallers == {<< c >> : c \in OpenCommands}
=============================================================================
