------------------------------- MODULE Lexer -------------------------------
(***************************************************************************)
(* The octets of a ManageSieve line and its tokens: src/utils.rs.          *)
(*                                                                         *)
(* The octets the lexer tells apart stand for themselves; any other, or a  *)
(* whole word such as a status or the name of a response code, is one      *)
(* letter: the lexer never looks inside an atom, and a read that stops     *)
(* inside a word has not read its line either.  The limits are counted in  *)
(* octets; TLC's instances scale them down.                                *)
(***************************************************************************)
EXTENDS Integers, SequencesExt

CONSTANTS
  Octet,        \* the octets
  MaxLiteral,   \* MAX_LITERAL: the largest literal read
  MaxSize,      \* u32::MAX: the largest size a marker can name
  MaxQuoted     \* QUOTED_MAX: the most octets written between two quotes

CR == "\r"
LF == "\n"
Crlf == << CR, LF >>
Control == {CR, LF, "\t", "\f", "NUL"}
Whitespace == {" ", CR, LF, "\t", "\f"}
Quote == "\""
Backslash == "\\"
Brace == "{"
QuotedSpecials == {Quote, Backslash}
AtomSpecials == {"(", ")", Brace, " "} \cup QuotedSpecials \cup Control

Numerals == << "0", "1", "2", "3", "4", "5", "6", "7", "8", "9" >>
Digits == ToSet(Numerals)

ASSUME LexerAssumption ==
  /\ Control \cup Whitespace \cup AtomSpecials \cup Digits \cup {"+", "}"} \subseteq Octet
  /\ MaxLiteral \in Nat /\ MaxSize \in Nat /\ MaxQuoted \in Nat

ValueOf(digit) == (CHOOSE i \in DOMAIN Numerals : Numerals[i] = digit) - 1

\* The number that digits are in decimal.
NumberAt(digits, i, Upto) == IF i = 0 THEN 0 ELSE 10 * Upto[i - 1] + ValueOf(digits[i])

Number(digits) ==
  LET Upto[i \in 0..Len(digits)] == NumberAt(digits, i, Upto)
  IN Upto[Len(digits)]

\* Tokens.
Str(val) == [is |-> "string", val |-> val]
Atom(val) == [is |-> "atom", val |-> val]
Open == [is |-> "open", val |-> <<>>]
Close == [is |-> "close", val |-> <<>>]

\* ManagesieveResponseParseError, without what it quotes.
Fine == "fine"
LexErrors == {"UnexpectedByte", "UnterminatedQuoted", "InvalidEscape",
              "InvalidLiteralMarker", "LiteralTooLarge"}

-----------------------------------------------------------------------------
(* One physical segment.                                                   *)

\* lex_quoted: the string whose opening quote is at `open', unescaped, and
\* the index past its closing quote.  Each loop is a step at an index that may
\* use what the same loop finds from later ones.
QuotedAt(segment, i, From) ==
  LET n == Len(segment)
      Failed(err) == [err |-> err, string |-> <<>>, next |-> n + 1]
      Push(octet, next) == [From[next] EXCEPT !.string = << octet >> \o @]
  IN IF i > n THEN Failed("UnterminatedQuoted")
     ELSE IF segment[i] = Quote THEN [err |-> Fine, string |-> <<>>, next |-> i + 1]
     ELSE IF segment[i] # Backslash THEN Push(segment[i], i + 1)
     ELSE IF i = n THEN Failed("UnterminatedQuoted")
     ELSE IF segment[i + 1] \notin QuotedSpecials THEN Failed("InvalidEscape")
     ELSE Push(segment[i + 1], i + 2)

LexQuoted(segment, open) ==
  LET From[i \in (open + 1)..(Len(segment) + 1)] == QuotedAt(segment, i, From)
  IN From[open + 1]

\* lex_literal_marker: {size} or {size+}, to the end of the segment.
NoMarker == -1

\* Mutant: a literal of the largest size is one too many.
WithinLiteralShort(size) == size < MaxLiteral

WithinLiteral(size) == size <= MaxLiteral

\* No token, and no marker: the end of a segment, or the error.
LexEnd(err) == [err |-> err, tokens |-> <<>>, marker |-> NoMarker]

LexLiteralMarker(marker) ==
  LET inner == SubSeq(marker, 2, Len(marker) - 1)
      digits == IF inner # <<>> /\ Last(inner) = "+" THEN Front(inner) ELSE inner
      size == Number(digits)
  IN IF Last(marker) # "}" \/ digits = <<>> \/ ~(ToSet(digits) \subseteq Digits)
       THEN LexEnd("InvalidLiteralMarker")
     ELSE IF size \notin 0..MaxSize THEN LexEnd("InvalidLiteralMarker")
     ELSE IF ~WithinLiteral(size) THEN LexEnd("LiteralTooLarge")
     ELSE [err |-> Fine, tokens |-> <<>>, marker |-> size]

\* Where the atom at i ends.
AtomEnd(segment, i) ==
  Min({j \in i..Len(segment) : segment[j] \in AtomSpecials} \cup {Len(segment) + 1})

\* lex: the tokens of a segment and the size its marker announces.
Pushed(token, lexed) == [lexed EXCEPT !.tokens = << token >> \o @]

LexAt(segment, i, From) ==
  LET n == Len(segment)
      quoted == LexQuoted(segment, i)
      end == AtomEnd(segment, i)
  IN IF i > n THEN LexEnd(Fine)
     ELSE CASE segment[i] \in Whitespace -> From[i + 1]
            [] segment[i] = Quote ->
                 IF quoted.err = Fine THEN Pushed(Str(quoted.string), From[quoted.next])
                                      ELSE LexEnd(quoted.err)
            [] segment[i] = Brace -> LexLiteralMarker(SubSeq(segment, i, n))
            [] segment[i] = "(" -> Pushed(Open, From[i + 1])
            [] segment[i] = ")" -> Pushed(Close, From[i + 1])
            [] segment[i] \in {Backslash} \cup (Control \ Whitespace) -> LexEnd("UnexpectedByte")
            [] OTHER -> Pushed(Atom(SubSeq(segment, i, end - 1)), From[end])

Lex(segment) ==
  LET From[i \in 1..(Len(segment) + 1)] == LexAt(segment, i, From)
  IN From[1]

-----------------------------------------------------------------------------
(* One logical line: as many segments as it has literals, and one more.    *)

Incomplete == [is |-> "incomplete"]
Bad(err) == [is |-> "error", err |-> err]

\* The segment from index on, its line ending stripped, and where it ends.
Eols(buf, index) == {i \in index..Len(buf) : buf[i] = LF}
Segment(buf, index, eol) ==
  SubSeq(buf, index, IF eol > index /\ buf[eol - 1] = CR THEN eol - 2 ELSE eol - 1)

\* A segment ended at eol: that is the line, or a literal follows and the
\* line goes on behind it.
EndOrLiteral(buf, eol, lexed, From) ==
  LET stop == eol + lexed.marker
      rest == From[stop + 1]
  IN IF lexed.err # Fine THEN Bad(lexed.err)
     ELSE IF lexed.marker = NoMarker
       THEN [is |-> "line", tokens |-> lexed.tokens, consumed |-> eol]
     ELSE IF Len(buf) < stop THEN Incomplete
     ELSE IF rest.is # "line" THEN rest
     ELSE [rest EXCEPT !.tokens =
             lexed.tokens \o << Str(SubSeq(buf, eol + 1, stop)) >> \o @]

\* scan_line: the first logical line of a buffer, if it is all there.
ScanAt(buf, index, From) ==
  LET eol == Min(Eols(buf, index))
  IN IF Eols(buf, index) = {} THEN Incomplete
     ELSE EndOrLiteral(buf, eol, Lex(Segment(buf, index, eol)), From)

ScanLine(buf) ==
  LET From[index \in 1..(Len(buf) + 1)] == ScanAt(buf, index, From)
  IN From[1]
=============================================================================
