-------------------------------- MODULE Wire --------------------------------
(***************************************************************************)
(* Framing of what a ManageSieve server sends, as src/utils.rs and         *)
(* src/rfc5804/response.rs read it.                                        *)
(*                                                                         *)
(* A logical line travels as a sequence of units, the last of which        *)
(* carries its CRLF, so that a read may stop in the middle of a line.  A   *)
(* line is what the parsers tell apart: a data line (its first token is a  *)
(* string), a completion of one of the three statuses, or a line that does *)
(* not parse.  `val' is the string of a data line (a capability name or a  *)
(* SASL challenge) or the response code of a completion.  `on' is a ghost: *)
(* the state the connection was in when the server sent the line.          *)
(*                                                                         *)
(* `cut' is what the octets of the line read as once some of them are      *)
(* gone, or once another line runs into them: the parser starts again in   *)
(* the middle of a string or of a literal, whose own octets it then takes  *)
(* for a line.  They may read as a line of any kind, or as the marker of a *)
(* literal ("open"), which takes in whatever follows it.                   *)
(***************************************************************************)
EXTENDS Integers, Sequences

CONSTANT Cuts   \* what a broken line may read as

Statuses == {"ok", "no", "bye"}
Kinds == Statuses \cup {"data", "bad"}

\* "final" is the server's proof of a mutual mechanism, "garbage" what does
\* not decode from base64, "plain" any other string, "none" no response code.
Vals == {"STARTTLS", "plain", "final", "garbage", "none"}

\* Where a line was sent: before any protection, on a protected connection
\* that is not authenticated yet, or after the server's OK to AUTHENTICATE.
Phases == {"clear", "secure", "auth"}

Cut == [kind : Kinds \cup {"open"}, val : Vals]
Line == [kind : Kinds, val : Vals, on : Phases, cut : Cut]
Unit == [of : Line, last : BOOLEAN]

\* The units a whole line travels as.
Frame(line) == << [of |-> line, last |-> FALSE], [of |-> line, last |-> TRUE] >>

-----------------------------------------------------------------------------
(* Reading a buffer, a sequence of units, whose first unit may be in the   *)
(* middle of a line when what came before it was thrown away.              *)

\* What a line may be broken into: the text of a goodbye is a quoted string.
Texts == {c \in Cuts : c.kind \in {"bad", "data"}}
CutsOf(kind) == IF kind = "bye" THEN Texts ELSE Cuts

FirstOf(S) == CHOOSE i \in S : \A j \in S : i <= j

\* Only the end of the line is there.
IsOrphan(b, i) == i = 1 \/ b[i - 1].last

\* The broken lines in front of the CRLF at unit i: the line it ends when its
\* head is gone, or the unfinished ones that ran into it.
Fragments(b, i) ==
  IF IsOrphan(b, i) THEN {i} ELSE {j \in 1..(i - 2) : \A k \in j..(i - 1) : ~b[k].last}

\* The logical line ending at unit i, which reads as it begins.
LineAt(b, i) ==
  IF Fragments(b, i) = {} THEN b[i].of
  ELSE LET cut == b[FirstOf(Fragments(b, i))].of.cut
       IN [b[i].of EXCEPT !.kind = cut.kind, !.val = cut.val]

\* The CRLF at unit i is that of a marker: a literal begins, not a line ends,
\* and it takes in all that follows.
Opens(b, i) == \E j \in Fragments(b, i) : b[j].of.cut.kind = "open"

\* scan_line: the ends of the logical lines.
Ends(b) ==
  {i \in DOMAIN b : b[i].last /\ \A j \in 1..i : b[j].last => ~Opens(b, j)}

\* The octets of a literal are awaited that nobody may send.
HoldsOpen(b) == \E i \in DOMAIN b : b[i].last /\ Opens(b, i)

\* ManagesieveLine::parse: the first complete line, and what follows it.
HasLine(b) == Ends(b) # {}
FirstLine(b) == LineAt(b, FirstOf(Ends(b)))
AfterLine(b) == SubSeq(b, FirstOf(Ends(b)) + 1, Len(b))

\* ManagesieveResponse::parse: data lines up to a completion, or up to a
\* line that does not parse.
Stops(b) == {i \in Ends(b) : LineAt(b, i).kind # "data"}
HasResponse(b) == Stops(b) # {}
Completion(b) == LineAt(b, FirstOf(Stops(b)))
Data(b) == {LineAt(b, i).val : i \in {j \in Ends(b) : j < FirstOf(Stops(b))}}
Trailing(b) == SubSeq(b, FirstOf(Stops(b)) + 1, Len(b))

\* What is left of a buffer once its complete lines are drained: the
\* unfinished line at its end.
Unfinished(b) ==
  SubSeq(b, FirstOf({i \in 0..Len(b) : \A j \in Ends(b) : j <= i}) + 1, Len(b))
=============================================================================
