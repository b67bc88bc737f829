------------------------------ MODULE MCResponses ------------------------------
(***************************************************************************)
(* What a server may send, for the readers of ResponseRead and for         *)
(* Capabilities.                                                           *)
(***************************************************************************)
EXTENDS Capabilities

AllOctets == STRING

-----------------------------------------------------------------------------
(* Well-formed responses, as section 4 of RFC 5804 lets a server write     *)
(* them: a string travels as a literal, or quoted when it holds no control *)
(* character.                                                              *)

Quoted(val) ==
  << Quote >>
    \o FlattenSeq([i \in DOMAIN val |->
         IF val[i] \in QuotedSpecials THEN << Backslash, val[i] >> ELSE << val[i] >>])
    \o << Quote >>
AsLiteral(val) == << "{", Numerals[Len(val) + 1], "}" >> \o Crlf \o val
Encodings(val) ==
  {AsLiteral(val)} \cup {q \in {Quoted(val)} : ToSet(val) \cap Control = {}}

\* What a string may hold: nothing, what quoting escapes, what looks like the
\* end of a line, of a response code or of a response, a marker.
Contents ==
  {<<>>, << "a" >>, << Quote >>, << Backslash, "a" >>, << ")" >>, << "8BIT" >>, Crlf,
   << "OK" >> \o Crlf, << "{", "1", "}" >> \o Crlf}

Strings(vals) ==
  UNION {{[says |-> Str(v), octets |-> e] : e \in Encodings(v)} : v \in vals}
Texts(vals) ==
  UNION {{[says |-> Text(v), octets |-> << " " >> \o e] : e \in Encodings(v)} : v \in vals}
    \cup {[says |-> NoText, octets |-> <<>>]}

DataLines(vals, others) ==
  {[says |-> [is |-> "data", tokens |-> << s.says >>], octets |-> s.octets \o Crlf] :
      s \in Strings(vals)}
  \cup {[says |-> [is |-> "data", tokens |-> << s.says, t.says >>],
         octets |-> s.octets \o << " " >> \o t.octets \o Crlf] :
      s \in Strings(vals), t \in Strings(others)}
  \cup {[says |-> [is |-> "data", tokens |-> << s.says, Atom(<< "active" >>) >>],
         octets |-> s.octets \o << " ", "active" >> \o Crlf] : s \in Strings(vals)}

Codes(vals) ==
  {[says |-> NoCode, octets |-> <<>>],
   [says |-> Code("QUOTA", << "MAXSIZE" >>), octets |-> << " ", "(", "quota", "/", "MAXSIZE", ")" >>],
   [says |-> Code("QUOTA", <<>>), octets |-> << " ", "(", "QUOTA", "/", "x", ")" >>],
   [says |-> Code("OTHER", << "x", "/", "y" >>), octets |-> << " ", "(", "x", "/", "y", " ", "z", ")" >>]}
  \cup UNION {{[says |-> Code("TAG", Text(v)),
                octets |-> << " ", "(", "Tag", " " >> \o e \o << ")" >>] : e \in Encodings(v)} :
      v \in vals}

Completions(words, codes, texts) ==
  {[says |-> [is |-> "completion", status |-> Folded(w), code |-> c.says, text |-> t.says],
    octets |-> << w >> \o c.octets \o t.octets \o Crlf] :
      w \in words, c \in codes, t \in texts}

Tails == {<<>>, << "x" >>, << "OK" >> \o Crlf}

Stream(data, completion, tail) ==
  [kind |-> "response", readers |-> {"response", "line"},
   said |-> [data |-> [i \in DOMAIN data |-> data[i].says], completion |-> completion.says,
             tail |-> tail],
   octets |-> FlattenSeq([i \in DOMAIN data |-> data[i].octets]) \o completion.octets \o tail]

Ok == Completions({"OK"}, {[says |-> NoCode, octets |-> <<>>]}, Texts({}))
No == Completions({"No"}, {[says |-> NoCode, octets |-> <<>>]}, Texts({<< "a" >>}))

WellFormed ==
  {Stream(<<>>, c, t) : c \in Completions({"OK", "bye"}, Codes(Contents), Texts(Contents)),
                        t \in Tails}
  \cup {Stream(<< d >>, c, t) : d \in DataLines(Contents, {<< "a" >>, Crlf}), c \in Ok \cup No,
                                t \in Tails}
  \cup {Stream(<< d, e >>, c, <<>>) : d \in DataLines({Crlf, << "a" >>}, {}),
                                      e \in DataLines({Crlf, << Quote >>}, {}), c \in Ok}

-----------------------------------------------------------------------------
(* Streams that are one octet away from well-formed ones, every stream of  *)
(* a few octets, and too long ones: nothing is said of what they mean.     *)

Unsaid == [data |-> <<>>, completion |-> NoCode, tail |-> <<>>]
Alphabet == {"OK", "a", " ", Quote, Backslash, "(", ")", "{", "}", "+", "0", "2", "9", CR, LF, "NUL"}

Bases ==
  {s.octets : s \in {Stream(<<>>, c, <<>>) : c \in Completions({"OK"}, Codes({Crlf}), Texts({<< "a" >>}))}
    \cup {Stream(<< d >>, c, <<>>) : d \in DataLines({Crlf, << Quote >>}, {<< "a" >>}), c \in Ok}}

Edited(s) ==
  {RemoveAt(s, i) : i \in DOMAIN s}
    \cup {[s EXCEPT ![i] = b] : i \in DOMAIN s, b \in Alphabet}
    \cup {InsertAt(s, i, b) : i \in DOMAIN s, b \in {"9", CR, LF, Quote}}

\* More than a response may hold: a line that never ends, behind a line or
\* not, a string nobody closes, and lines that add up to too much.
TooMuch == [i \in 1..(MaxResponse + 2 * MaxRead) |-> "a"]
Line == Quoted(<< "a" >>) \o Crlf
Endless ==
  {TooMuch, Line \o TooMuch, << Quote >> \o TooMuch,
   FlattenSeq([i \in 1..(MaxResponse \div 4) |-> Line]) \o << "OK" >> \o Crlf}

NearMisses ==
  {[kind |-> "edited", readers |-> {"response", "line"}, octets |-> s, said |-> Unsaid] :
      s \in UNION {Edited(b) : b \in Bases} \cup UNION {[1..n -> Alphabet] : n \in 0..3}
              \cup Endless}

-----------------------------------------------------------------------------
(* A data line that is one literal, for every size around the limits (6    *)
(* and 20), written in every way; what is counted looks like a response.   *)

Sizes ==
  {[digits |-> << "0" >>, size |-> 0], [digits |-> << "1" >>, size |-> 1],
   [digits |-> << "5" >>, size |-> 5], [digits |-> << "6" >>, size |-> 6],
   [digits |-> << "0", "6" >>, size |-> 6], [digits |-> << "7" >>, size |-> 7],
   [digits |-> << "1", "0" >>, size |-> 10], [digits |-> << "2", "0" >>, size |-> 20],
   [digits |-> << "2", "1" >>, size |-> 21], [digits |-> << "9", "9" >>, size |-> 99]}
Counted == << LF, "OK" >> \o Crlf \o << Quote, "}", "a", "a", "a", "a" >>
Marked(s, marker) ==
  [kind |-> "sized", readers |-> {"response"},
   octets |-> marker \o SubSeq(Counted, 1, Min({s.size, Len(Counted)})) \o Crlf \o << "OK" >> \o Crlf,
   said |-> [size |-> s.size, start |-> Len(marker)]]
Markers ==
  {Marked(s, << "{" >> \o s.digits \o plus \o << "}" >> \o eol) :
      s \in Sizes, plus \in {<<>>, << "+" >>}, eol \in {Crlf, << LF >>}}

-----------------------------------------------------------------------------
(* What servers advertise.                                                 *)

Cap(name, words, number) == [name |-> name, words |-> words, number |-> number]

\* A capability line: the name in a spelling, a value or none, each string in
\* one of its encodings.
LinesOf(cap, spellings, values) ==
  UNION {{[cap |-> cap, octets |-> n \o v \o Crlf] :
            n \in UNION {Encodings(<< s >>) : s \in spellings},
            v \in IF val = NoString THEN {<<>>} ELSE {<< " " >> \o e : e \in Encodings(val)}} :
         val \in values}

Words == {<<>>, << << "PLAIN" >> >>, << << "PLAIN" >>, << "STARTTLS" >> >>}
Joined(words) == FlattenSeq([i \in DOMAIN words |-> IF i = 1 THEN words[i] ELSE << " " >> \o words[i]])

SaslLines ==
  UNION {LinesOf(Cap("SASL", w, NotANumber), {"SASL", "Sasl"},
                 {Joined(w), Joined(w) \o << " " >>}) : w \in Words}
StartTlsLines == LinesOf(Cap("STARTTLS", <<>>, NotANumber), {"STARTTLS", "starttls"}, {NoString})
RedirectLines ==
  UNION {LinesOf(Cap("MAXREDIRECTS", << v.says >>, v.number), {"MAXREDIRECTS"}, {v.says}) :
    v \in {[says |-> << "0" >>, number |-> 0], [says |-> << "2", "0" >>, number |-> 20],
           [says |-> << "2", "1" >>, number |-> NotANumber],
           [says |-> << "+", "5" >>, number |-> 5], [says |-> << "a" >>, number |-> NotANumber]}}
OtherLines ==
  LinesOf(Cap("OTHER", <<>>, NotANumber), {"x"}, {NoString, << "starttls" >>, << Quote >> \o Crlf})
  \cup {[cap |-> Cap("OTHER", <<>>, NotANumber), octets |-> Quoted(<< "STARTTLS", "x" >>) \o Crlf]}

CapLines == SaslLines \cup StartTlsLines \cup RedirectLines \cup OtherLines
Listing(lines) ==
  [kind |-> "listing", readers |-> {"response"}, said |-> [i \in DOMAIN lines |-> lines[i].cap],
   octets |-> FlattenSeq([i \in DOMAIN lines |-> lines[i].octets]) \o << "OK" >> \o Crlf]

Advertisements ==
  {Listing(<<>>)} \cup {Listing(<< l >>) : l \in CapLines}
  \cup {Listing(<< k, l >>) : << k, l >> \in
          {p \in CapLines \X CapLines : p[1].cap.name # p[2].cap.name}}

AllStreams == WellFormed \cup NearMisses \cup Markers \cup Advertisements
=============================================================================
