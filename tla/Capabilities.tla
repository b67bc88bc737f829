---------------------------- MODULE Capabilities ----------------------------
(***************************************************************************)
(* The capability set of src/rfc5804/capability.rs, read out of a response *)
(* ResponseRead completed with: the greeting, the listing after a TLS      *)
(* upgrade, the answer to CAPABILITY.  A set is the sequence of its lines, *)
(* as the server ordered them; the accessors look through it.              *)
(***************************************************************************)
EXTENDS ResponseRead

\* ManagesieveCapabilities::parse.
CapabilitiesOf(data) ==
  LET named == SelectSeq(data, LAMBDA line : StringAt(line, 1) # NoString)
      ValueIn(line) == IF StringAt(line, 2) = NoString THEN NoString ELSE Text(StringAt(line, 2))
  IN [i \in DOMAIN named |-> [name |-> Text(StringAt(named[i], 1)), value |-> ValueIn(named[i])]]

\* Where a name is listed.
Listed(caps, name) == {i \in DOMAIN caps : SameWord(caps[i].name, name)}

\* value: the value of the first line of that name.
Value(caps, name) ==
  IF Listed(caps, name) = {} THEN NoString ELSE caps[Min(Listed(caps, name))].value

\* Mutant: a capability without a value is one the server did not send.
HasValued(caps, name) == Value(caps, name) # NoString

\* has: whether it was advertised, with a value or without.
Has(caps, name) == Listed(caps, name) # {}

\* split_whitespace: the words of a value.
Split(value) ==
  LET Blank(i) == i \notin DOMAIN value \/ value[i] \in Whitespace
      starts == {i \in DOMAIN value : ~Blank(i) /\ Blank(i - 1)}
      WordEnd(i) == Min({j \in i..Len(value) : Blank(j + 1)})
  IN LET at == SetToSortSeq(starts, <)
     IN [k \in DOMAIN at |-> SubSeq(value, at[k], WordEnd(at[k]))]

\* list: sieve, sasl and notify.
List(caps, name) == IF Value(caps, name) = NoString THEN <<>> ELSE Split(Value(caps, name))

\* max_redirects: parse::<u32>, which takes a sign.
NotANumber == -1
MaxRedirects(caps) ==
  LET value == Value(caps, "MAXREDIRECTS")
      digits == IF value # <<>> /\ value[1] = "+" THEN SubSeq(value, 2, Len(value)) ELSE value
  IN IF digits = <<>> \/ ~(ToSet(digits) \subseteq Digits) THEN NotANumber
     ELSE IF Number(digits) > MaxSize THEN NotANumber ELSE Number(digits)

-----------------------------------------------------------------------------
\* What a server advertises is what the accessors answer, in whichever case
\* it spells a name, in whichever form its strings travel, in whatever order
\* and among whatever other capabilities, of whatever value: STARTTLS inside
\* a value is not STARTTLS, a valueless one is still there, a list is its
\* words, a number that u32 cannot hold is none.
AsAdvertised ==
  stream.kind = "listing" =>
    /\ outcome \in {"reading", "taking", "response"}
    /\ outcome = "response" =>
         LET caps == CapabilitiesOf(response.data)
             Told(name) == {c \in ToSet(stream.said) : c.name = name}
         IN /\ \A name \in {"STARTTLS", "SASL", "MAXREDIRECTS"} :
                 IF Told(name) = {} THEN ~Has(caps, name) /\ List(caps, name) = <<>>
                 ELSE \A c \in Told(name) : Has(caps, name) /\ List(caps, name) = c.words
            /\ MaxRedirects(caps) =
                 IF Told("MAXREDIRECTS") = {} THEN NotANumber
                 ELSE (CHOOSE c \in Told("MAXREDIRECTS") : TRUE).number
=============================================================================
