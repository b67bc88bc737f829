----------------------------- MODULE Responses -----------------------------
(***************************************************************************)
(* From the tokens of lines to a response: src/rfc5804/response.rs.        *)
(***************************************************************************)
EXTENDS Lexer

\* eq_ignore_ascii_case: a word and the same one as the protocol spells it.
Spellings == [ok |-> "OK", No |-> "NO", bye |-> "BYE", quota |-> "QUOTA", Tag |-> "TAG",
              active |-> "ACTIVE", starttls |-> "STARTTLS", Sasl |-> "SASL"]
Folded(word) == IF word \in DOMAIN Spellings THEN Spellings[word] ELSE word
SameWord(octets, word) == Len(octets) = 1 /\ Folded(octets[1]) = word

\* text: from_utf8_lossy.
Malformed == "8BIT"
Replacement == "REPLACEMENT"
Text(octets) ==
  [i \in DOMAIN octets |-> IF octets[i] = Malformed THEN Replacement ELSE octets[i]]

StatusWords == {"OK", "NO", "BYE"}
PlainCodes == {"AUTH-TOO-WEAK", "ENCRYPT-NEEDED", "TRANSITION-NEEDED", "TRYLATER",
               "ACTIVE", "NONEXISTENT", "ALREADYEXISTS", "WARNINGS"}
QuotaDetails == << "MAXSCRIPTS", "MAXSIZE" >>
Code(name, arg) == [name |-> name, arg |-> arg]
NoCode == Code("none", <<>>)
NoText == << "no text" >>

-----------------------------------------------------------------------------
\* parse_code: the tokens between the parentheses of a response code.
ParseCode(tokens) ==
  IF tokens = <<>> \/ tokens[1].is # "atom" THEN Bad("EmptyResponseCode")
  ELSE
    LET name == tokens[1].val
        argument == IF Len(tokens) > 1 /\ tokens[2].is = "string" THEN tokens[2].val ELSE <<>>
        slash == Min({i \in DOMAIN name : name[i] = "/"} \cup {Len(name) + 1})
        head == SubSeq(name, 1, slash - 1)
        detail == SubSeq(name, slash + 1, Len(name))
        Is(word) == SameWord(head, word)
        known == {word \in PlainCodes : Is(word)}
    IN CASE known # {} -> Code(CHOOSE word \in known : TRUE, <<>>)
         [] Is("QUOTA") -> Code("QUOTA", SelectSeq(QuotaDetails,
                                                   LAMBDA word : SameWord(detail, word)))
         [] Is("REFERRAL") -> Code("REFERRAL", Text(argument))
         [] Is("SASL") -> Code("SASL", argument)
         [] Is("TAG") -> Code("TAG", Text(argument))
         [] OTHER -> Code("OTHER", Text(name))

\* Mutant: the place counted from behind the opening one, as if from the
\* start of the line.
CodeEndRelative(tokens) ==
  LET closes == {i \in DOMAIN tokens : i > 2 /\ tokens[i] = Close}
  IN IF closes = {} THEN 0 ELSE Min(closes) - 2

\* The parenthesis closing the response code, or 0.
CodeEnd(tokens) ==
  LET closes == {i \in DOMAIN tokens : i > 2 /\ tokens[i] = Close}
  IN IF closes = {} THEN 0 ELSE Min(closes)

\* parse_completion: the status, its code and its text.
ParseCompletion(tokens) ==
  IF tokens = <<>> THEN Bad("EmptyLine")
  ELSE IF tokens[1].is # "atom" THEN Bad("UnexpectedByte")
  ELSE IF ~\E word \in StatusWords : SameWord(tokens[1].val, word) THEN Bad("UnknownStatus")
  ELSE
    LET coded == Len(tokens) > 1 /\ tokens[2] = Open
        code == IF coded THEN ParseCode(SubSeq(tokens, 3, CodeEnd(tokens) - 1)) ELSE NoCode
        rest == SubSeq(tokens, IF coded THEN CodeEnd(tokens) + 1 ELSE 2, Len(tokens))
    IN IF coded /\ CodeEnd(tokens) = 0 THEN Bad("UnterminatedResponseCode")
       ELSE IF coded /\ code = Bad("EmptyResponseCode") THEN code
       ELSE [is |-> "completion",
             status |-> CHOOSE word \in StatusWords : SameWord(tokens[1].val, word),
             code |-> code,
             text |-> IF rest # <<>> /\ rest[1].is = "string" THEN Text(rest[1].val) ELSE NoText]

\* parse_data: every token of a data line is a string or an atom.
ParseData(tokens) ==
  IF \E i \in DOMAIN tokens : tokens[i] \in {Open, Close} THEN Bad("UnexpectedByte")
  ELSE [is |-> "data",
        tokens |-> [i \in DOMAIN tokens |->
                      IF tokens[i].is = "atom" THEN Atom(Text(tokens[i].val)) ELSE tokens[i]]]

\* A line that opens on a string is data, any other a completion.
ParseTokens(tokens) ==
  IF tokens # <<>> /\ tokens[1].is = "string" THEN ParseData(tokens) ELSE ParseCompletion(tokens)

\* ManagesieveLine::parse.
ParseLine(buf) ==
  LET Consumed(line, consumed) ==
        IF line.is = "error" THEN line
        ELSE [is |-> "line", line |-> line, consumed |-> consumed]
      Parsed(scanned) ==
        IF scanned.is # "line" THEN scanned
        ELSE Consumed(ParseTokens(scanned.tokens), scanned.consumed)
  IN Parsed(ScanLine(buf))

\* ManagesieveResponse::parse: data lines up to a completion.
LinesAt(start, parsed, From) ==
  LET next == start + parsed.consumed
  IN IF parsed.is # "line" THEN parsed
     ELSE IF parsed.line.is = "completion"
       THEN [is |-> "response", data |-> <<>>, completion |-> parsed.line, consumed |-> next]
     ELSE IF From[next].is # "response" THEN From[next]
     ELSE [From[next] EXCEPT !.data = << parsed.line >> \o @]

ParseResponse(buf) ==
  LET From[start \in 0..Len(buf)] ==
        LinesAt(start, ParseLine(SubSeq(buf, start + 1, Len(buf))), From)
  IN From[0]

-----------------------------------------------------------------------------
(* What a command reads out of a data line.                                *)

NoString == << "no string" >>
StringAt(line, index) ==
  IF index \in DOMAIN line.tokens /\ line.tokens[index].is = "string"
    THEN line.tokens[index].val ELSE NoString

HasAtom(line, word) ==
  \E i \in DOMAIN line.tokens : line.tokens[i].is = "atom" /\ SameWord(line.tokens[i].val, word)
=============================================================================
