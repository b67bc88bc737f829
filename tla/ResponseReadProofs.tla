------------------------- MODULE ResponseReadProofs -------------------------
(***************************************************************************)
(* What the readers of ResponseRead make of a stream, for every stream,    *)
(* every way its octets are cut and every limit.                           *)
(***************************************************************************)
EXTENDS ResponseRead, LexerProofs

-----------------------------------------------------------------------------
(* The parser.                                                             *)

ParseErrors == LexErrors \cup {"EmptyLine", "UnexpectedByte", "UnknownStatus",
                               "UnterminatedResponseCode", "EmptyResponseCode"}

\* What ManagesieveLine::parse makes of the tokens of a line, if no error.
Lines == {ParseTokens(tokens) : tokens \in Seq(Token)}
ParsedLines(b) == [is : {"line"}, line : Lines, consumed : 1..Len(b)]

LEMMA ParseTokensKinds ==
  ASSUME NEW tokens
  PROVE  \/ ParseTokens(tokens).is \in {"data", "completion"}
         \/ /\ ParseTokens(tokens).is = "error"
            /\ ParseTokens(tokens) \in {Bad(err) : err \in ParseErrors}
<1>1. \A err \in ParseErrors : Bad(err).is = "error" /\ Bad(err) \in {Bad(e) : e \in ParseErrors}
  BY DEF Bad
<1>2. {"EmptyLine", "UnexpectedByte", "UnknownStatus", "UnterminatedResponseCode",
       "EmptyResponseCode"} \subseteq ParseErrors
  BY DEF ParseErrors
<1>3. \/ ParseData(tokens).is = "data"
      \/ ParseData(tokens) = Bad("UnexpectedByte")
  BY DEF ParseData
<1>4. \/ ParseCompletion(tokens).is = "completion"
      \/ ParseCompletion(tokens) \in {Bad("EmptyLine"), Bad("UnexpectedByte"), Bad("UnknownStatus"),
                                      Bad("UnterminatedResponseCode"), Bad("EmptyResponseCode")}
  BY DEF ParseCompletion
<1>5. QED
  BY <1>1, <1>2, <1>3, <1>4 DEF ParseTokens

LEMMA ParseLineIs ==
  ASSUME NEW b
  PROVE  ParseLine(b) =
           IF ScanLine(b).is # "line" THEN ScanLine(b)
           ELSE IF ParseTokens(ScanLine(b).tokens).is = "error" THEN ParseTokens(ScanLine(b).tokens)
           ELSE [is |-> "line", line |-> ParseTokens(ScanLine(b).tokens),
                 consumed |-> ScanLine(b).consumed]
BY DEF ParseLine

\* A line, an error, or not there yet.
LEMMA ParseLineType ==
  ASSUME NEW b \in Seq(Octet)
  PROVE  \/ ParseLine(b) = Incomplete
         \/ ParseLine(b) \in {Bad(err) : err \in ParseErrors}
         \/ /\ ParseLine(b) \in ParsedLines(b)
            /\ ParseLine(b).line.is \in {"data", "completion"}
<1>1. ScanLine(b) \in ScanResults(b)
  BY ScanLineType
<1>2. CASE ScanLine(b).is = "line"
  <2>1. ScanLine(b) \in ScannedLines(b)
    BY <1>1, <1>2, ScanKinds
  <2>2. ScanLine(b).tokens \in Seq(Token) /\ ScanLine(b).consumed \in 1..Len(b)
    BY <2>1 DEF ScannedLines
  <2>3. CASE ParseTokens(ScanLine(b).tokens).is = "error"
    BY <1>2, <2>3, ParseLineIs, ParseTokensKinds
  <2>4. CASE ParseTokens(ScanLine(b).tokens).is # "error"
    <3>1. ParseTokens(ScanLine(b).tokens) \in Lines
      BY <2>2 DEF Lines
    <3>2. ParseTokens(ScanLine(b).tokens).is \in {"data", "completion"}
      BY <2>4, ParseTokensKinds
    <3>3. ParseLine(b) = [is |-> "line", line |-> ParseTokens(ScanLine(b).tokens),
                            consumed |-> ScanLine(b).consumed]
      BY <1>2, <2>4, ParseLineIs
    <3>4. QED
      BY <2>2, <3>1, <3>2, <3>3 DEF ParsedLines
  <2>5. QED
    BY <2>3, <2>4
<1>3. CASE ScanLine(b).is # "line"
  <2>1. ScanLine(b) = Incomplete \/ ScanLine(b) \in {Bad(err) : err \in LexErrors}
    BY <1>1, <1>3, ScanKinds
  <2>2. {Bad(err) : err \in LexErrors} \subseteq {Bad(err) : err \in ParseErrors}
    BY DEF ParseErrors
  <2>3. QED
    BY <1>3, <2>1, <2>2, ParseLineIs
<1>4. QED
  BY <1>2, <1>3

LEMMA ParseLineStable ==
  ASSUME NEW b \in Seq(Octet), NEW w \in Seq(Octet), Begins(b, w),
         ParseLine(b) # Incomplete
  PROVE  ParseLine(w) = ParseLine(b)
<1>1. ScanLine(b) # Incomplete
  <2>1. ASSUME ScanLine(b) = Incomplete PROVE FALSE
    <3>1. ScanLine(b).is # "line"
      BY <2>1 DEF Incomplete
    <3>2. QED
      BY <2>1, <3>1, ParseLineIs
  <2>2. QED
    BY <2>1
<1>2. ScanLine(w) = ScanLine(b)
  BY <1>1, ScanStable
<1>3. QED
  BY <1>2, ParseLineIs

-----------------------------------------------------------------------------
(* A response.                                                             *)

ResponseIndices(b) == 0..Len(b)
WholeResponses(b) ==
  [is : {"response"}, data : Seq(Lines), completion : Lines, consumed : 1..Len(b)]
ResponseResults(b) ==
  {Incomplete} \cup {Bad(err) : err \in ParseErrors} \cup WholeResponses(b)
ResponseAt(b, start, f) == LinesAt(start, ParseLine(Rest(b, start)), f)

LEMMA ResponseKinds ==
  ASSUME NEW b, NEW r \in ResponseResults(b)
  PROVE  /\ r.is = "response" <=> r \in WholeResponses(b)
         /\ r.is = "incomplete" <=> r = Incomplete
         /\ r.is = "error" <=> r \in {Bad(err) : err \in ParseErrors}
         /\ r.is \in {"response", "incomplete", "error"}
<1>1. CASE r = Incomplete
  BY <1>1 DEF Incomplete, Bad, WholeResponses
<1>2. CASE r \in {Bad(err) : err \in ParseErrors}
  <2>1. PICK err \in ParseErrors : r = Bad(err)
    BY <1>2
  <2>2. r.is = "error"
    BY <2>1 DEF Bad
  <2>3. QED
    BY <1>2, <2>2 DEF Incomplete, WholeResponses
<1>3. CASE r \in WholeResponses(b)
  <2>1. r.is = "response"
    BY <1>3 DEF WholeResponses
  <2>2. \A err \in ParseErrors : Bad(err).is = "error"
    BY DEF Bad
  <2>3. QED
    BY <1>3, <2>1, <2>2 DEF Incomplete
<1>4. QED
  BY <1>1, <1>2, <1>3 DEF ResponseResults

\* The line at an index: none, an error, or one that ends at a later index.
LEMMA LineAtIndex ==
  ASSUME NEW b \in Seq(Octet), NEW i \in ResponseIndices(b)
  PROVE  LET parsed == ParseLine(Rest(b, i))
         IN \/ parsed = Incomplete /\ parsed.is # "line"
            \/ parsed \in {Bad(err) : err \in ParseErrors} /\ parsed.is # "line"
            \/ /\ parsed.is = "line" /\ parsed.line \in Lines
               /\ parsed.line.is \in {"data", "completion"}
               /\ parsed.consumed \in 1..Len(b) /\ i + parsed.consumed \in (i + 1)..Len(b)
<1>1. Len(b) \in Nat /\ i \in 0..Len(b)
  BY DEF ResponseIndices
<1>2. Rest(b, i) \in Seq(Octet) /\ Len(Rest(b, i)) = Len(b) - i
  BY <1>1, RestElements
<1>3. CASE ParseLine(Rest(b, i)) = Incomplete
  BY <1>3 DEF Incomplete
<1>4. CASE ParseLine(Rest(b, i)) \in {Bad(err) : err \in ParseErrors}
  <2>1. PICK err \in ParseErrors : ParseLine(Rest(b, i)) = Bad(err)
    BY <1>4
  <2>2. ParseLine(Rest(b, i)).is # "line"
    BY <2>1 DEF Bad
  <2>3. QED
    BY <1>4, <2>2
<1>5. CASE /\ ParseLine(Rest(b, i)) \in ParsedLines(Rest(b, i))
           /\ ParseLine(Rest(b, i)).line.is \in {"data", "completion"}
  <2>1. /\ ParseLine(Rest(b, i)).is = "line" /\ ParseLine(Rest(b, i)).line \in Lines
        /\ ParseLine(Rest(b, i)).consumed \in 1..Len(Rest(b, i))
    BY <1>5 DEF ParsedLines
  <2>2. /\ ParseLine(Rest(b, i)).consumed \in 1..Len(b)
        /\ i + ParseLine(Rest(b, i)).consumed \in (i + 1)..Len(b)
    BY <1>1, <1>2, <2>1
  <2>3. QED
    BY <1>5, <2>1, <2>2
<1>6. QED
  BY <1>2, <1>3, <1>4, <1>5, ParseLineType

LEMMA ResponseAtType ==
  ASSUME NEW b \in Seq(Octet), NEW i \in ResponseIndices(b),
         NEW f \in [ResponseIndices(b) -> ResponseResults(b)]
  PROVE  ResponseAt(b, i, f) \in ResponseResults(b)
<1> DEFINE parsed == ParseLine(Rest(b, i))
           next == i + parsed.consumed
<1>1. Len(b) \in Nat /\ i \in 0..Len(b)
  BY DEF ResponseIndices
<1>2. ResponseAt(b, i, f) = LinesAt(i, parsed, f)
  BY DEF ResponseAt
<1>3. \/ parsed = Incomplete /\ parsed.is # "line"
      \/ parsed \in {Bad(err) : err \in ParseErrors} /\ parsed.is # "line"
      \/ /\ parsed.is = "line" /\ parsed.line \in Lines
         /\ parsed.line.is \in {"data", "completion"}
         /\ parsed.consumed \in 1..Len(b) /\ next \in (i + 1)..Len(b)
  BY LineAtIndex
<1> HIDE DEF parsed
<1>4. CASE parsed.is # "line"
  BY <1>2, <1>3, <1>4 DEF LinesAt, ResponseResults
<1>5. CASE parsed.is = "line" /\ parsed.line.is = "completion"
  <2>1. next \in 1..Len(b)
    BY <1>1, <1>3, <1>5
  <2>2. [is |-> "response", data |-> <<>>, completion |-> parsed.line, consumed |-> next]
          \in WholeResponses(b)
    BY <1>3, <1>5, <2>1 DEF WholeResponses
  <2>3. QED
    BY <1>2, <1>5, <2>2 DEF LinesAt, ResponseResults
<1>6. CASE parsed.is = "line" /\ parsed.line.is # "completion"
  <2>1. next \in ResponseIndices(b)
    BY <1>1, <1>3, <1>6 DEF ResponseIndices
  <2>2. f[next] \in ResponseResults(b)
    BY <2>1
  <2>3. CASE f[next].is # "response"
    BY <1>2, <1>6, <2>2, <2>3 DEF LinesAt
  <2>4. CASE f[next].is = "response"
    <3>1. f[next] \in WholeResponses(b)
      BY <2>2, <2>4, ResponseKinds
    <3>2. << parsed.line >> \o f[next].data \in Seq(Lines)
      BY <1>3, <1>6, <3>1 DEF WholeResponses
    <3>3. [f[next] EXCEPT !.data = << parsed.line >> \o @] \in WholeResponses(b)
      BY <3>1, <3>2 DEF WholeResponses
    <3>4. ResponseAt(b, i, f) = [f[next] EXCEPT !.data = << parsed.line >> \o @]
      BY <1>2, <1>6, <2>4 DEF LinesAt
    <3>5. QED
      BY <3>3, <3>4 DEF ResponseResults
  <2>5. QED
    BY <2>3, <2>4
<1>7. QED
  BY <1>4, <1>5, <1>6

LEMMA ResponseAtLocal ==
  ASSUME NEW b \in Seq(Octet), NEW i \in ResponseIndices(b), NEW f, NEW g,
         \A j \in (i + 1)..Len(b) : f[j] = g[j]
  PROVE  ResponseAt(b, i, f) = ResponseAt(b, i, g)
<1> DEFINE parsed == ParseLine(Rest(b, i))
           next == i + parsed.consumed
<1>1. /\ ResponseAt(b, i, f) = LinesAt(i, parsed, f)
      /\ ResponseAt(b, i, g) = LinesAt(i, parsed, g)
  BY DEF ResponseAt
<1>2. parsed.is = "line" => next \in (i + 1)..Len(b)
  <2>1. \A err \in ParseErrors : Bad(err).is # "line"
    BY DEF Bad
  <2>2. QED
    BY <2>1, LineAtIndex DEF Incomplete
<1>3. parsed.is = "line" => f[next] = g[next]
  BY <1>2
<1>4. CASE parsed.is # "line"
  <2> HIDE DEF parsed
  <2>1. QED
    BY <1>1, <1>4 DEF LinesAt
<1>5. CASE parsed.is = "line"
  <2>1. f[next] = g[next]
    BY <1>3, <1>5
  <2> HIDE DEF parsed
  <2>2. QED
    BY <1>1, <1>5, <2>1 DEF LinesAt
<1>6. QED
  BY <1>4, <1>5

\* ManagesieveResponse::parse is its loop from the first line.
LEMMA ResponseLoop ==
  ASSUME NEW b \in Seq(Octet)
  PROVE  \E f \in [ResponseIndices(b) -> ResponseResults(b)] :
            /\ \A i \in ResponseIndices(b) : f[i] = ResponseAt(b, i, f)
            /\ ParseResponse(b) = f[0]
<1> DEFINE D == 0..Len(b)
           V == ResponseResults(b)
           F == [p \in D \X [D -> V] |-> ResponseAt(b, p[1], p[2])]
<1>1. /\ Len(b) \in Nat /\ 0 \in Int /\ Len(b) \in Int
      /\ D = ResponseIndices(b)
  BY DEF ResponseIndices
<1>2. V # {}
  <2>1. Incomplete \in V
    BY DEF ResponseResults
  <2>2. QED
    BY <2>1
<1>3. F \in [D \X [D -> V] -> V]
  BY <1>1, ResponseAtType
<1>4. \A i \in D : \A g, h \in [D -> V] :
        (\A j \in (i + 1)..Len(b) : g[j] = h[j]) => F[<<i, g>>] = F[<<i, h>>]
  <2>1. ASSUME NEW i \in D, NEW g \in [D -> V], NEW h \in [D -> V],
               \A j \in (i + 1)..Len(b) : g[j] = h[j]
        PROVE  ResponseAt(b, i, g) = ResponseAt(b, i, h)
    BY <1>1, <2>1, ResponseAtLocal
  <2>2. QED
    BY <2>1
<1>5. PICK f : IsLoop(f, F, 0, Len(b), V)
  <2> HIDE DEF F, V
  <2>1. IsStep(F, 0, Len(b), V)
    BY <1>2, <1>3, <1>4 DEF IsStep
  <2>2. QED
    BY <1>1, <2>1, BackwardRecursion
<1>6. f \in [D -> V] /\ \A i \in D : f[i] = ResponseAt(b, i, f)
  BY <1>5 DEF IsLoop
<1>7. ASSUME NEW g, g = [i \in D |-> ResponseAt(b, i, g)]
      PROVE  g = f
  <2> DEFINE T == {i \in D : g[i] = f[i]}
  <2>1. ASSUME NEW i \in D, \A j \in (i + 1)..Len(b) : j \in T
        PROVE  i \in T
    <3>1. \A j \in (i + 1)..Len(b) : g[j] = f[j]
      BY <2>1
    <3>2. ResponseAt(b, i, g) = ResponseAt(b, i, f)
      BY <1>1, <3>1, ResponseAtLocal
    <3>3. QED
      BY <1>6, <1>7, <3>2
  <2>2. \A i \in D : i \in T
    <3> HIDE DEF T
    <3>1. QED
      BY <1>1, <2>1, BackwardInduction
  <2>3. g = [i \in D |-> g[i]]
    BY <1>7
  <2>4. f = [i \in D |-> f[i]]
    BY <1>6
  <2>5. \A i \in D : g[i] = f[i]
    BY <2>2
  <2>6. QED
    BY <2>3, <2>4, <2>5
<1>8. f = [i \in D |-> ResponseAt(b, i, f)]
  BY <1>6
<1>9. ParseResponse(b) = f[0]
  <2>1. ParseResponse(b) = (CHOOSE g : g = [i \in D |-> ResponseAt(b, i, g)])[0]
    BY DEF ParseResponse, ResponseAt, Rest
  <2>2. (CHOOSE g : g = [i \in D |-> ResponseAt(b, i, g)]) = f
    BY <1>7, <1>8
  <2>3. QED
    BY <2>1, <2>2
<1>10. QED
  BY <1>1, <1>6, <1>9

LEMMA ParseResponseType ==
  ASSUME NEW b \in Seq(Octet)
  PROVE  ParseResponse(b) \in ResponseResults(b)
<1>1. 0 \in ResponseIndices(b)
  BY DEF ResponseIndices
<1>2. QED
  BY <1>1, ResponseLoop

\* What a response is once a line is put in front of it, k octets before it.
After(line, k, r) ==
  IF r.is # "response" THEN r
  ELSE [is |-> "response", data |-> << line >> \o r.data, completion |-> r.completion,
        consumed |-> k + r.consumed]

\* A result found from index k on, as the whole buffer counts it.
Shifted(k, r) ==
  IF r.is # "response" THEN r
  ELSE [is |-> "response", data |-> r.data, completion |-> r.completion,
        consumed |-> k + r.consumed]

\* The records that a line put in front, or a shift, makes.
LEMMA WholeRecord ==
  ASSUME NEW c, NEW r \in WholeResponses(c)
  PROVE  r = [is |-> "response", data |-> r.data, completion |-> r.completion,
              consumed |-> r.consumed]
BY DEF WholeResponses

LEMMA RecordExcept ==
  ASSUME NEW r, NEW d, NEW e, NEW completion, NEW n,
         r = [is |-> "response", data |-> d, completion |-> completion, consumed |-> n]
  PROVE  [r EXCEPT !.data = e] =
              [is |-> "response", data |-> e, completion |-> completion, consumed |-> n]
OBVIOUS

\* A line put in front of what a later turn finds.
InFront(line, r) == IF r.is # "response" THEN r ELSE [r EXCEPT !.data = << line >> \o r.data]

LEMMA InFrontShifted ==
  ASSUME NEW k \in Nat, NEW c, NEW r \in ResponseResults(c), NEW line
  PROVE  InFront(line, Shifted(k, r)) = Shifted(k, InFront(line, r))
<1> DEFINE s == Shifted(k, r)
           e == << line >> \o r.data
<1>1. CASE r.is # "response"
  BY <1>1 DEF Shifted, InFront
<1>2. CASE r.is = "response"
  <2>1. s = [is |-> "response", data |-> r.data, completion |-> r.completion,
             consumed |-> k + r.consumed]
    BY <1>2 DEF Shifted
  <2>2. s.data = r.data /\ s.is = "response"
    BY <2>1
  <2>3. InFront(line, s) = [s EXCEPT !.data = e] /\ InFront(line, r) = [r EXCEPT !.data = e]
    BY <1>2, <2>2 DEF InFront
  <2>4. r = [is |-> "response", data |-> r.data, completion |-> r.completion,
             consumed |-> r.consumed]
    BY <1>2, ResponseKinds, WholeRecord
  <2> HIDE DEF s, e
  <2>5. [s EXCEPT !.data = e] = [is |-> "response", data |-> e, completion |-> r.completion,
                                 consumed |-> k + r.consumed]
    BY <2>1, RecordExcept
  <2>6. [r EXCEPT !.data = e] = [is |-> "response", data |-> e, completion |-> r.completion,
                                 consumed |-> r.consumed]
    BY <2>4, RecordExcept
  <2>7. Shifted(k, [r EXCEPT !.data = e]) =
          [is |-> "response", data |-> e, completion |-> r.completion, consumed |-> k + r.consumed]
    BY <2>6 DEF Shifted
  <2>8. QED
    BY <2>3, <2>5, <2>7 DEF s
<1>3. QED
  BY <1>1, <1>2

LEMMA LinesAtInFront ==
  ASSUME NEW i, NEW parsed, NEW f, parsed.is = "line", parsed.line.is # "completion"
  PROVE  LinesAt(i, parsed, f) = InFront(parsed.line, f[i + parsed.consumed])
BY DEF LinesAt, InFront

\* The loop from index k on is the loop over what is behind the first k octets.
LEMMA LoopOfRest ==
  ASSUME NEW b \in Seq(Octet), NEW k \in 0..Len(b), NEW f, NEW h,
         h \in [ResponseIndices(Rest(b, k)) -> ResponseResults(Rest(b, k))],
         \A i \in ResponseIndices(b) : f[i] = ResponseAt(b, i, f),
         \A i \in ResponseIndices(Rest(b, k)) : h[i] = ResponseAt(Rest(b, k), i, h)
  PROVE  f[k] = Shifted(k, h[0])
<1> DEFINE c == Rest(b, k)
           m == Len(b) - k
           T == {j \in 0..m : f[k + j] = Shifted(k, h[j])}
<1>1. /\ Len(b) \in Nat /\ k \in Nat /\ m \in Nat /\ c \in Seq(Octet) /\ Len(c) = m
      /\ ResponseIndices(c) = 0..m /\ ResponseIndices(b) = 0..Len(b)
  BY RestElements DEF ResponseIndices
<1>2. ASSUME NEW j \in 0..m, \A l \in (j + 1)..m : l \in T
      PROVE  j \in T
  <2> DEFINE parsed == ParseLine(Rest(b, k + j))
  <2>1. k + j \in 0..Len(b) /\ j \in Nat
    BY <1>1
  <2>2. Rest(c, j) = Rest(b, k + j)
    BY <1>1, RestOfRest
  <2>3. f[k + j] = LinesAt(k + j, parsed, f) /\ h[j] = LinesAt(j, parsed, h)
    BY <1>1, <2>1, <2>2 DEF ResponseAt
  <2>4. parsed.is = "line" => parsed.consumed \in Nat /\ j + parsed.consumed \in (j + 1)..m
    <3>1. \/ parsed.is # "line"
          \/ parsed.consumed \in 1..Len(b) /\ k + j + parsed.consumed \in (k + j + 1)..Len(b)
      BY <1>1, <2>1, LineAtIndex
    <3> HIDE DEF parsed
    <3>2. QED
      BY <1>1, <2>1, <3>1, SMTT(30)
  <2>5. parsed.is # "line" => parsed.is # "response"
    <3>1. \A err \in ParseErrors : Bad(err).is # "response"
      BY DEF Bad
    <3>2. Incomplete.is # "response"
      BY DEF Incomplete
    <3>3. QED
      BY <1>1, <2>1, <3>1, <3>2, LineAtIndex
  <2> HIDE DEF parsed
  <2>6. ASSUME parsed.is = "line"
        PROVE  /\ f[k + j + parsed.consumed] = Shifted(k, h[j + parsed.consumed])
               /\ h[j + parsed.consumed] \in ResponseResults(c)
    <3>1. j + parsed.consumed \in T /\ j + parsed.consumed \in 0..m
      BY <1>1, <1>2, <2>4, <2>6
    <3>2. k + (j + parsed.consumed) = k + j + parsed.consumed
      BY <1>1, <2>4, <2>6
    <3>3. h[j + parsed.consumed] \in ResponseResults(c)
      BY <1>1, <3>1
    <3>4. QED
      BY <3>1, <3>2, <3>3
  <2>7. f[k + j] = Shifted(k, h[j])
    <3> HIDE DEF c, m, T
    <3>1. CASE parsed.is # "line"
      BY <2>3, <2>5, <3>1 DEF LinesAt, Shifted
    <3>2. CASE parsed.is = "line"
      <4>1. k \in Nat /\ j \in Nat /\ parsed.consumed \in Nat
        BY <1>1, <2>1, <2>4, <3>2
      <4>2. CASE parsed.line.is = "completion"
        <5>1. k + (j + parsed.consumed) = k + j + parsed.consumed
          BY <4>1
        <5>2. QED
          BY <2>3, <3>2, <4>2, <5>1 DEF LinesAt, Shifted
      <4>3. CASE parsed.line.is # "completion"
        <5>1. /\ f[k + j] = InFront(parsed.line, f[k + j + parsed.consumed])
              /\ h[j] = InFront(parsed.line, h[j + parsed.consumed])
          BY <2>3, <3>2, <4>3, LinesAtInFront
        <5>2. QED
          BY <2>6, <3>2, <4>1, <5>1, InFrontShifted
      <4>4. QED
        BY <4>2, <4>3
    <3>3. QED
      BY <3>1, <3>2
  <2>8. QED
    BY <2>7
<1>3. \A j \in 0..m : j \in T
  <2> HIDE DEF m, T
  <2>1. 0 \in Int /\ m \in Int
    BY <1>1
  <2>2. QED
    BY <1>2, <2>1, BackwardInduction
<1>4. 0 \in T
  BY <1>1, <1>3
<1>5. QED
  BY <1>1, <1>4

\* ManagesieveResponse::parse, one line at a time: what follows a data line is
\* read as if it were the whole buffer.
LEMMA ResponseUnfold ==
  ASSUME NEW b \in Seq(Octet)
  PROVE  LET parsed == ParseLine(b)
         IN /\ parsed.is # "line" => ParseResponse(b) = parsed
            /\ (parsed.is = "line" /\ parsed.line.is = "completion") =>
                 ParseResponse(b) = [is |-> "response", data |-> <<>>,
                                     completion |-> parsed.line, consumed |-> parsed.consumed]
            /\ (parsed.is = "line" /\ parsed.line.is # "completion") =>
                 ParseResponse(b) =
                   After(parsed.line, parsed.consumed, ParseResponse(Rest(b, parsed.consumed)))
<1> DEFINE parsed == ParseLine(b)
           k == parsed.consumed
           c == Rest(b, k)
<1>1. PICK f \in [ResponseIndices(b) -> ResponseResults(b)] :
        /\ \A i \in ResponseIndices(b) : f[i] = ResponseAt(b, i, f)
        /\ ParseResponse(b) = f[0]
  BY ResponseLoop
<1>2. Len(b) \in Nat /\ 0 \in ResponseIndices(b)
  BY DEF ResponseIndices
<1>3. Rest(b, 0) = b
  BY RestOfAll
<1>4. ParseResponse(b) = LinesAt(0, parsed, f)
  BY <1>1, <1>2, <1>3 DEF ResponseAt
<1>5. parsed.is = "line" => k \in 1..Len(b) /\ 0 + k = k
  <2>1. parsed.is = "line" => k \in 1..Len(b)
    BY <1>2, <1>3, LineAtIndex
  <2> HIDE DEF parsed
  <2>2. QED
    BY <1>2, <2>1
<1>6. ASSUME parsed.is = "line" /\ parsed.line.is # "completion"
      PROVE  ParseResponse(b) = After(parsed.line, k, ParseResponse(c))
  <2>1. k \in 0..Len(b) /\ 0 + k = k /\ c \in Seq(Octet)
    <3>1. k \in 0..Len(b) /\ 0 + k = k
      BY <1>2, <1>5, <1>6
    <3>2. QED
      BY <3>1, RestElements
  <2>2. PICK h \in [ResponseIndices(c) -> ResponseResults(c)] :
          /\ \A i \in ResponseIndices(c) : h[i] = ResponseAt(c, i, h)
          /\ ParseResponse(c) = h[0]
    BY <2>1, ResponseLoop
  <2>3. f[k] = Shifted(k, h[0])
    BY <1>1, <2>1, <2>2, LoopOfRest
  <2>4. h[0] \in ResponseResults(c)
    <3>1. 0 \in ResponseIndices(c)
      BY <2>1 DEF ResponseIndices
    <3>2. QED
      BY <2>2, <3>1
  <2>5. ParseResponse(b) =
          IF f[k].is # "response" THEN f[k]
          ELSE [f[k] EXCEPT !.data = << parsed.line >> \o f[k].data]
    <3> HIDE DEF parsed
    <3>1. QED
      BY <1>4, <1>6, <2>1 DEF LinesAt
  <2> HIDE DEF parsed, k, c
  <2>6. CASE h[0].is # "response"
    BY <2>2, <2>3, <2>5, <2>6 DEF After, Shifted
  <2>7. CASE h[0].is = "response"
    <3>1. f[k] = [is |-> "response", data |-> h[0].data, completion |-> h[0].completion,
                  consumed |-> k + h[0].consumed]
      BY <2>3, <2>7 DEF Shifted
    <3>2. [f[k] EXCEPT !.data = << parsed.line >> \o f[k].data] =
            [is |-> "response", data |-> << parsed.line >> \o h[0].data,
             completion |-> h[0].completion, consumed |-> k + h[0].consumed]
      <4> DEFINE e == << parsed.line >> \o h[0].data
      <4>1. f[k].data = h[0].data
        BY <3>1
      <4> HIDE DEF e
      <4>2. [f[k] EXCEPT !.data = e] =
              [is |-> "response", data |-> e, completion |-> h[0].completion,
               consumed |-> k + h[0].consumed]
        BY <3>1, RecordExcept
      <4>3. QED
        BY <4>1, <4>2 DEF e
    <3>3. QED
      BY <2>2, <2>5, <2>7, <3>1, <3>2 DEF After
  <2>8. QED
    BY <2>6, <2>7
<1>7. ASSUME parsed.is = "line" /\ parsed.line.is = "completion"
      PROVE  ParseResponse(b) = [is |-> "response", data |-> <<>>,
                                 completion |-> parsed.line, consumed |-> k]
  <2>1. 0 + k = k
    BY <1>5, <1>7
  <2> HIDE DEF parsed
  <2>2. QED
    BY <1>4, <1>7, <2>1 DEF LinesAt
<1>8. parsed.is # "line" => ParseResponse(b) = parsed
  <2> HIDE DEF parsed
  <2>1. QED
    BY <1>4 DEF LinesAt
<1>9. QED
  BY <1>6, <1>7, <1>8

\* More octets behind them never change what is already decided.
LEMMA ResponseStable ==
  ASSUME NEW b \in Seq(Octet), NEW w \in Seq(Octet), Begins(b, w),
         ParseResponse(b) # Incomplete
  PROVE  ParseResponse(w) = ParseResponse(b)
<1> DEFINE Same(i) == \/ ParseResponse(Rest(b, i)) = Incomplete
                      \/ ParseResponse(Rest(w, i)) = ParseResponse(Rest(b, i))
           T == {i \in 0..Len(b) : Same(i)}
<1>1. Len(b) \in Nat /\ Len(w) \in Nat /\ Len(b) <= Len(w)
  BY DEF Begins
<1>2. ASSUME NEW i \in 0..Len(b), \A j \in (i + 1)..Len(b) : j \in T
      PROVE  i \in T
  <2> DEFINE bi == Rest(b, i)
             wi == Rest(w, i)
             parsed == ParseLine(bi)
             k == parsed.consumed
  <2>1. /\ bi \in Seq(Octet) /\ wi \in Seq(Octet) /\ Begins(bi, wi)
        /\ Len(bi) = Len(b) - i /\ Len(wi) = Len(w) - i
    <3>1. i \in 0..Len(w)
      BY <1>1
    <3>2. bi \in Seq(Octet) /\ Len(bi) = Len(b) - i
      BY RestElements
    <3>3. wi \in Seq(Octet) /\ Len(wi) = Len(w) - i
      BY <3>1, RestElements
    <3>4. Begins(bi, wi)
      BY RestBegins
    <3>5. QED
      BY <3>2, <3>3, <3>4
  <2>2. ASSUME ParseResponse(bi) # Incomplete
        PROVE  ParseResponse(wi) = ParseResponse(bi)
    <3>1. parsed # Incomplete
      <4>1. ASSUME parsed = Incomplete PROVE FALSE
        <5>1. parsed.is # "line"
          BY <4>1 DEF Incomplete
        <5>2. ParseResponse(bi) = parsed
          BY <2>1, <5>1, ResponseUnfold
        <5>3. QED
          BY <2>2, <4>1, <5>2
      <4>2. QED
        BY <4>1
    <3>2. ParseLine(wi) = parsed
      BY <2>1, <3>1, ParseLineStable
    <3>3. CASE parsed.is # "line"
      <4>1. ParseResponse(bi) = parsed
        BY <2>1, <3>3, ResponseUnfold
      <4>2. ParseResponse(wi) = parsed
        BY <2>1, <3>2, <3>3, ResponseUnfold
      <4>3. QED
        BY <4>1, <4>2
    <3>4. CASE parsed.is = "line" /\ parsed.line.is = "completion"
      <4> DEFINE r == [is |-> "response", data |-> <<>>,
                       completion |-> parsed.line, consumed |-> k]
      <4>1. ParseResponse(bi) = r
        BY <2>1, <3>4, ResponseUnfold
      <4>2. ParseResponse(wi) = r
        BY <2>1, <3>2, <3>4, ResponseUnfold
      <4>3. QED
        BY <4>1, <4>2
    <3>5. CASE parsed.is = "line" /\ parsed.line.is # "completion"
      <4>1. k \in 1..Len(b) /\ i + k \in (i + 1)..Len(b)
        BY <1>1, <3>5, LineAtIndex DEF ResponseIndices
      <4>2. k \in 0..(Len(b) - i) /\ k \in 0..(Len(w) - i) /\ i \in 0..Len(w)
        <5> HIDE DEF k
        <5>1. QED
          BY <1>1, <4>1
      <4>3. Rest(bi, k) = Rest(b, i + k) /\ Rest(wi, k) = Rest(w, i + k)
        BY <4>2, RestOfRest
      <4>4. ParseResponse(bi) = After(parsed.line, k, ParseResponse(Rest(b, i + k)))
        BY <2>1, <3>5, <4>3, ResponseUnfold
      <4>5. ParseResponse(wi) = After(parsed.line, k, ParseResponse(Rest(w, i + k)))
        BY <2>1, <3>2, <3>5, <4>3, ResponseUnfold
      <4>6. ParseResponse(Rest(b, i + k)) # Incomplete
        <5>1. ASSUME ParseResponse(Rest(b, i + k)) = Incomplete PROVE FALSE
          <6>1. After(parsed.line, k, Incomplete) = Incomplete
            BY DEF After, Incomplete
          <6>2. QED
            BY <2>2, <4>4, <5>1, <6>1
        <5>2. QED
          BY <5>1
      <4>7. i + k \in T
        BY <1>2, <4>1
      <4>8. ParseResponse(Rest(w, i + k)) = ParseResponse(Rest(b, i + k))
        BY <4>6, <4>7
      <4>9. QED
        BY <4>4, <4>5, <4>8
    <3>6. QED
      BY <3>3, <3>4, <3>5
  <2>3. QED
    BY <2>2
<1>3. \A i \in 0..Len(b) : i \in T
  <2> HIDE DEF T
  <2>1. 0 \in Int /\ Len(b) \in Int
    BY <1>1
  <2>2. QED
    BY ONLY <1>2, <2>1, BackwardInduction
<1>4. Same(0)
  BY <1>1, <1>3
<1>5. Rest(b, 0) = b /\ Rest(w, 0) = w
  BY RestOfAll
<1>6. QED
  BY <1>4, <1>5

-----------------------------------------------------------------------------
(* Nothing is not a line yet.                                              *)

LEMMA NothingYet ==
  ParseLine(<<>>) = Incomplete /\ ParseResponse(<<>>) = Incomplete
<1>1. <<>> \in Seq(Octet) /\ Len(<<>>) = 0
  BY EmptySeq
<1>2. ScanLine(<<>>) = Incomplete
  <2>1. PICK f : /\ \A i \in ScanIndices(<<>>) : f[i] = ScanAt(<<>>, i, f)
                 /\ ScanLine(<<>>) = f[1]
    BY <1>1, ScanLoop
  <2>2. 1 \in ScanIndices(<<>>)
    BY <1>1 DEF ScanIndices
  <2>3. Eols(<<>>, 1) = {}
    BY <1>1 DEF Eols
  <2>4. QED
    BY <2>1, <2>2, <2>3 DEF ScanAt
<1>3. Incomplete.is # "line"
  BY DEF Incomplete
<1>4. ParseLine(<<>>) = Incomplete
  BY <1>2, <1>3, ParseLineIs
<1>5. ParseResponse(<<>>) = Incomplete
  BY <1>1, <1>3, <1>4, ResponseUnfold
<1>6. QED
  BY <1>4, <1>5

-----------------------------------------------------------------------------
(* The invariant of the two readers.                                       *)

Outcomes == {"reading", "taking", "response", "toolarge", "eof"} \cup ParseErrors

\* What of the stream is not drained.
Held == buf \o trailing \o net
Drained == Len(stream.octets) - Len(Held)

ReadType ==
  /\ stream \in Streams /\ reader \in {"response", "line"}
  /\ net \in Seq(Octet) /\ buf \in Seq(Octet) /\ trailing \in Seq(Octet)
  /\ taken \in Seq(Lines)
  /\ outcome \in Outcomes

\* Every octet that was not drained is at its place.
AtPlace ==
  /\ Len(Held) <= Len(stream.octets)
  /\ Held = Rest(stream.octets, Drained)

\* A read starts below the limit, and adds MaxRead octets at most.
Bounded ==
  /\ outcome = "reading" => Len(buf) <= MaxResponse
  /\ Len(buf) + Len(trailing) <= MaxResponse + MaxRead

\* The reader of a response: what it parsed last was all of what it holds.
WholeInv ==
  reader = "response" =>
    /\ Drained = 0 /\ taken = <<>>
    /\ outcome # "response" => trailing = <<>> /\ response = Unread
    /\ outcome \in {"reading", "eof", "toolarge"} => ParseResponse(buf) = Incomplete
    /\ outcome = "eof" => net = <<>>
    /\ outcome = "toolarge" => TooLarge
    /\ outcome = "response" =>
         response = ParseResponse(stream.octets) /\ response.is = "response"
    /\ outcome \in ParseErrors => ParseResponse(stream.octets) = Bad(outcome)

\* What a response is, once lines were taken from the front of its octets.
Preceded(before, k, r) ==
  IF r.is # "response" THEN r
  ELSE [is |-> "response", data |-> before \o r.data, completion |-> r.completion,
        consumed |-> k + r.consumed]

\* The reader of lines: the lines it took, in front of what is left, are the
\* stream.
LineInv ==
  reader = "line" =>
    /\ trailing = <<>> /\ response = Unread
    /\ outcome # "response" =>
         ParseResponse(stream.octets) = Preceded(taken, Drained, ParseResponse(Held))
    /\ outcome \in {"reading", "eof"} => ParseLine(buf) = Incomplete
    /\ outcome = "eof" => net = <<>>
    /\ outcome \in ParseErrors => ParseLine(Held) = Bad(outcome)
    /\ outcome = "response" =>
         LET whole == ParseResponse(stream.octets)
         IN /\ whole.is = "response" /\ taken = Append(whole.data, whole.completion)
            /\ Drained = whole.consumed

ReadInv == ReadType /\ AtPlace /\ Bounded /\ WholeInv /\ LineInv

LEMMA ErrorsApart ==
  ParseErrors \cap {"reading", "taking", "response", "toolarge", "eof"} = {}
BY DEF ParseErrors, LexErrors

\* What is held before a response is: what was read, and what was not.
LEMMA HeldParts ==
  ASSUME ReadType, trailing = <<>>
  PROVE  /\ Held = buf \o net /\ Held \in Seq(Octet) /\ Begins(buf, Held)
         /\ Len(Held) = Len(buf) + Len(net)
<1>1. buf \in Seq(Octet) /\ net \in Seq(Octet)
  BY DEF ReadType
<1>2. buf \o trailing = buf
  BY <1>1, ConcatEmptySeq
<1>3. Held = buf \o net
  BY <1>2 DEF Held
<1>4. QED
  BY <1>1, <1>3, ConcatProperties, BeginsLonger

LEMMA StreamOctets ==
  ASSUME ReadType
  PROVE  stream.octets \in Seq(Octet) /\ Len(stream.octets) \in Nat
BY ReadAssumption DEF ReadType

\* Nothing is behind a response that is still to come.
LEMMA NothingTrails ==
  ASSUME ReadType, WholeInv, LineInv, outcome # "response"
  PROVE  trailing = <<>> /\ response = Unread
BY DEF ReadType, WholeInv, LineInv

\* Before it took anything, the reader of lines is at the start of the stream.
LEMMA NothingBefore ==
  ASSUME NEW b \in Seq(Octet)
  PROVE  Preceded(<<>>, 0, ParseResponse(b)) = ParseResponse(b)
<1> DEFINE r == ParseResponse(b)
<1>1. r \in ResponseResults(b)
  BY ParseResponseType
<1> HIDE DEF r
<1>2. CASE r.is # "response"
  BY <1>2 DEF Preceded, r
<1>3. CASE r.is = "response"
  <2>1. r \in WholeResponses(b)
    BY <1>1, <1>3, ResponseKinds
  <2>2. r = [is |-> "response", data |-> r.data, completion |-> r.completion,
             consumed |-> r.consumed]
    BY <2>1, WholeRecord
  <2>3. r.data \in Seq(Lines) /\ r.consumed \in 1..Len(b) /\ Len(b) \in Nat
    BY <2>1 DEF WholeResponses
  <2>4. <<>> \o r.data = r.data /\ 0 + r.consumed = r.consumed
    BY <2>3, ConcatEmptySeq
  <2>5. Preceded(<<>>, 0, r) = [is |-> "response", data |-> <<>> \o r.data,
                              completion |-> r.completion, consumed |-> 0 + r.consumed]
    BY <1>3 DEF Preceded
  <2>6. QED
    BY <2>2, <2>4, <2>5 DEF r
<1>4. QED
  BY <1>2, <1>3

\* A line more in front.
LEMMA OneMoreBefore ==
  ASSUME NEW b \in Seq(Octet), NEW before \in Seq(Lines), NEW line \in Lines,
         NEW d \in Nat, NEW k \in Nat
  PROVE  Preceded(before, d, After(line, k, ParseResponse(b))) =
           Preceded(Append(before, line), d + k, ParseResponse(b))
<1> DEFINE r == ParseResponse(b)
           a == After(line, k, r)
<1>1. r \in ResponseResults(b)
  BY ParseResponseType
<1> HIDE DEF r
<1>2. CASE r.is # "response"
  BY <1>2 DEF After, Preceded, r
<1>3. CASE r.is = "response"
  <2>1. r.data \in Seq(Lines) /\ r.consumed \in Nat
    <3>1. r \in WholeResponses(b) /\ Len(b) \in Nat
      BY <1>1, <1>3, ResponseKinds
    <3>2. QED
      BY <3>1 DEF WholeResponses
  <2>2. a = [is |-> "response", data |-> << line >> \o r.data, completion |-> r.completion,
             consumed |-> k + r.consumed]
    BY <1>3 DEF After
  <2>3. Preceded(before, d, a) =
          [is |-> "response", data |-> before \o (<< line >> \o r.data),
           completion |-> r.completion, consumed |-> d + (k + r.consumed)]
    <3> HIDE DEF a
    <3>1. QED
      BY <2>2 DEF Preceded
  <2>4. Preceded(Append(before, line), d + k, r) =
          [is |-> "response", data |-> Append(before, line) \o r.data,
           completion |-> r.completion, consumed |-> (d + k) + r.consumed]
    BY <1>3 DEF Preceded
  <2>5. d + (k + r.consumed) = (d + k) + r.consumed
    BY <2>1
  <2>6. before \o (<< line >> \o r.data) = Append(before, line) \o r.data
    <3> DEFINE one == << line >>
               data == r.data
    <3>1. one \in Seq(Lines) /\ data \in Seq(Lines)
      BY <2>1
    <3>2. (before \o << line >>) \o r.data = before \o (<< line >> \o r.data)
      <4> HIDE DEF one, data
      <4>1. (before \o one) \o data = before \o (one \o data)
        BY <3>1, ConcatAssociative
      <4>2. QED
        BY <4>1 DEF one, data
    <3>3. Append(before, line) = before \o << line >>
      BY AppendIsConcat
    <3>4. QED
      BY <3>2, <3>3
  <2>7. QED
    BY <2>3, <2>4, <2>5, <2>6 DEF r
<1>4. QED
  BY <1>2, <1>3

LEMMA ReadStarts ==
  ASSUME Init
  PROVE  ReadInv
<1>1. /\ stream \in Streams /\ reader \in stream.readers /\ net = stream.octets
      /\ buf = <<>> /\ outcome = "reading" /\ response = Unread
      /\ trailing = <<>> /\ taken = <<>>
  BY DEF Init
<1>2. ReadType
  <2>1. stream.octets \in Seq(Octet) /\ stream.readers \subseteq {"response", "line"}
    BY <1>1, ReadAssumption
  <2>2. <<>> \in Seq(Octet) /\ <<>> \in Seq(Lines)
    BY EmptySeq
  <2>3. QED
    BY <1>1, <2>1, <2>2 DEF ReadType, Outcomes
<1>3. Held = stream.octets /\ Drained = 0
  <2>1. Held = buf \o net
    BY <1>1, <1>2, HeldParts
  <2>2. Held = stream.octets
    BY <1>1, <1>2, <2>1, StreamOctets, ConcatEmptySeq
  <2>3. QED
    BY <1>2, <2>2, StreamOctets DEF Drained
<1>4. AtPlace
  <2>1. Rest(stream.octets, 0) = stream.octets
    BY <1>2, StreamOctets, RestOfAll
  <2>2. Len(Held) <= Len(stream.octets)
    BY <1>2, <1>3, StreamOctets
  <2>3. QED
    BY <1>3, <2>1, <2>2 DEF AtPlace
<1>5. Bounded
  <2>1. Len(buf) = 0 /\ Len(trailing) = 0
    BY <1>1, EmptySeq
  <2>2. QED
    BY <2>1, ReadAssumption DEF Bounded
<1>6. "reading" \notin ParseErrors
  BY ErrorsApart
<1>7. WholeInv
  BY <1>1, <1>3, <1>6, NothingYet DEF WholeInv
<1>8. LineInv
  <2>1. Preceded(<<>>, 0, ParseResponse(stream.octets)) = ParseResponse(stream.octets)
    BY <1>2, StreamOctets, NothingBefore
  <2>2. QED
    BY <1>1, <1>3, <1>6, <2>1, NothingYet DEF LineInv
<1>9. QED
  BY <1>2, <1>4, <1>5, <1>7, <1>8 DEF ReadInv

LEMMA ReadKeeps ==
  ASSUME ReadInv, Read
  PROVE  ReadInv'
<1>1. ReadType /\ AtPlace /\ Bounded /\ WholeInv /\ LineInv
  BY DEF ReadInv
<1>2. PICK n \in 1..Min({Len(net), MaxRead}) :
        buf' = buf \o SubSeq(net, 1, n) /\ net' = Rest(net, n)
  BY DEF Read, Extend, Rest
<1>3. /\ outcome = "reading" /\ outcome' = "taking"
      /\ stream' = stream /\ reader' = reader /\ response' = response
      /\ trailing' = trailing /\ taken' = taken
  BY DEF Read
<1>4. buf \in Seq(Octet) /\ net \in Seq(Octet) /\ Len(net) \in Nat /\ Len(buf) \in Nat
  BY <1>1 DEF ReadType
<1>5. n \in Nat /\ n <= MaxRead /\ n \in 0..Len(net)
  <2> DEFINE limits == {Len(net), MaxRead}
  <2>1. 0 \in Int /\ limits \in SUBSET Int /\ limits # {} /\ \A x \in limits : 0 <= x
    BY <1>4, ReadAssumption
  <2>2. Min(limits) \in limits /\ \A x \in limits : Min(limits) <= x
    <3> HIDE DEF limits
    <3>1. QED
      BY <2>1, MinIsLeast
  <2>3. /\ Min(limits) \in Int /\ Min(limits) <= Len(net) /\ Min(limits) <= MaxRead
    BY <2>1, <2>2
  <2> HIDE DEF limits
  <2>4. n \in 1..Min(limits)
    BY DEF limits
  <2>5. QED
    BY <1>4, <2>3, <2>4, ReadAssumption
<1>6. /\ SubSeq(net, 1, n) \in Seq(Octet) /\ Len(SubSeq(net, 1, n)) = n
      /\ SubSeq(net, 1, n) \o Rest(net, n) = net
  BY <1>4, <1>5, CutInTwo
<1>7. Rest(net, n) \in Seq(Octet)
  BY <1>4, <1>5, RestElements
<1>8. buf' \in Seq(Octet) /\ Len(buf') = Len(buf) + n
  BY <1>2, <1>4, <1>6, ConcatProperties
<1>9. ReadType'
  BY <1>1, <1>2, <1>3, <1>7, <1>8 DEF ReadType, Outcomes
<1>10. trailing = <<>> /\ response = Unread
  BY <1>1, <1>3, NothingTrails
<1>11. Held' = Held
  <2>1. Held = buf \o net
    BY <1>1, <1>10, HeldParts
  <2>2. buf' \o trailing' = buf'
    BY <1>3, <1>8, <1>10, ConcatEmptySeq
  <2>3. Held' = buf' \o net'
    BY <2>2 DEF Held
  <2>4. (buf \o SubSeq(net, 1, n)) \o Rest(net, n) = buf \o (SubSeq(net, 1, n) \o Rest(net, n))
    BY <1>4, <1>6, <1>7, ConcatAssociative
  <2>5. QED
    BY <1>2, <1>6, <2>1, <2>3, <2>4
<1>12. Drained' = Drained
  BY <1>3, <1>11 DEF Drained
<1>13. AtPlace'
  BY <1>1, <1>3, <1>11, <1>12 DEF AtPlace
<1>14. Bounded'
  <2>1. Len(trailing') = 0
    BY <1>3, <1>10, EmptySeq
  <2>2. Len(buf) <= MaxResponse
    BY <1>1, <1>3 DEF Bounded
  <2>3. Len(buf') + Len(trailing') <= MaxResponse + MaxRead
    BY <1>4, <1>5, <1>8, <2>1, <2>2, ReadAssumption
  <2>4. QED
    BY <1>3, <2>3 DEF Bounded
<1>15. "taking" \notin ParseErrors
  BY ErrorsApart
<1>16. WholeInv'
  BY <1>1, <1>3, <1>10, <1>12, <1>15 DEF WholeInv
<1>17. LineInv'
  BY <1>1, <1>3, <1>10, <1>11, <1>12, <1>15 DEF LineInv
<1>18. QED
  BY <1>9, <1>13, <1>14, <1>16, <1>17 DEF ReadInv

LEMMA ReadEofKeeps ==
  ASSUME ReadInv, ReadEof
  PROVE  ReadInv'
<1>1. ReadType /\ AtPlace /\ Bounded /\ WholeInv /\ LineInv
  BY DEF ReadInv
<1>2. /\ outcome = "reading" /\ net = <<>> /\ outcome' = "eof"
      /\ stream' = stream /\ reader' = reader /\ response' = response /\ net' = net
      /\ buf' = buf /\ trailing' = trailing /\ taken' = taken
  BY DEF ReadEof
<1>3. Held' = Held /\ Drained' = Drained
  BY <1>2 DEF Held, Drained
<1>4. ReadType'
  BY <1>1, <1>2 DEF ReadType, Outcomes
<1>5. AtPlace'
  BY <1>1, <1>2, <1>3 DEF AtPlace
<1>6. Bounded'
  BY <1>1, <1>2 DEF Bounded
<1>7. "eof" \notin ParseErrors
  BY ErrorsApart
<1>8. WholeInv'
  BY <1>1, <1>2, <1>3, <1>7 DEF WholeInv
<1>9. LineInv'
  BY <1>1, <1>2, <1>3, <1>7 DEF LineInv
<1>10. QED
  BY <1>4, <1>5, <1>6, <1>8, <1>9 DEF ReadInv

LEMMA TakeResponseKeeps ==
  ASSUME ReadInv, TakeResponse
  PROVE  ReadInv'
<1> DEFINE parsed == ParseResponse(buf)
<1>1. ReadType /\ AtPlace /\ Bounded /\ WholeInv /\ LineInv
  BY DEF ReadInv
<1>2. /\ outcome = "taking" /\ reader = "response" /\ Responded(parsed)
      /\ stream' = stream /\ reader' = reader /\ net' = net /\ taken' = taken
  BY DEF TakeResponse
<1>3. /\ buf \in Seq(Octet) /\ net \in Seq(Octet) /\ Len(buf) \in Nat
  BY <1>1 DEF ReadType
<1>4. trailing = <<>> /\ response = Unread /\ Len(trailing) = 0
  BY <1>1, <1>2, NothingTrails, EmptySeq
<1>5. Held = stream.octets
  <2>1. Drained = 0
    BY <1>1, <1>2 DEF WholeInv
  <2>2. QED
    BY <1>1, <2>1, StreamOctets, RestOfAll DEF AtPlace
<1>6. parsed # Incomplete => ParseResponse(stream.octets) = parsed
  BY <1>1, <1>3, <1>4, <1>5, HeldParts, ResponseStable
<1>7. parsed \in ResponseResults(buf)
  BY <1>3, ParseResponseType
<1> HIDE DEF parsed
<1>8. CASE /\ parsed.is = "response"
           /\ outcome' = "response" /\ response' = parsed
           /\ buf' = SubSeq(buf, 1, parsed.consumed)
           /\ trailing' = Rest(buf, parsed.consumed)
  <2>1. parsed \in WholeResponses(buf) /\ parsed # Incomplete
    BY <1>7, <1>8, ResponseKinds DEF Incomplete
  <2>2. parsed.consumed \in 0..Len(buf)
    BY <1>3, <2>1 DEF WholeResponses
  <2>3. /\ buf' \in Seq(Octet) /\ Len(buf') = parsed.consumed
        /\ buf' \o trailing' = buf
    BY <1>3, <1>8, <2>2, CutInTwo
  <2>4. trailing' \in Seq(Octet) /\ Len(trailing') = Len(buf) - parsed.consumed
    BY <1>3, <1>8, <2>2, RestElements
  <2>5. ReadType'
    BY <1>1, <1>2, <1>8, <2>3, <2>4 DEF ReadType, Outcomes
  <2>6. Held' = Held /\ Drained' = Drained
    <3>1. buf \o trailing = buf
      BY <1>3, <1>4, ConcatEmptySeq
    <3>2. QED
      BY <1>2, <2>3, <3>1 DEF Held, Drained
  <2>7. AtPlace'
    BY <1>1, <1>2, <2>6 DEF AtPlace
  <2>8. Bounded'
    <3>1. Len(buf') + Len(trailing') = Len(buf) + Len(trailing)
      BY <1>3, <1>4, <2>2, <2>3, <2>4
    <3>2. QED
      BY <1>1, <1>8, <3>1 DEF Bounded
  <2>9. "response" \notin ParseErrors
    BY ErrorsApart
  <2>10. WholeInv'
    BY <1>1, <1>2, <1>6, <1>8, <2>1, <2>6, <2>9 DEF WholeInv
  <2>11. LineInv'
    BY <1>2 DEF LineInv
  <2>12. QED
    BY <2>5, <2>7, <2>8, <2>10, <2>11 DEF ReadInv
<1>9. CASE /\ parsed.is = "error" /\ outcome' = parsed.err
           /\ buf' = buf /\ response' = response /\ trailing' = trailing
  <2>1. PICK err \in ParseErrors : parsed = Bad(err)
    BY <1>7, <1>9, ResponseKinds
  <2>2. outcome' = err /\ parsed # Incomplete
    BY <1>9, <2>1 DEF Bad, Incomplete
  <2>3. ReadType'
    BY <1>1, <1>2, <1>9, <2>2 DEF ReadType, Outcomes
  <2>4. Held' = Held /\ Drained' = Drained
    BY <1>2, <1>9 DEF Held, Drained
  <2>5. AtPlace'
    BY <1>1, <1>2, <2>4 DEF AtPlace
  <2>6. err \notin {"reading", "taking", "response", "toolarge", "eof"}
    BY ErrorsApart
  <2>7. Bounded'
    BY <1>1, <1>9, <2>2, <2>6 DEF Bounded
  <2>8. WholeInv'
    BY <1>1, <1>2, <1>4, <1>6, <1>9, <2>1, <2>2, <2>4, <2>6 DEF WholeInv
  <2>9. LineInv'
    BY <1>2 DEF LineInv
  <2>10. QED
    BY <2>3, <2>5, <2>7, <2>8, <2>9 DEF ReadInv
<1>10. CASE /\ parsed.is = "incomplete" /\ ReadsMore
            /\ buf' = buf /\ response' = response /\ trailing' = trailing
  <2>1. parsed = Incomplete
    BY <1>7, <1>10, ResponseKinds
  <2>2. /\ TooLarge => outcome' = "toolarge"
        /\ ~TooLarge => outcome' = "reading"
    BY <1>10 DEF ReadsMore
  <2>3. ReadType'
    BY <1>1, <1>2, <1>10, <2>2 DEF ReadType, Outcomes
  <2>4. Held' = Held /\ Drained' = Drained /\ (TooLarge' <=> TooLarge)
    BY <1>2, <1>10 DEF Held, Drained, TooLarge
  <2>5. AtPlace'
    BY <1>1, <1>2, <2>4 DEF AtPlace
  <2>6. Bounded'
    BY <1>1, <1>3, <1>10, <2>2, ReadAssumption DEF Bounded, TooLarge
  <2>7. outcome' \notin ParseErrors
    BY <2>2, ErrorsApart
  <2>8. WholeInv'
    BY <1>1, <1>2, <1>4, <1>10, <2>1, <2>2, <2>4, <2>7 DEF WholeInv, parsed
  <2>9. LineInv'
    BY <1>2 DEF LineInv
  <2>10. QED
    BY <2>3, <2>5, <2>6, <2>8, <2>9 DEF ReadInv
<1>11. QED
  BY <1>2, <1>8, <1>9, <1>10 DEF Responded, Rest

\* The line at the front of what is held is the one at the front of the buffer.
LEMMA HeldLine ==
  ASSUME ReadType, trailing = <<>>, ParseLine(buf) # Incomplete
  PROVE  ParseLine(Held) = ParseLine(buf)
<1>1. buf \in Seq(Octet)
  BY DEF ReadType
<1>2. QED
  BY <1>1, HeldParts, ParseLineStable

LEMMA TakeLineKeeps ==
  ASSUME ReadInv, TakeLine
  PROVE  ReadInv'
<1> DEFINE parsed == ParseLine(buf)
           k == parsed.consumed
           whole == ParseResponse(stream.octets)
<1>1. ReadType /\ AtPlace /\ Bounded /\ WholeInv /\ LineInv
  BY DEF ReadInv
<1>2. /\ outcome = "taking" /\ reader = "line" /\ Took(parsed)
      /\ stream' = stream /\ reader' = reader /\ net' = net /\ response' = response
      /\ trailing' = trailing
  BY DEF TakeLine
<1>3. /\ buf \in Seq(Octet) /\ net \in Seq(Octet) /\ Len(buf) \in Nat
      /\ stream.octets \in Seq(Octet) /\ Len(stream.octets) \in Nat
      /\ taken \in Seq(Lines)
  BY <1>1, StreamOctets DEF ReadType
<1>4. trailing = <<>> /\ response = Unread /\ Len(trailing) = 0
  BY <1>1, <1>2, NothingTrails, EmptySeq
<1>5. Held = buf \o net /\ Held \in Seq(Octet) /\ Len(Held) \in Nat /\ Len(buf) <= Len(Held)
  BY <1>1, <1>4, HeldParts DEF Begins
<1>6. whole = Preceded(taken, Drained, ParseResponse(Held))
  BY <1>1, <1>2 DEF LineInv
<1>7. \/ parsed = Incomplete
      \/ parsed \in {Bad(err) : err \in ParseErrors}
      \/ /\ parsed \in ParsedLines(buf)
         /\ parsed.line.is \in {"data", "completion"}
  BY <1>3, ParseLineType
<1>8. parsed # Incomplete => ParseLine(Held) = parsed
  BY <1>1, <1>4, HeldLine
<1>9. Drained \in Nat /\ Drained + Len(Held) = Len(stream.octets)
  BY <1>1, <1>3, <1>5 DEF AtPlace, Drained
<1> HIDE DEF parsed, whole
<1>10. CASE /\ parsed.is = "line" /\ taken' = Append(taken, parsed.line)
            /\ buf' = Rest(buf, k)
            /\ outcome' = IF parsed.line.is = "completion" THEN "response" ELSE "taking"
  <2>1. /\ parsed # Incomplete /\ parsed.line \in Lines
        /\ parsed.line.is \in {"data", "completion"} /\ k \in 1..Len(buf)
    <3>1. \A err \in ParseErrors : Bad(err).is # "line"
      BY DEF Bad
    <3>2. parsed \in ParsedLines(buf) /\ parsed.line.is \in {"data", "completion"}
      BY <1>7, <1>10, <3>1 DEF Incomplete
    <3>3. QED
      BY <1>10, <3>2 DEF ParsedLines, Incomplete
  <2>2. k \in 0..Len(buf) /\ k \in Nat /\ k \in 0..Len(Held)
    BY <1>3, <1>5, <2>1
  <2> HIDE DEF k
  <2>3. buf' \in Seq(Octet) /\ Len(buf') = Len(buf) - k
    BY <1>3, <1>10, <2>2, RestElements
  <2>4. taken' \in Seq(Lines)
    BY <1>3, <1>10, <2>1
  <2>5. ReadType'
    BY <1>1, <1>2, <1>10, <2>3, <2>4 DEF ReadType, Outcomes
  <2>6. Held' = Rest(Held, k) /\ Len(Held') = Len(Held) - k
    <3>1. buf' \o trailing' = buf'
      BY <1>2, <1>4, <2>3, ConcatEmptySeq
    <3>2. Rest(buf \o net, k) = Rest(buf, k) \o net
      BY <1>3, <2>2, RestOfLonger
    <3>3. Held' = Rest(Held, k)
      BY <1>2, <1>5, <1>10, <3>1, <3>2 DEF Held
    <3>4. QED
      BY <1>5, <2>2, <3>3, RestElements
  <2>7. Drained' = Drained + k
    <3>1. Drained' = Len(stream.octets) - Len(Held')
      BY <1>2 DEF Drained
    <3>2. Drained' = Len(stream.octets) - (Len(Held) - k)
      BY <2>6, <3>1
    <3>3. Drained = Len(stream.octets) - Len(Held)
      BY DEF Drained
    <3>4. QED
      BY ONLY <1>3, <1>5, <2>2, <3>2, <3>3
  <2>8. AtPlace'
    <3>1. Drained \in 0..Len(stream.octets) /\ k \in 0..(Len(stream.octets) - Drained)
      BY <1>3, <1>5, <1>9, <2>2
    <3>2. Held = Rest(stream.octets, Drained)
      BY <1>1 DEF AtPlace
    <3>3. Rest(Held, k) = Rest(stream.octets, Drained + k)
      BY <1>3, <3>1, <3>2, RestOfRest
    <3>4. Len(Held') <= Len(stream.octets)
      BY <1>3, <1>5, <1>9, <2>2, <2>6
    <3>5. QED
      BY <1>2, <2>6, <2>7, <3>3, <3>4 DEF AtPlace
  <2>9. Bounded'
    <3>1. Len(buf') + Len(trailing') <= Len(buf) + Len(trailing)
      BY <1>2, <1>3, <1>4, <2>2, <2>3
    <3>2. Len(buf) + Len(trailing) <= MaxResponse + MaxRead
      BY <1>1 DEF Bounded
    <3>3. Len(buf') + Len(trailing') <= MaxResponse + MaxRead
      BY <1>2, <1>3, <1>4, <2>2, <2>3, <3>1, <3>2, ReadAssumption
    <3>4. QED
      BY <1>10, <3>3 DEF Bounded
  <2>10. WholeInv'
    BY <1>2 DEF WholeInv
  <2>11. "response" \notin ParseErrors /\ "taking" \notin ParseErrors
    BY ErrorsApart
  <2>12. CASE parsed.line.is = "completion"
    <3>1. ParseResponse(Held) = [is |-> "response", data |-> <<>>,
                                 completion |-> parsed.line, consumed |-> k]
      BY <1>5, <1>8, <1>10, <2>1, <2>12, ResponseUnfold DEF k
    <3>2. whole = [is |-> "response", data |-> taken \o <<>>,
                   completion |-> parsed.line, consumed |-> Drained + k]
      BY <1>6, <3>1 DEF Preceded
    <3>3. taken \o <<>> = taken
      BY <1>3, ConcatEmptySeq
    <3>4. /\ whole.is = "response" /\ taken' = Append(whole.data, whole.completion)
          /\ Drained' = whole.consumed
      BY <1>10, <2>7, <3>2, <3>3
    <3>5. whole' = whole
      BY <1>2 DEF whole
    <3>6. LineInv'
      BY <1>2, <1>4, <1>10, <2>11, <2>12, <3>4, <3>5 DEF LineInv, whole
    <3>7. QED
      BY <2>5, <2>8, <2>9, <2>10, <3>6 DEF ReadInv
  <2>13. CASE parsed.line.is = "data"
    <3>1. ParseResponse(Held) = After(parsed.line, k, ParseResponse(Held'))
      BY <1>5, <1>8, <1>10, <2>1, <2>6, <2>13, ResponseUnfold DEF k
    <3>2. Held' \in Seq(Octet)
      BY <1>5, <2>2, <2>6, RestElements
    <3>3. whole = Preceded(taken', Drained', ParseResponse(Held'))
      <4>1. Preceded(taken, Drained, After(parsed.line, k, ParseResponse(Held'))) =
              Preceded(Append(taken, parsed.line), Drained + k, ParseResponse(Held'))
        BY <1>3, <1>9, <2>1, <2>2, <3>2, OneMoreBefore
      <4>2. QED
        BY ONLY <1>6, <1>10, <2>7, <3>1, <4>1
    <3>4. whole' = whole
      BY <1>2 DEF whole
    <3>5. outcome' = "taking"
      BY <1>10, <2>13
    <3>6. LineInv'
      BY <1>2, <1>4, <2>11, <3>3, <3>4, <3>5 DEF LineInv, whole
    <3>7. QED
      BY <2>5, <2>8, <2>9, <2>10, <3>6 DEF ReadInv
  <2>14. QED
    BY <2>1, <2>12, <2>13
<1>11. CASE /\ parsed.is = "error" /\ outcome' = parsed.err
            /\ buf' = buf /\ taken' = taken
  <2>1. PICK err \in ParseErrors : parsed = Bad(err)
    BY <1>7, <1>11 DEF Incomplete, ParsedLines
  <2>2. outcome' = err /\ parsed # Incomplete
    BY <1>11, <2>1 DEF Bad, Incomplete
  <2>3. ReadType'
    BY <1>1, <1>2, <1>11, <2>2 DEF ReadType, Outcomes
  <2>4. Held' = Held /\ Drained' = Drained
    BY <1>2, <1>11 DEF Held, Drained
  <2>5. AtPlace'
    BY <1>1, <1>2, <2>4 DEF AtPlace
  <2>6. err \notin {"reading", "taking", "response", "toolarge", "eof"}
    BY ErrorsApart
  <2>7. Bounded'
    BY <1>1, <1>2, <1>11, <2>2, <2>6 DEF Bounded
  <2>8. WholeInv'
    BY <1>2 DEF WholeInv
  <2>9. ParseLine(Held) = Bad(err)
    BY <1>8, <2>1, <2>2
  <2>10. LineInv'
    BY <1>1, <1>2, <1>4, <1>11, <2>2, <2>4, <2>6, <2>9 DEF LineInv
  <2>11. QED
    BY <2>3, <2>5, <2>7, <2>8, <2>10 DEF ReadInv
<1>12. CASE /\ parsed.is = "incomplete" /\ ReadsMore
            /\ buf' = buf /\ taken' = taken
  <2>1. parsed = Incomplete
    <3>1. \A err \in ParseErrors : Bad(err).is # "incomplete"
      BY DEF Bad
    <3>2. QED
      BY <1>7, <1>12, <3>1 DEF ParsedLines
  <2>2. /\ TooLarge => outcome' = "toolarge"
        /\ ~TooLarge => outcome' = "reading"
    BY <1>12 DEF ReadsMore
  <2>3. ReadType'
    BY <1>1, <1>2, <1>12, <2>2 DEF ReadType, Outcomes
  <2>4. Held' = Held /\ Drained' = Drained
    BY <1>2, <1>12 DEF Held, Drained
  <2>5. AtPlace'
    BY <1>1, <1>2, <2>4 DEF AtPlace
  <2>6. Bounded'
    BY <1>1, <1>2, <1>3, <1>12, <2>2, ReadAssumption DEF Bounded, TooLarge
  <2>7. outcome' \notin ParseErrors
    BY <2>2, ErrorsApart
  <2>8. WholeInv'
    BY <1>2 DEF WholeInv
  <2>9. LineInv'
    BY <1>1, <1>2, <1>4, <1>12, <2>1, <2>2, <2>4, <2>7 DEF LineInv, parsed
  <2>10. QED
    BY <2>3, <2>5, <2>6, <2>8, <2>9 DEF ReadInv
<1>13. QED
  BY <1>2, <1>10, <1>11, <1>12 DEF Took, Drain, Rest

LEMMA StutterKeepsRead ==
  ASSUME ReadInv, UNCHANGED vars
  PROVE  ReadInv'
<1>1. /\ stream' = stream /\ reader' = reader /\ net' = net /\ buf' = buf
      /\ outcome' = outcome /\ response' = response /\ trailing' = trailing /\ taken' = taken
  BY DEF vars
<1>2. Held' = Held /\ Drained' = Drained /\ (TooLarge' <=> TooLarge)
  BY <1>1 DEF Held, Drained, TooLarge
<1>3. /\ ReadType' <=> ReadType
      /\ AtPlace' <=> AtPlace
      /\ Bounded' <=> Bounded
  BY <1>1, <1>2 DEF ReadType, AtPlace, Bounded
<1>4. (WholeInv' <=> WholeInv) /\ (LineInv' <=> LineInv)
  BY <1>1, <1>2 DEF WholeInv, LineInv
<1>5. QED
  BY <1>3, <1>4 DEF ReadInv

\* What the readers took, hold and have yet to read is the stream, in order,
\* and an outcome is what the parser makes of it, for every stream.
THEOREM ReadInvariant == Spec => []ReadInv
<1>1. Init => ReadInv
  BY ReadStarts
<1>2. ReadInv /\ [Next]_vars => ReadInv'
  BY ReadKeeps, ReadEofKeeps, TakeResponseKeeps, TakeLineKeeps, StutterKeepsRead
     DEF Next, Finished
<1>3. QED
  BY <1>1, <1>2, PTL DEF Spec

-----------------------------------------------------------------------------
(* What the invariant says to a caller.                                    *)

\* However a server's octets are cut into reads, no octet is lost, doubled or
\* moved, and there is a response exactly when there was one (send.rs, the
\* buffer of authenticate.rs).
THEOREM ReadTypeCorrect == Spec => []TypeOK
<1>1. ASSUME ReadInv PROVE TypeOK
  <2>1. ReadType /\ AtPlace /\ WholeInv /\ LineInv
    BY <1>1 DEF ReadInv
  <2>2. stream.octets \in Seq(Octet) /\ Len(stream.octets) \in Nat
    BY <2>1, StreamOctets
  <2>3. Held \in Seq(Octet) /\ Len(Held) \in Nat
    BY <2>1, ConcatProperties DEF ReadType, Held
  <2>4. Drained \in 0..Len(stream.octets)
    BY <2>1, <2>2, <2>3 DEF AtPlace, Drained
  <2>5. IsSuffix(Held, stream.octets)
    BY <2>1, <2>2, <2>4, RestIsSuffix DEF AtPlace
  <2>6. reader = "response" => Held = stream.octets
    BY <2>1, <2>2, RestOfAll DEF WholeInv, AtPlace
  <2>7. outcome \in Outcomes
    BY <2>1 DEF ReadType
  <2>8. (outcome = "response" /\ reader = "response") = (response # Unread)
    <3>1. CASE outcome # "response"
      BY <2>1, <3>1, NothingTrails
    <3>2. CASE outcome = "response" /\ reader = "response"
      BY <2>1, <3>2 DEF WholeInv, Unread
    <3>3. CASE outcome = "response" /\ reader = "line"
      BY <2>1, <3>3 DEF LineInv
    <3>4. QED
      BY <2>1, <3>1, <3>2, <3>3 DEF ReadType
  <2>9. QED
    BY <2>5, <2>6, <2>7, <2>8 DEF TypeOK, Held, Outcomes, ParseErrors, LexErrors
<1>2. QED
  BY <1>1, ReadInvariant, PTL

\* Whatever a server sends without completing a response or a line, what a
\* coroutine holds of it is bounded by the limit and one read (MAX_RESPONSE).
THEOREM HoldsBounded == Spec => []BufferBounded
<1>1. ASSUME ReadInv PROVE BufferBounded
  <2>1. ReadType /\ Bounded
    BY <1>1 DEF ReadInv
  <2>2. Len(buf \o trailing) = Len(buf) + Len(trailing)
    BY <2>1, ConcatProperties DEF ReadType
  <2>3. QED
    BY <2>1, <2>2 DEF BufferBounded, Bounded
<1>2. QED
  BY <1>1, ReadInvariant, PTL

\* The outcome of the reads is the one of parsing the stream as a whole, for
\* every stream and every way of cutting it (ManagesieveResponseRead::resume).
THEOREM SplitsDoNotMatter == Spec => []SplitInvariance
<1>1. ASSUME ReadInv, reader = "response"
      PROVE  LET whole == ParseResponse(stream.octets)
             IN CASE outcome \in {"reading", "taking"} -> TRUE
                  [] outcome = "response" -> response = whole
                  [] outcome = "eof"      -> whole.is = "incomplete"
                  [] outcome = "toolarge" ->
                       ParseResponse(SubSeq(stream.octets, 1, MaxResponse)).is = "incomplete"
                  [] OTHER                -> whole = Bad(outcome)
  <2>1. ReadType /\ AtPlace /\ WholeInv /\ LineInv
    BY <1>1 DEF ReadInv
  <2>2. stream.octets \in Seq(Octet) /\ Len(stream.octets) \in Nat
    BY <2>1, StreamOctets
  <2>3. Held = stream.octets
    BY <1>1, <2>1, <2>2, RestOfAll DEF WholeInv, AtPlace
  <2>4. Incomplete.is = "incomplete"
    BY DEF Incomplete
  <2>5. CASE outcome = "response"
    BY <1>1, <2>1, <2>5 DEF WholeInv
  <2>6. CASE outcome = "eof"
    <3>1. buf \in Seq(Octet) /\ trailing = <<>> /\ net = <<>>
      BY <1>1, <2>1, <2>6, NothingTrails DEF ReadType, WholeInv
    <3>2. buf = stream.octets
      BY <2>1, <2>3, <3>1, HeldParts, ConcatEmptySeq
    <3>3. ParseResponse(stream.octets) = Incomplete
      BY <1>1, <2>1, <2>6, <3>2 DEF WholeInv
    <3>4. QED
      BY <2>4, <2>6, <3>3
  <2>7. CASE outcome = "toolarge"
    <3> DEFINE first == SubSeq(stream.octets, 1, MaxResponse)
    <3>1. /\ buf \in Seq(Octet) /\ Len(buf) \in Nat /\ Begins(buf, stream.octets)
          /\ MaxResponse < Len(buf)
      BY <1>1, <2>1, <2>3, <2>7, NothingTrails, HeldParts, ReadAssumption
         DEF ReadType, WholeInv, TooLarge
    <3>2. MaxResponse \in Nat /\ MaxResponse \in 0..Len(buf)
      BY <3>1, ReadAssumption
    <3>3. first = SubSeq(buf, 1, MaxResponse)
      <4>1. 1 \in Nat \ {0} /\ MaxResponse \in Int /\ MaxResponse <= Len(buf)
        BY <3>1, <3>2
      <4>2. QED
        BY <2>2, <3>1, <4>1, SubSeqAgrees
    <3>4. first \in Seq(Octet) /\ Begins(first, buf)
      <4>1. /\ SubSeq(buf, 1, MaxResponse) \in Seq(Octet)
            /\ SubSeq(buf, 1, MaxResponse) \o Rest(buf, MaxResponse) = buf
        BY <3>1, <3>2, CutInTwo
      <4>2. Rest(buf, MaxResponse) \in Seq(Octet)
        BY <3>1, <3>2, RestElements
      <4>3. QED
        BY <3>3, <4>1, <4>2, BeginsLonger
    <3>5. ParseResponse(buf) = Incomplete
      BY <1>1, <2>1, <2>7 DEF WholeInv
    <3> HIDE DEF first
    <3>6. ParseResponse(first) = Incomplete
      BY <3>1, <3>4, <3>5, ResponseStable
    <3>7. QED
      BY <2>4, <2>7, <3>6 DEF first
  <2>8. CASE outcome \in ParseErrors
    BY <1>1, <2>1, <2>8, ErrorsApart DEF WholeInv
  <2>9. CASE outcome \in {"reading", "taking"}
    BY <2>9
  <2>10. QED
    BY <2>1, <2>5, <2>6, <2>7, <2>8, <2>9 DEF ReadType, Outcomes
<1>2. ReadInv => SplitInvariance
  BY <1>1 DEF SplitInvariance
<1>3. QED
  BY <1>2, ReadInvariant, PTL

\* The lines an exchange takes one by one, whatever was read ahead of it, are
\* those of the response read as a whole (take_line of authenticate.rs).
THEOREM LinesMakeTheResponse == Spec => []LinesAsWhole
<1> DEFINE whole == ParseResponse(stream.octets)
<1>1. ASSUME ReadInv, reader = "line"
      PROVE  CASE outcome \in {"reading", "taking", "toolarge"} ->
                    whole.is = "response" => IsPrefix(taken, whole.data)
               [] outcome = "response" ->
                    /\ whole.is = "response"
                    /\ taken = Append(whole.data, whole.completion)
                    /\ buf \o net = SubSeq(stream.octets, whole.consumed + 1, Len(stream.octets))
               [] outcome = "eof"      -> whole.is = "incomplete"
               [] OTHER                -> whole = Bad(outcome)
  <2>1. ReadType /\ AtPlace /\ WholeInv /\ LineInv
    BY <1>1 DEF ReadInv
  <2>2. /\ stream.octets \in Seq(Octet) /\ taken \in Seq(Lines)
        /\ buf \in Seq(Octet) /\ trailing = <<>>
    BY <1>1, <2>1, StreamOctets DEF ReadType, LineInv
  <2>3. Held = buf \o net /\ Held \in Seq(Octet)
    BY <2>1, <2>2, HeldParts
  <2> DEFINE left == ParseResponse(Held)
  <2>4. left \in ResponseResults(Held)
    BY <2>3, ParseResponseType
  <2>5. outcome # "response" => whole = Preceded(taken, Drained, left)
    BY <1>1, <2>1 DEF LineInv
  <2>6. left.is # "response" => Preceded(taken, Drained, left) = left
    BY DEF Preceded
  <2>7. ASSUME ParseLine(Held).is # "line"
        PROVE  left = ParseLine(Held)
    BY <2>3, <2>7, ResponseUnfold
  <2>8. CASE outcome \in {"reading", "taking", "toolarge"}
    <3>1. ASSUME whole.is = "response"
          PROVE  IsPrefix(taken, whole.data)
      <4>1. whole = Preceded(taken, Drained, left)
        BY <2>5, <2>8
      <4> HIDE DEF whole, left
      <4>2. left.is = "response"
        BY <2>6, <3>1, <4>1
      <4>3. left.data \in Seq(Lines)
        BY <2>4, <4>2, ResponseKinds DEF WholeResponses
      <4>4. whole.data = taken \o left.data
        BY <4>1, <4>2 DEF Preceded
      <4>5. QED
        BY <2>2, <4>3, <4>4, PrefixLonger
    <3>2. QED
      BY <2>8, <3>1
  <2>9. CASE outcome = "response"
    <3>1. /\ whole.is = "response" /\ taken = Append(whole.data, whole.completion)
          /\ Drained = whole.consumed
      BY <1>1, <2>1, <2>9 DEF LineInv
    <3>2. buf \o net = SubSeq(stream.octets, whole.consumed + 1, Len(stream.octets))
      BY <2>1, <2>3, <3>1 DEF AtPlace, Rest
    <3>3. QED
      BY <2>9, <3>1, <3>2
  <2>10. CASE outcome = "eof"
    <3>1. net = <<>> /\ ParseLine(buf) = Incomplete
      BY <1>1, <2>1, <2>10 DEF LineInv
    <3>2. Held = buf
      BY <2>2, <2>3, <3>1, ConcatEmptySeq
    <3>3. left = Incomplete
      BY <2>7, <3>1, <3>2 DEF Incomplete
    <3>4. whole = Incomplete
      BY <2>5, <2>6, <2>10, <3>3 DEF Incomplete
    <3>5. QED
      BY <2>10, <3>4 DEF Incomplete
  <2>11. CASE outcome \in ParseErrors
    <3>1. ParseLine(Held) = Bad(outcome)
      BY <1>1, <2>1, <2>11 DEF LineInv
    <3>2. left = Bad(outcome)
      BY <2>7, <3>1 DEF Bad
    <3>3. whole = Bad(outcome)
      BY <2>5, <2>6, <2>11, <3>2, ErrorsApart DEF Bad
    <3>4. QED
      BY <2>11, <3>3, ErrorsApart
  <2>12. QED
    BY <2>1, <2>8, <2>9, <2>10, <2>11 DEF ReadType, Outcomes
<1>2. ReadInv => LinesAsWhole
  BY <1>1 DEF LinesAsWhole
<1>3. QED
  BY <1>2, ReadInvariant, PTL
=============================================================================
