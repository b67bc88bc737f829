---------------------------- MODULE LexerProofs ----------------------------
(***************************************************************************)
(* What the lexer returns, for every segment and every buffer; and what it *)
(* makes of the commands of Serialise, for every argument and however the  *)
(* server's reads cut them.                                                *)
(*                                                                         *)
(* Each loop of the lexer is a function of the index it is at, defined by  *)
(* what it finds from later indices.  BackwardRecursion is what makes such *)
(* a definition one: it is stated of a step that is itself a function, so  *)
(* that it can be cited for each loop.                                     *)
(***************************************************************************)
EXTENDS Serialise, SequenceTheorems, FiniteSetTheorems, WellFoundedInduction, TLAPS

-----------------------------------------------------------------------------
(* Indices.                                                                *)

\* What holds at an index when it holds at all later ones holds everywhere.
LEMMA BackwardInduction ==
  ASSUME NEW lo \in Int, NEW hi \in Int, NEW T,
         \A i \in lo..hi : (\A j \in (i + 1)..hi : j \in T) => i \in T
  PROVE  \A i \in lo..hi : i \in T
<1> DEFINE U == {k \in Nat : hi - k \in lo..hi /\ hi - k \notin T}
<1>1. SUFFICES ASSUME U # {} PROVE FALSE
  <2>1. ASSUME NEW i \in lo..hi, i \notin T PROVE hi - i \in U
    <3>1. hi - i \in Nat /\ hi - (hi - i) = i
      OBVIOUS
    <3>2. QED
      BY <2>1, <3>1
  <2>2. QED
    BY <1>1, <2>1
<1>2. PICK k \in U : \A l \in U : ~ (<<l, k>> \in OpToRel(<, Nat))
  BY <1>1, NatLessThanWellFounded, WFMin
<1>3. \A l \in U : ~ (l < k)
  BY <1>2 DEF OpToRel
<1>4. ASSUME NEW j \in (hi - k + 1)..hi PROVE j \in T
  <2>1. hi - j \in Nat /\ hi - j < k /\ hi - (hi - j) = j /\ j \in lo..hi
    OBVIOUS
  <2>2. QED
    BY <1>3, <2>1
<1>5. QED
  BY <1>4

\* The least element of a set of integers that has a lower bound.
LEMMA MinIsLeast ==
  ASSUME NEW lo \in Int, NEW S \in SUBSET Int, S # {}, \A x \in S : lo <= x
  PROVE  Min(S) \in S /\ \A x \in S : Min(S) <= x
<1> DEFINE U == {k \in Nat : lo + k \in S}
<1>1. PICK x0 \in S : TRUE
  OBVIOUS
<1>2. x0 - lo \in U
  <2>1. x0 - lo \in Nat /\ lo + (x0 - lo) = x0
    OBVIOUS
  <2>2. QED
    BY <2>1
<1>3. PICK k \in U : \A l \in U : ~ (<<l, k>> \in OpToRel(<, Nat))
  BY <1>2, NatLessThanWellFounded, WFMin
<1>4. \A l \in U : ~ (l < k)
  BY <1>3 DEF OpToRel
<1>5. ASSUME NEW x \in S PROVE lo + k <= x
  <2>1. x - lo \in Nat /\ lo + (x - lo) = x
    OBVIOUS
  <2>2. x - lo \in U
    BY <2>1
  <2>3. QED
    BY <1>4, <2>1, <2>2
<1>6. lo + k \in S /\ \A x \in S : lo + k <= x
  BY <1>5
<1>7. QED
  BY <1>6 DEF Min

\* A step of a loop: what it makes at an index of what is found from later ones.
IsStep(F, lo, hi, V) ==
  /\ V # {}
  /\ F \in [(lo..hi) \X [lo..hi -> V] -> V]
  /\ \A i \in lo..hi : \A g, h \in [lo..hi -> V] :
       (\A j \in (i + 1)..hi : g[j] = h[j]) => F[<<i, g>>] = F[<<i, h>>]

\* And the loop it makes.
IsLoop(f, F, lo, hi, V) ==
  f \in [lo..hi -> V] /\ \A i \in lo..hi : f[i] = F[<<i, f>>]

\* Every step makes a loop.
LEMMA BackwardRecursion ==
  ASSUME NEW lo \in Int, NEW hi \in Int, NEW V, NEW F, IsStep(F, lo, hi, V)
  PROVE  \E f : IsLoop(f, F, lo, hi, V)
<1> USE DEF IsStep
<1> DEFINE From(i, f) == \A j \in i..hi : f[j] = F[<<j, f>>]
           T == {i \in lo..(hi + 1) : \E f \in [lo..hi -> V] : From(i, f)}
<1>1. ASSUME hi + 1 \in lo..(hi + 1) PROVE hi + 1 \in T
  <2>1. PICK v \in V : TRUE
    OBVIOUS
  <2>2. [j \in lo..hi |-> v] \in [lo..hi -> V]
    OBVIOUS
  <2>3. From(hi + 1, [j \in lo..hi |-> v])
    OBVIOUS
  <2>4. QED
    BY <1>1, <2>2, <2>3
<1>2. ASSUME NEW i \in lo..hi, i + 1 \in T PROVE i \in T
  <2>1. PICK g \in [lo..hi -> V] : From(i + 1, g)
    BY <1>2
  <2>2. F[<<i, g>>] \in V
    OBVIOUS
  <2>3. PICK h \in [lo..hi -> V] : h[i] = F[<<i, g>>] /\ \A j \in (i + 1)..hi : h[j] = g[j]
    <3>1. [g EXCEPT ![i] = F[<<i, g>>]] \in [lo..hi -> V]
      BY <2>2
    <3>2. \A j \in (i + 1)..hi : j \in lo..hi /\ j # i
      OBVIOUS
    <3>3. QED
      BY <3>1, <3>2
  <2>4. ASSUME NEW j \in i..hi PROVE F[<<j, h>>] = F[<<j, g>>]
    <3>1. \A l \in (j + 1)..hi : h[l] = g[l]
      BY <2>3
    <3>2. j \in lo..hi
      OBVIOUS
    <3>3. QED
      BY <3>1, <3>2
  <2>5. ASSUME NEW j \in i..hi PROVE h[j] = F[<<j, h>>]
    <3>1. CASE j = i
      BY <2>3, <2>4, <3>1
    <3>2. CASE j # i
      <4>1. j \in (i + 1)..hi
        BY <3>2
      <4>2. QED
        BY <2>1, <2>3, <2>4, <4>1
    <3>3. QED
      BY <3>1, <3>2
  <2>6. i \in lo..(hi + 1)
    OBVIOUS
  <2>7. QED
    BY <2>5, <2>6
<1>3. ASSUME NEW i \in lo..(hi + 1), \A j \in (i + 1)..(hi + 1) : j \in T PROVE i \in T
  <2> HIDE DEF T
  <2>1. CASE i = hi + 1
    BY <1>1, <2>1
  <2>2. CASE i # hi + 1
    <3>1. i \in lo..hi /\ i + 1 \in (i + 1)..(hi + 1)
      BY <2>2
    <3>2. QED
      BY <1>2, <1>3, <3>1
  <2>3. QED
    BY <2>1, <2>2
<1>4. \A i \in lo..(hi + 1) : i \in T
  <2> HIDE DEF T
  <2>1. hi + 1 \in Int
    OBVIOUS
  <2>2. QED
    BY <1>3, <2>1, BackwardInduction
<1>5. CASE lo \in lo..(hi + 1)
  BY <1>4, <1>5 DEF IsLoop
<1>6. CASE lo \notin lo..(hi + 1)
  <2>1. lo..hi = {}
    BY <1>6
  <2>2. PICK f \in [lo..hi -> V] : TRUE
    <3>1. PICK v \in V : TRUE
      OBVIOUS
    <3>2. [j \in lo..hi |-> v] \in [lo..hi -> V]
      OBVIOUS
    <3>3. QED
      BY <3>2
  <2>3. QED
    BY <2>1, <2>2 DEF IsLoop
<1>7. QED
  BY <1>5, <1>6

-----------------------------------------------------------------------------
(* One segment.                                                            *)

LEMMA Limits == MaxLiteral \in Nat /\ MaxSize \in Nat /\ MaxQuoted \in Nat
BY LexerAssumption

Token == [is : {"string", "atom", "open", "close"}, val : Seq(Octet)]
Errors == LexErrors \cup {Fine}

\* Where the loop of lex_quoted is, and what it finds from there.
QuotedIndices(segment, open) == (open + 1)..(Len(segment) + 1)
QuotedResults(segment, open) ==
  [err : Errors, string : Seq(Octet), next : QuotedIndices(segment, open)]

LEMMA QuotedAtType ==
  ASSUME NEW segment \in Seq(Octet), NEW open \in 1..Len(segment),
         NEW i \in QuotedIndices(segment, open),
         NEW f \in [QuotedIndices(segment, open) -> QuotedResults(segment, open)]
  PROVE  QuotedAt(segment, i, f) \in QuotedResults(segment, open)
<1> DEFINE n == Len(segment)
           V == QuotedResults(segment, open)
<1>1. /\ n \in Nat /\ i \in 2..(n + 1)
      /\ \A err \in LexErrors : [err |-> err, string |-> <<>>, next |-> n + 1] \in V
  BY DEF QuotedIndices, QuotedResults, Errors
<1>2. {"UnterminatedQuoted", "InvalidEscape"} \subseteq LexErrors
  BY DEF LexErrors
<1>3. ASSUME NEW k \in QuotedIndices(segment, open), NEW octet \in Octet
      PROVE  [f[k] EXCEPT !.string = << octet >> \o @] \in V
  <2>1. f[k] \in V
    OBVIOUS
  <2>2. << octet >> \o f[k].string \in Seq(Octet)
    BY <2>1 DEF QuotedResults
  <2>3. QED
    BY <2>1, <2>2 DEF QuotedResults
<1>4. CASE i > n
  BY <1>1, <1>2, <1>4 DEF QuotedAt
<1>5. CASE i \in 1..n
  <2>1. /\ i + 1 \in QuotedIndices(segment, open) /\ segment[i] \in Octet
        /\ i # n => i + 2 \in QuotedIndices(segment, open) /\ segment[i + 1] \in Octet
    BY <1>1, <1>5, ElementOfSeq DEF QuotedIndices
  <2>2. [err |-> Fine, string |-> <<>>, next |-> i + 1] \in V
    BY <2>1 DEF QuotedResults, Errors
  <2>3. QED
    BY <1>1, <1>2, <1>3, <1>5, <2>1, <2>2 DEF QuotedAt
<1>6. QED
  BY <1>1, <1>4, <1>5

LEMMA QuotedAtLocal ==
  ASSUME NEW segment \in Seq(Octet), NEW open \in 1..Len(segment),
         NEW i \in QuotedIndices(segment, open), NEW f, NEW g,
         \A j \in (i + 1)..(Len(segment) + 1) : f[j] = g[j]
  PROVE  QuotedAt(segment, i, f) = QuotedAt(segment, i, g)
<1>1. Len(segment) \in Nat /\ i \in Nat
  BY DEF QuotedIndices
<1>2. CASE i > Len(segment)
  BY <1>2 DEF QuotedAt
<1>3. CASE i <= Len(segment) /\ i # Len(segment)
  <2>1. f[i + 1] = g[i + 1] /\ f[i + 2] = g[i + 2] /\ ~ (i > Len(segment))
    BY <1>1, <1>3
  <2>2. QED
    BY <2>1 DEF QuotedAt
<1>4. CASE i = Len(segment)
  <2>1. f[i + 1] = g[i + 1] /\ ~ (i > Len(segment))
    BY <1>1, <1>4
  <2>2. QED
    BY <1>4, <2>1 DEF QuotedAt
<1>5. QED
  BY <1>1, <1>2, <1>3, <1>4

\* lex_quoted is its loop from the octet behind the opening quote.
LEMMA QuotedLoop ==
  ASSUME NEW segment \in Seq(Octet), NEW open \in 1..Len(segment)
  PROVE  \E f \in [QuotedIndices(segment, open) -> QuotedResults(segment, open)] :
            /\ \A i \in QuotedIndices(segment, open) : f[i] = QuotedAt(segment, i, f)
            /\ LexQuoted(segment, open) = f[open + 1]
<1> DEFINE D == (open + 1)..(Len(segment) + 1)
           V == QuotedResults(segment, open)
           F == [p \in D \X [D -> V] |-> QuotedAt(segment, p[1], p[2])]
<1>1. /\ Len(segment) \in Nat /\ open + 1 \in Int /\ Len(segment) + 1 \in Int
      /\ D = QuotedIndices(segment, open)
  BY DEF QuotedIndices
<1>2. V # {}
  <2>1. [err |-> Fine, string |-> <<>>, next |-> open + 1] \in V
    BY <1>1 DEF QuotedResults, Errors
  <2>2. QED
    BY <2>1
<1>3. F \in [D \X [D -> V] -> V]
  BY <1>1, QuotedAtType
<1>4. \A i \in D : \A g, h \in [D -> V] :
        (\A j \in (i + 1)..(Len(segment) + 1) : g[j] = h[j]) => F[<<i, g>>] = F[<<i, h>>]
  <2>1. ASSUME NEW i \in D, NEW g \in [D -> V], NEW h \in [D -> V],
               \A j \in (i + 1)..(Len(segment) + 1) : g[j] = h[j]
        PROVE  QuotedAt(segment, i, g) = QuotedAt(segment, i, h)
    BY <1>1, <2>1, QuotedAtLocal
  <2>2. QED
    BY <2>1
<1>5. PICK f : IsLoop(f, F, open + 1, Len(segment) + 1, V)
  <2> HIDE DEF F, V
  <2>1. IsStep(F, open + 1, Len(segment) + 1, V)
    BY <1>2, <1>3, <1>4 DEF IsStep
  <2>2. QED
    BY <1>1, <2>1, BackwardRecursion
<1>6. f \in [D -> V] /\ \A i \in D : f[i] = QuotedAt(segment, i, f)
  BY <1>5 DEF IsLoop
<1>7. ASSUME NEW g, g = [i \in D |-> QuotedAt(segment, i, g)]
      PROVE  g = f
  <2> DEFINE T == {i \in D : g[i] = f[i]}
  <2>1. ASSUME NEW i \in D, \A j \in (i + 1)..(Len(segment) + 1) : j \in T
        PROVE  i \in T
    <3>1. \A j \in (i + 1)..(Len(segment) + 1) : g[j] = f[j]
      BY <2>1
    <3>2. QuotedAt(segment, i, g) = QuotedAt(segment, i, f)
      BY <1>1, <3>1, QuotedAtLocal
    <3>3. QED
      BY <1>6, <1>7, <3>2
  <2>2. \A i \in D : i \in T
    <3> HIDE DEF T
    <3>1. QED
      BY <1>1, <2>1, BackwardInduction
  <2>3. g = [i \in D |-> g[i]]
    BY <1>7
  <2>4. f = [i \in D |-> f[i]]
    BY <1>6
  <2>5. \A i \in D : g[i] = f[i]
    BY <2>2
  <2>6. QED
    BY <2>3, <2>4, <2>5
<1>8. f = [i \in D |-> QuotedAt(segment, i, f)]
  BY <1>6
<1>9. LexQuoted(segment, open) = f[open + 1]
  <2>1. LexQuoted(segment, open) =
          (CHOOSE g : g = [i \in D |-> QuotedAt(segment, i, g)])[open + 1]
    BY DEF LexQuoted
  <2>2. (CHOOSE g : g = [i \in D |-> QuotedAt(segment, i, g)]) = f
    BY <1>7, <1>8
  <2>3. QED
    BY <2>1, <2>2
<1>10. QED
  BY <1>1, <1>6, <1>9

\* What lex finds from an index on.
LexResults == [err : Errors, tokens : Seq(Token), marker : {NoMarker} \cup 0..MaxSize]
LexIndices(segment) == 1..(Len(segment) + 1)

LEMMA LiteralMarkerType ==
  ASSUME NEW marker
  PROVE  LexLiteralMarker(marker) \in LexResults
<1>1. \A err \in Errors : LexEnd(err) \in LexResults
  BY DEF LexResults, Errors, LexEnd
<1>2. \A size \in 0..MaxSize : [err |-> Fine, tokens |-> <<>>, marker |-> size] \in LexResults
  BY DEF LexResults, Errors
<1>3. {"InvalidLiteralMarker", "LiteralTooLarge"} \subseteq Errors
  BY DEF LexErrors, Errors
<1>4. QED
  BY <1>1, <1>2, <1>3 DEF LexLiteralMarker

\* An atom has an octet and ends in its segment.
LEMMA AtomEndIsLater ==
  ASSUME NEW segment \in Seq(Octet), NEW i \in 1..Len(segment), segment[i] \notin AtomSpecials
  PROVE  /\ AtomEnd(segment, i) \in (i + 1)..(Len(segment) + 1)
         /\ \A j \in i..(AtomEnd(segment, i) - 1) : segment[j] \notin AtomSpecials
         /\ AtomEnd(segment, i) <= Len(segment) => segment[AtomEnd(segment, i)] \in AtomSpecials
<1> DEFINE S == {j \in i..Len(segment) : segment[j] \in AtomSpecials} \cup {Len(segment) + 1}
<1>1. Len(segment) \in Nat /\ S \in SUBSET Int /\ S # {} /\ \A x \in S : i <= x
  OBVIOUS
<1>2. AtomEnd(segment, i) = Min(S)
  BY DEF AtomEnd
<1>3. Min(S) \in S /\ \A x \in S : Min(S) <= x
  <2>1. i \in Int
    OBVIOUS
  <2> HIDE DEF S
  <2>2. QED
    BY <1>1, <2>1, MinIsLeast
<1>4. Min(S) # i
  BY <1>1, <1>3
<1>5. ASSUME NEW j \in i..(Min(S) - 1) PROVE segment[j] \notin AtomSpecials
  <2>1. j \notin S /\ j \in i..Len(segment)
    BY <1>1, <1>3
  <2>2. QED
    BY <2>1
<1>6. QED
  BY <1>1, <1>2, <1>3, <1>4, <1>5

\* The octets that open a token are told apart.
LEMMA OctetKinds ==
  /\ \A octet \in {Quote, Brace, "(", ")", Backslash} : octet \notin Whitespace /\ octet \notin Control
  /\ Quote \notin {Brace, "(", ")", Backslash}
  /\ Backslash \notin {Brace, "(", ")"}
  /\ Brace \notin {"(", ")"}
  /\ AtomSpecials \subseteq Whitespace \cup Control \cup {Quote, Brace, "(", ")", Backslash}
BY DEF Quote, Backslash, Brace, Whitespace, Control, CR, LF, AtomSpecials, QuotedSpecials

\* One turn of the loop of lex, by the octet it is at.
LEMMA LexBlank ==
  ASSUME NEW segment \in Seq(Octet), NEW i \in 1..Len(segment), NEW f,
         segment[i] \in Whitespace
  PROVE  LexAt(segment, i, f) = f[i + 1]
<1>1. ~ (i > Len(segment))
  <2>1. Len(segment) \in Nat
    OBVIOUS
  <2>2. QED
    BY <2>1
<1>2. QED
  BY <1>1, OctetKinds DEF LexAt

LEMMA LexString ==
  ASSUME NEW segment \in Seq(Octet), NEW i \in 1..Len(segment), NEW f,
         segment[i] = Quote
  PROVE  LexAt(segment, i, f) = IF LexQuoted(segment, i).err = Fine
            THEN Pushed(Str(LexQuoted(segment, i).string), f[LexQuoted(segment, i).next])
            ELSE LexEnd(LexQuoted(segment, i).err)
<1>1. ~ (i > Len(segment))
  <2>1. Len(segment) \in Nat
    OBVIOUS
  <2>2. QED
    BY <2>1
<1>2. QED
  BY <1>1, OctetKinds DEF LexAt

LEMMA LexMarker ==
  ASSUME NEW segment \in Seq(Octet), NEW i \in 1..Len(segment), NEW f,
         segment[i] = Brace
  PROVE  LexAt(segment, i, f) = LexLiteralMarker(SubSeq(segment, i, Len(segment)))
<1>1. ~ (i > Len(segment))
  <2>1. Len(segment) \in Nat
    OBVIOUS
  <2>2. QED
    BY <2>1
<1>2. QED
  BY <1>1, OctetKinds DEF LexAt

LEMMA LexOpen ==
  ASSUME NEW segment \in Seq(Octet), NEW i \in 1..Len(segment), NEW f,
         segment[i] = "("
  PROVE  LexAt(segment, i, f) = Pushed(Open, f[i + 1])
<1>1. ~ (i > Len(segment))
  <2>1. Len(segment) \in Nat
    OBVIOUS
  <2>2. QED
    BY <2>1
<1>2. QED
  BY <1>1, OctetKinds DEF LexAt

LEMMA LexClose ==
  ASSUME NEW segment \in Seq(Octet), NEW i \in 1..Len(segment), NEW f,
         segment[i] = ")"
  PROVE  LexAt(segment, i, f) = Pushed(Close, f[i + 1])
<1>1. ~ (i > Len(segment))
  <2>1. Len(segment) \in Nat
    OBVIOUS
  <2>2. QED
    BY <2>1
<1>2. QED
  BY <1>1, OctetKinds DEF LexAt

LEMMA LexBad ==
  ASSUME NEW segment \in Seq(Octet), NEW i \in 1..Len(segment), NEW f,
         segment[i] = Backslash \/ segment[i] \in Control \ Whitespace
  PROVE  LexAt(segment, i, f) = LexEnd("UnexpectedByte")
<1>1. ~ (i > Len(segment))
  <2>1. Len(segment) \in Nat
    OBVIOUS
  <2>2. QED
    BY <2>1
<1>2. QED
  BY <1>1, OctetKinds DEF LexAt

LEMMA LexAtom ==
  ASSUME NEW segment \in Seq(Octet), NEW i \in 1..Len(segment), NEW f,
         segment[i] \notin Whitespace \cup Control \cup {Quote, Brace, "(", ")", Backslash}
  PROVE  LexAt(segment, i, f) = Pushed(Atom(SubSeq(segment, i, AtomEnd(segment, i) - 1)), f[AtomEnd(segment, i)])
<1>1. ~ (i > Len(segment))
  <2>1. Len(segment) \in Nat
    OBVIOUS
  <2>2. QED
    BY <2>1
<1>2. QED
  BY <1>1, OctetKinds DEF LexAt

LEMMA LexAtType ==
  ASSUME NEW segment \in Seq(Octet), NEW i \in LexIndices(segment),
         NEW f \in [LexIndices(segment) -> LexResults]
  PROVE  LexAt(segment, i, f) \in LexResults
<1> DEFINE n == Len(segment)
<1>1. n \in Nat /\ i \in 1..(n + 1)
  BY DEF LexIndices
<1>2. \A err \in Errors : LexEnd(err) \in LexResults
  BY DEF LexResults, Errors, LexEnd
<1>3. ASSUME NEW k \in LexIndices(segment), NEW token \in Token
      PROVE  Pushed(token, f[k]) \in LexResults
  <2>1. f[k] \in LexResults
    OBVIOUS
  <2>2. << token >> \o f[k].tokens \in Seq(Token)
    BY <2>1 DEF LexResults
  <2>3. QED
    BY <2>1, <2>2 DEF LexResults, Pushed
<1>4. CASE i > n
  BY <1>1, <1>2, <1>4 DEF LexAt, Errors
<1>5. CASE i \in 1..n
  <2>1. i + 1 \in LexIndices(segment) /\ segment[i] \in Octet
    BY <1>1, <1>5, ElementOfSeq DEF LexIndices
  <2>2. "UnexpectedByte" \in Errors
    BY DEF LexErrors, Errors
  <2>3. LexQuoted(segment, i) \in QuotedResults(segment, i)
    <3>1. i + 1 \in QuotedIndices(segment, i)
      BY <1>1, <1>5 DEF QuotedIndices
    <3>2. QED
      BY <1>5, <3>1, QuotedLoop
  <2>4. CASE segment[i] \in Whitespace
    BY <1>1, <1>5, <2>1, <2>4, LexBlank
  <2>5. CASE segment[i] = Quote
    <3>1. CASE LexQuoted(segment, i).err = Fine
      <4>1. /\ Str(LexQuoted(segment, i).string) \in Token
            /\ LexQuoted(segment, i).next \in LexIndices(segment)
        BY <1>1, <1>5, <2>3 DEF QuotedResults, QuotedIndices, LexIndices, Str, Token
      <4>2. QED
        BY <1>1, <1>3, <1>5, <2>5, <3>1, <4>1, LexString
    <3>2. CASE LexQuoted(segment, i).err # Fine
      <4>1. LexQuoted(segment, i).err \in Errors
        BY <2>3 DEF QuotedResults
      <4>2. QED
        BY <1>1, <1>2, <1>5, <2>5, <3>2, <4>1, LexString
    <3>3. QED
      BY <3>1, <3>2
  <2>6. CASE segment[i] = Brace
    BY <1>1, <1>5, <2>6, LiteralMarkerType, LexMarker
  <2>7. CASE segment[i] \in {"(", ")"}
    <3>1. Open \in Token /\ Close \in Token
      BY DEF Open, Close, Token
    <3>2. QED
      BY <1>1, <1>3, <1>5, <2>1, <2>7, <3>1, LexOpen, LexClose
  <2>8. CASE segment[i] = Backslash \/ segment[i] \in Control \ Whitespace
    BY <1>1, <1>2, <1>5, <2>2, <2>8, LexBad
  <2>9. CASE segment[i] \notin Whitespace \cup {Quote, Brace, "(", ")", Backslash} \cup Control
    <3>1. segment[i] \notin AtomSpecials
      BY <2>9, OctetKinds
    <3>2. AtomEnd(segment, i) \in LexIndices(segment) /\ AtomEnd(segment, i) - 1 \in i..n
      BY <1>1, <1>5, <3>1, AtomEndIsLater DEF LexIndices
    <3>3. Atom(SubSeq(segment, i, AtomEnd(segment, i) - 1)) \in Token
      <4>1. \A j \in i..(AtomEnd(segment, i) - 1) : segment[j] \in Octet
        BY <1>1, <1>5, <3>2, ElementOfSeq
      <4>2. SubSeq(segment, i, AtomEnd(segment, i) - 1) \in Seq(Octet)
        BY <1>1, <1>5, <3>2, <4>1, SubSeqProperties
      <4>3. QED
        BY <4>2 DEF Atom, Token
    <3>4. QED
      BY <1>1, <1>3, <1>5, <2>9, <3>1, <3>2, <3>3, LexAtom
  <2>10. QED
    BY <2>4, <2>5, <2>6, <2>7, <2>8, <2>9
<1>6. QED
  BY <1>1, <1>4, <1>5

LEMMA LexAtLocal ==
  ASSUME NEW segment \in Seq(Octet), NEW i \in LexIndices(segment), NEW f, NEW g,
         \A j \in (i + 1)..(Len(segment) + 1) : f[j] = g[j]
  PROVE  LexAt(segment, i, f) = LexAt(segment, i, g)
<1> DEFINE n == Len(segment)
<1>1. n \in Nat /\ i \in 1..(n + 1)
  BY DEF LexIndices
<1>2. CASE i > n
  BY <1>2 DEF LexAt
<1>3. CASE i \in 1..n
  <2>1. f[i + 1] = g[i + 1]
    BY <1>1, <1>3
  <2>2. CASE segment[i] = Quote
    <3>1. LexQuoted(segment, i).next \in (i + 1)..(n + 1)
      <4>1. i + 1 \in QuotedIndices(segment, i)
        BY <1>1, <1>3 DEF QuotedIndices
      <4>2. LexQuoted(segment, i) \in QuotedResults(segment, i)
        BY <1>3, <4>1, QuotedLoop
      <4>3. QED
        BY <4>2 DEF QuotedResults, QuotedIndices
    <3>2. f[LexQuoted(segment, i).next] = g[LexQuoted(segment, i).next]
      BY <3>1
    <3>3. QED
      BY <1>1, <1>3, <2>2, <3>2, LexString
  <2>3. CASE segment[i] \notin Whitespace \cup {Quote, Brace, "(", ")", Backslash} \cup Control
    <3>1. segment[i] \notin AtomSpecials
      BY <2>3, OctetKinds
    <3>2. AtomEnd(segment, i) \in (i + 1)..(n + 1)
      BY <1>3, <3>1, AtomEndIsLater
    <3>3. f[AtomEnd(segment, i)] = g[AtomEnd(segment, i)]
      BY <3>2
    <3>4. QED
      BY <1>1, <1>3, <2>3, <3>1, <3>3, LexAtom
  <2>4. CASE segment[i] \in Whitespace
    BY <1>3, <2>1, <2>4, LexBlank
  <2>5. CASE segment[i] = Brace
    BY <1>3, <2>5, LexMarker
  <2>6. CASE segment[i] \in {"(", ")"}
    BY <1>3, <2>1, <2>6, LexOpen, LexClose
  <2>7. CASE segment[i] = Backslash \/ segment[i] \in Control \ Whitespace
    BY <1>3, <2>7, LexBad
  <2>8. QED
    BY <2>2, <2>3, <2>4, <2>5, <2>6, <2>7
<1>4. QED
  BY <1>1, <1>2, <1>3

\* lex is its loop from the first octet.
LEMMA LexLoop ==
  ASSUME NEW segment \in Seq(Octet)
  PROVE  \E f \in [LexIndices(segment) -> LexResults] :
            /\ \A i \in LexIndices(segment) : f[i] = LexAt(segment, i, f)
            /\ Lex(segment) = f[1]
<1> DEFINE D == 1..(Len(segment) + 1)
           V == LexResults
           F == [p \in D \X [D -> V] |-> LexAt(segment, p[1], p[2])]
<1>1. /\ Len(segment) \in Nat /\ 1 \in Int /\ Len(segment) + 1 \in Int
      /\ D = LexIndices(segment)
  BY DEF LexIndices
<1>2. V # {}
  <2>1. LexEnd(Fine) \in V
    BY DEF LexResults, Errors, LexEnd
  <2>2. QED
    BY <2>1
<1>3. F \in [D \X [D -> V] -> V]
  BY <1>1, LexAtType
<1>4. \A i \in D : \A g, h \in [D -> V] :
        (\A j \in (i + 1)..(Len(segment) + 1) : g[j] = h[j]) => F[<<i, g>>] = F[<<i, h>>]
  <2>1. ASSUME NEW i \in D, NEW g \in [D -> V], NEW h \in [D -> V],
               \A j \in (i + 1)..(Len(segment) + 1) : g[j] = h[j]
        PROVE  LexAt(segment, i, g) = LexAt(segment, i, h)
    BY <1>1, <2>1, LexAtLocal
  <2>2. QED
    BY <2>1
<1>5. PICK f : IsLoop(f, F, 1, Len(segment) + 1, V)
  <2> HIDE DEF F, V
  <2>1. IsStep(F, 1, Len(segment) + 1, V)
    BY <1>2, <1>3, <1>4 DEF IsStep
  <2>2. QED
    BY <1>1, <2>1, BackwardRecursion
<1>6. f \in [D -> V] /\ \A i \in D : f[i] = LexAt(segment, i, f)
  BY <1>5 DEF IsLoop
<1>7. ASSUME NEW g, g = [i \in D |-> LexAt(segment, i, g)]
      PROVE  g = f
  <2> DEFINE T == {i \in D : g[i] = f[i]}
  <2>1. ASSUME NEW i \in D, \A j \in (i + 1)..(Len(segment) + 1) : j \in T
        PROVE  i \in T
    <3>1. \A j \in (i + 1)..(Len(segment) + 1) : g[j] = f[j]
      BY <2>1
    <3>2. LexAt(segment, i, g) = LexAt(segment, i, f)
      BY <1>1, <3>1, LexAtLocal
    <3>3. QED
      BY <1>6, <1>7, <3>2
  <2>2. \A i \in D : i \in T
    <3> HIDE DEF T
    <3>1. QED
      BY <1>1, <2>1, BackwardInduction
  <2>3. g = [i \in D |-> g[i]]
    BY <1>7
  <2>4. f = [i \in D |-> f[i]]
    BY <1>6
  <2>5. \A i \in D : g[i] = f[i]
    BY <2>2
  <2>6. QED
    BY <2>3, <2>4, <2>5
<1>8. f = [i \in D |-> LexAt(segment, i, f)]
  BY <1>6
<1>9. Lex(segment) = f[1]
  <2>1. Lex(segment) = (CHOOSE g : g = [i \in D |-> LexAt(segment, i, g)])[1]
    BY DEF Lex
  <2>2. (CHOOSE g : g = [i \in D |-> LexAt(segment, i, g)]) = f
    BY <1>7, <1>8
  <2>3. QED
    BY <2>1, <2>2
<1>10. QED
  BY <1>1, <1>6, <1>9

LEMMA LexType ==
  ASSUME NEW segment \in Seq(Octet)
  PROVE  Lex(segment) \in LexResults
<1>1. 1 \in LexIndices(segment)
  BY DEF LexIndices
<1>2. QED
  BY <1>1, LexLoop

-----------------------------------------------------------------------------
(* One logical line.                                                       *)

\* What scan_line finds from an index on.
ScanIndices(buf) == 1..(Len(buf) + 1)
ScannedLines(buf) == [is : {"line"}, tokens : Seq(Token), consumed : 1..Len(buf)]
ScanResults(buf) == {Incomplete} \cup {Bad(err) : err \in LexErrors} \cup ScannedLines(buf)

\* The line ending a segment is looked for is the first one.
LEMMA EolIsFirst ==
  ASSUME NEW buf \in Seq(Octet), NEW i \in ScanIndices(buf), Eols(buf, i) # {}
  PROVE  /\ Min(Eols(buf, i)) \in i..Len(buf) /\ buf[Min(Eols(buf, i))] = LF
         /\ \A j \in i..(Min(Eols(buf, i)) - 1) : buf[j] # LF
<1>1. Len(buf) \in Nat /\ i \in Int
  BY DEF ScanIndices
<1>2. Eols(buf, i) \in SUBSET Int /\ \A x \in Eols(buf, i) : i <= x
  BY <1>1 DEF Eols
<1>3. Min(Eols(buf, i)) \in Eols(buf, i) /\ \A x \in Eols(buf, i) : Min(Eols(buf, i)) <= x
  BY <1>1, <1>2, MinIsLeast
<1>4. Min(Eols(buf, i)) \in i..Len(buf) /\ buf[Min(Eols(buf, i))] = LF
  BY <1>3 DEF Eols
<1>5. ASSUME NEW j \in i..(Min(Eols(buf, i)) - 1) PROVE buf[j] # LF
  <2>1. j \in i..Len(buf) /\ ~ (Min(Eols(buf, i)) <= j)
    BY <1>1, <1>4
  <2>2. QED
    BY <1>3, <2>1 DEF Eols
<1>6. QED
  BY <1>4, <1>5

LEMMA SegmentType ==
  ASSUME NEW buf \in Seq(Octet), NEW i \in ScanIndices(buf), NEW eol \in i..Len(buf)
  PROVE  Segment(buf, i, eol) \in Seq(Octet)
<1>1. Len(buf) \in Nat /\ i \in Nat \ {0} /\ eol \in Nat
  BY DEF ScanIndices
<1>2. \A n \in {eol - 1, eol - 2} : n \in Int /\ \A j \in i..n : buf[j] \in Octet
  BY <1>1, ElementOfSeq
<1>3. \A n \in {eol - 1, eol - 2} : SubSeq(buf, i, n) \in Seq(Octet)
  BY <1>1, <1>2, SubSeqProperties
<1>4. QED
  BY <1>3 DEF Segment

\* What is found is told apart by its kind.
LEMMA ScanKinds ==
  ASSUME NEW buf, NEW r \in ScanResults(buf)
  PROVE  /\ r.is = "line" <=> r \in ScannedLines(buf)
         /\ r.is = "incomplete" <=> r = Incomplete
         /\ r.is = "error" <=> r \in {Bad(err) : err \in LexErrors}
         /\ r.is \in {"line", "incomplete", "error"}
<1>1. CASE r = Incomplete
  BY <1>1 DEF Incomplete, Bad, ScannedLines
<1>2. CASE r \in {Bad(err) : err \in LexErrors}
  <2>1. PICK err \in LexErrors : r = Bad(err)
    BY <1>2
  <2>2. r.is = "error"
    BY <2>1 DEF Bad
  <2>3. QED
    BY <1>2, <2>2 DEF Incomplete, ScannedLines
<1>3. CASE r \in ScannedLines(buf)
  <2>1. r.is = "line"
    BY <1>3 DEF ScannedLines
  <2>2. \A err \in LexErrors : Bad(err).is = "error"
    BY DEF Bad
  <2>3. QED
    BY <1>3, <2>1, <2>2 DEF Incomplete
<1>4. QED
  BY <1>1, <1>2, <1>3 DEF ScanResults

\* Where a line goes on after a literal, it goes on behind it.
LEMMA ScanAtType ==
  ASSUME NEW buf \in Seq(Octet), NEW i \in ScanIndices(buf),
         NEW f \in [ScanIndices(buf) -> ScanResults(buf)]
  PROVE  ScanAt(buf, i, f) \in ScanResults(buf)
<1> DEFINE eol == Min(Eols(buf, i))
           lexed == Lex(Segment(buf, i, eol))
           stop == eol + lexed.marker
<1>1. CASE Eols(buf, i) = {}
  BY <1>1 DEF ScanAt, ScanResults
<1>2. CASE Eols(buf, i) # {}
  <2>1. Len(buf) \in Nat /\ i \in Nat \ {0} /\ eol \in i..Len(buf)
    BY <1>2, EolIsFirst DEF ScanIndices
  <2>2. lexed \in LexResults
    BY <2>1, SegmentType, LexType
  <2> HIDE DEF lexed
  <2>3. ScanAt(buf, i, f) = EndOrLiteral(buf, eol, lexed, f)
    BY <1>2 DEF ScanAt, lexed
  <2> HIDE DEF eol
  <2>4. CASE lexed.err # Fine
    <3>1. lexed.err \in LexErrors
      BY <2>2, <2>4 DEF LexResults, Errors
    <3>2. QED
      BY <2>3, <2>4, <3>1 DEF EndOrLiteral, ScanResults
  <2>5. CASE lexed.err = Fine /\ lexed.marker = NoMarker
    <3>1. [is |-> "line", tokens |-> lexed.tokens, consumed |-> eol] \in ScannedLines(buf)
      BY <2>1, <2>2 DEF ScannedLines, LexResults
    <3>2. QED
      BY <2>3, <2>5, <3>1 DEF EndOrLiteral, ScanResults
  <2>6. CASE lexed.err = Fine /\ lexed.marker # NoMarker
    <3>1. lexed.marker \in Nat /\ stop \in Nat /\ eol + 1 \in Nat
      BY <2>1, <2>2, <2>6, Limits DEF LexResults
    <3>2. CASE Len(buf) < stop
      BY <2>3, <2>6, <3>2 DEF EndOrLiteral, ScanResults
    <3>3. CASE ~ (Len(buf) < stop)
      <4>1. stop + 1 \in ScanIndices(buf)
        BY <2>1, <3>1, <3>3 DEF ScanIndices
      <4>2. f[stop + 1] \in ScanResults(buf)
        BY <4>1
      <4>3. CASE f[stop + 1].is # "line"
        BY <2>3, <2>6, <3>3, <4>2, <4>3 DEF EndOrLiteral
      <4>4. CASE f[stop + 1].is = "line"
        <5>1. f[stop + 1] \in ScannedLines(buf)
          BY <4>2, <4>4, ScanKinds
        <5>2. \A j \in (eol + 1)..stop : buf[j] \in Octet
          BY <2>1, <3>1, <3>3, ElementOfSeq
        <5>3. SubSeq(buf, eol + 1, stop) \in Seq(Octet)
          BY <3>1, <5>2, SubSeqProperties
        <5>4. << Str(SubSeq(buf, eol + 1, stop)) >> \in Seq(Token)
          BY <5>3 DEF Str, Token
        <5>5. lexed.tokens \in Seq(Token) /\ f[stop + 1].tokens \in Seq(Token)
          BY <2>2, <5>1 DEF LexResults, ScannedLines
        <5>6. lexed.tokens \o << Str(SubSeq(buf, eol + 1, stop)) >> \o f[stop + 1].tokens \in Seq(Token)
          BY <5>4, <5>5, ConcatProperties
        <5>7. ScanAt(buf, i, f) =
                [f[stop + 1] EXCEPT !.tokens =
                   lexed.tokens \o << Str(SubSeq(buf, eol + 1, stop)) >> \o @]
          BY <2>3, <2>6, <3>3, <4>4 DEF EndOrLiteral
        <5>8. ScanAt(buf, i, f) \in ScannedLines(buf)
          BY <5>1, <5>6, <5>7 DEF ScannedLines
        <5>9. QED
          BY <5>8 DEF ScanResults
      <4>5. QED
        BY <4>3, <4>4
    <3>4. QED
      BY <3>2, <3>3
  <2>7. QED
    BY <2>4, <2>5, <2>6
<1>3. QED
  BY <1>1, <1>2

LEMMA ScanAtLocal ==
  ASSUME NEW buf \in Seq(Octet), NEW i \in ScanIndices(buf), NEW f, NEW g,
         \A j \in (i + 1)..(Len(buf) + 1) : f[j] = g[j]
  PROVE  ScanAt(buf, i, f) = ScanAt(buf, i, g)
<1> DEFINE eol == Min(Eols(buf, i))
           lexed == Lex(Segment(buf, i, eol))
           stop == eol + lexed.marker
<1>1. CASE Eols(buf, i) = {}
  BY <1>1 DEF ScanAt
<1>2. CASE Eols(buf, i) # {}
  <2>1. Len(buf) \in Nat /\ i \in Nat \ {0} /\ eol \in i..Len(buf)
    BY <1>2, EolIsFirst DEF ScanIndices
  <2>2. lexed \in LexResults
    BY <2>1, SegmentType, LexType
  <2> HIDE DEF lexed
  <2>3. /\ ScanAt(buf, i, f) = EndOrLiteral(buf, eol, lexed, f)
        /\ ScanAt(buf, i, g) = EndOrLiteral(buf, eol, lexed, g)
    BY <1>2 DEF ScanAt, lexed
  <2> HIDE DEF eol
  <2>4. CASE lexed.err = Fine /\ lexed.marker # NoMarker /\ ~ (Len(buf) < stop)
    <3>1. lexed.marker \in Nat /\ stop \in Nat
      BY <2>1, <2>2, <2>4, Limits DEF LexResults
    <3>2. stop + 1 \in (i + 1)..(Len(buf) + 1)
      BY <2>1, <2>4, <3>1
    <3>3. f[stop + 1] = g[stop + 1]
      BY <3>2
    <3>4. QED
      BY <2>3, <3>3 DEF EndOrLiteral
  <2>5. QED
    <3>1. CASE lexed.err # Fine
      BY <2>3, <3>1 DEF EndOrLiteral
    <3>2. CASE lexed.err = Fine /\ lexed.marker = NoMarker
      BY <2>3, <3>2 DEF EndOrLiteral
    <3>3. CASE lexed.err = Fine /\ lexed.marker # NoMarker /\ Len(buf) < stop
      BY <2>3, <3>3 DEF EndOrLiteral
    <3>4. QED
      BY <2>4, <3>1, <3>2, <3>3
<1>3. QED
  BY <1>1, <1>2

\* scan_line is its loop from the first octet.
LEMMA ScanLoop ==
  ASSUME NEW buf \in Seq(Octet)
  PROVE  \E f \in [ScanIndices(buf) -> ScanResults(buf)] :
            /\ \A i \in ScanIndices(buf) : f[i] = ScanAt(buf, i, f)
            /\ ScanLine(buf) = f[1]
<1> DEFINE D == 1..Len(buf) + 1
           V == ScanResults(buf)
           F == [p \in D \X [D -> V] |-> ScanAt(buf, p[1], p[2])]
<1>1. /\ Len(buf) \in Nat /\ 1 \in Int /\ Len(buf) + 1 \in Int
      /\ D = ScanIndices(buf)
  BY DEF ScanIndices
<1>2. V # {}
  <2>1. Incomplete \in V
    BY DEF ScanResults
  <2>2. QED
    BY <2>1
<1>3. F \in [D \X [D -> V] -> V]
  BY <1>1, ScanAtType
<1>4. \A i \in D : \A g, h \in [D -> V] :
        (\A j \in (i + 1)..(Len(buf) + 1) : g[j] = h[j]) => F[<<i, g>>] = F[<<i, h>>]
  <2>1. ASSUME NEW i \in D, NEW g \in [D -> V], NEW h \in [D -> V],
               \A j \in (i + 1)..(Len(buf) + 1) : g[j] = h[j]
        PROVE  ScanAt(buf, i, g) = ScanAt(buf, i, h)
    BY <1>1, <2>1, ScanAtLocal
  <2>2. QED
    BY <2>1
<1>5. PICK f : IsLoop(f, F, 1, Len(buf) + 1, V)
  <2> HIDE DEF F, V
  <2>1. IsStep(F, 1, Len(buf) + 1, V)
    BY <1>2, <1>3, <1>4 DEF IsStep
  <2>2. QED
    BY <1>1, <2>1, BackwardRecursion
<1>6. f \in [D -> V] /\ \A i \in D : f[i] = ScanAt(buf, i, f)
  BY <1>5 DEF IsLoop
<1>7. ASSUME NEW g, g = [i \in D |-> ScanAt(buf, i, g)]
      PROVE  g = f
  <2> DEFINE T == {i \in D : g[i] = f[i]}
  <2>1. ASSUME NEW i \in D, \A j \in (i + 1)..(Len(buf) + 1) : j \in T
        PROVE  i \in T
    <3>1. \A j \in (i + 1)..(Len(buf) + 1) : g[j] = f[j]
      BY <2>1
    <3>2. ScanAt(buf, i, g) = ScanAt(buf, i, f)
      BY <1>1, <3>1, ScanAtLocal
    <3>3. QED
      BY <1>6, <1>7, <3>2
  <2>2. \A i \in D : i \in T
    <3> HIDE DEF T
    <3>1. QED
      BY <1>1, <2>1, BackwardInduction
  <2>3. g = [i \in D |-> g[i]]
    BY <1>7
  <2>4. f = [i \in D |-> f[i]]
    BY <1>6
  <2>5. \A i \in D : g[i] = f[i]
    BY <2>2
  <2>6. QED
    BY <2>3, <2>4, <2>5
<1>8. f = [i \in D |-> ScanAt(buf, i, f)]
  BY <1>6
<1>9. ScanLine(buf) = f[1]
  <2>1. ScanLine(buf) = (CHOOSE g : g = [i \in D |-> ScanAt(buf, i, g)])[1]
    BY DEF ScanLine
  <2>2. (CHOOSE g : g = [i \in D |-> ScanAt(buf, i, g)]) = f
    BY <1>7, <1>8
  <2>3. QED
    BY <2>1, <2>2
<1>10. QED
  BY <1>1, <1>6, <1>9

LEMMA ScanLineType ==
  ASSUME NEW buf \in Seq(Octet)
  PROVE  ScanLine(buf) \in ScanResults(buf)
<1>1. 1 \in ScanIndices(buf)
  BY DEF ScanIndices
<1>2. QED
  BY <1>1, ScanLoop

-----------------------------------------------------------------------------
(* A line does not depend on what was read past it.                        *)

\* The octets b are the first ones of w.
Begins(b, w) == Len(b) <= Len(w) /\ \A i \in 1..Len(b) : w[i] = b[i]

LEMMA SubSeqAgrees ==
  ASSUME NEW S, NEW b \in Seq(S), NEW w \in Seq(S), Begins(b, w),
         NEW m \in Nat \ {0}, NEW n \in Int, n <= Len(b)
  PROVE  SubSeq(w, m, n) = SubSeq(b, m, n)
<1>1. Len(b) \in Nat /\ Len(w) \in Nat /\ Len(b) <= Len(w)
  BY DEF Begins
<1>2. \A i \in m..n : w[i] = b[i] /\ b[i] \in S
  BY <1>1, ElementOfSeq DEF Begins
<1>3. /\ SubSeq(b, m, n) \in Seq(S) /\ SubSeq(w, m, n) \in Seq(S)
      /\ Len(SubSeq(b, m, n)) = Len(SubSeq(w, m, n))
      /\ Len(SubSeq(b, m, n)) = IF m <= n THEN n - m + 1 ELSE 0
      /\ \A i \in 1..(n - m + 1) : SubSeq(b, m, n)[i] = b[m + i - 1]
      /\ \A i \in 1..(n - m + 1) : SubSeq(w, m, n)[i] = w[m + i - 1]
  BY <1>1, <1>2, SubSeqProperties
<1>4. ASSUME NEW i \in 1..Len(SubSeq(w, m, n))
      PROVE  SubSeq(w, m, n)[i] = SubSeq(b, m, n)[i]
  <2>1. i \in 1..(n - m + 1) /\ m + i - 1 \in m..n
    BY <1>1, <1>3
  <2>2. QED
    BY <1>2, <1>3, <2>1
<1>5. QED
  BY <1>3, <1>4, SeqEqual

LEMMA EolAgrees ==
  ASSUME NEW b \in Seq(Octet), NEW w \in Seq(Octet), Begins(b, w),
         NEW i \in ScanIndices(b), Eols(b, i) # {}
  PROVE  /\ i \in ScanIndices(w) /\ Eols(w, i) # {}
         /\ Min(Eols(w, i)) = Min(Eols(b, i))
<1> DEFINE e == Min(Eols(b, i))
           d == Min(Eols(w, i))
<1>1. /\ Len(b) \in Nat /\ Len(w) \in Nat /\ Len(b) <= Len(w) /\ i \in Nat \ {0}
      /\ i \in ScanIndices(w)
  BY DEF Begins, ScanIndices
<1>2. e \in i..Len(b) /\ b[e] = LF /\ \A j \in i..(e - 1) : b[j] # LF
  BY EolIsFirst
<1>3. e \in i..Len(w) /\ w[e] = LF
  BY <1>1, <1>2 DEF Begins
<1>4. e \in Eols(w, i)
  BY <1>3 DEF Eols
<1>5. d \in i..Len(w) /\ w[d] = LF /\ \A j \in i..(d - 1) : w[j] # LF
  BY <1>1, <1>4, EolIsFirst
<1> HIDE DEF e, d
<1>6. ~ (e < d)
  <2>1. ASSUME e < d PROVE e \in i..(d - 1)
    BY <1>1, <1>2, <1>5, <2>1
  <2>2. QED
    BY <1>3, <1>5, <2>1
<1>7. ~ (d < e)
  <2>1. ASSUME d < e PROVE d \in i..(e - 1) /\ b[d] = w[d]
    BY <1>1, <1>2, <1>5, <2>1 DEF Begins
  <2>2. QED
    BY <1>2, <1>5, <2>1
<1>8. d = e
  BY <1>1, <1>2, <1>5, <1>6, <1>7
<1>9. QED
  BY <1>1, <1>4, <1>8 DEF d, e

LEMMA SegmentAgrees ==
  ASSUME NEW b \in Seq(Octet), NEW w \in Seq(Octet), Begins(b, w),
         NEW i \in ScanIndices(b), NEW eol \in i..Len(b)
  PROVE  Segment(w, i, eol) = Segment(b, i, eol)
<1>1. Len(b) \in Nat /\ i \in Nat \ {0} /\ eol \in Nat
  BY DEF ScanIndices
<1>2. eol > i => w[eol - 1] = b[eol - 1]
  BY <1>1 DEF Begins
<1>3. /\ SubSeq(w, i, eol - 1) = SubSeq(b, i, eol - 1)
      /\ SubSeq(w, i, eol - 2) = SubSeq(b, i, eol - 2)
  BY <1>1, SubSeqAgrees
<1>4. CASE eol > i
  BY <1>2, <1>3, <1>4 DEF Segment
<1>5. CASE ~ (eol > i)
  BY <1>3, <1>5 DEF Segment
<1>6. QED
  BY <1>4, <1>5

\* A line, or an error, found in a buffer is found in any longer one.
LEMMA ScanStable ==
  ASSUME NEW b \in Seq(Octet), NEW w \in Seq(Octet), Begins(b, w),
         ScanLine(b) # Incomplete
  PROVE  ScanLine(w) = ScanLine(b)
<1>1. PICK f \in [ScanIndices(b) -> ScanResults(b)] :
         /\ \A i \in ScanIndices(b) : f[i] = ScanAt(b, i, f)
         /\ ScanLine(b) = f[1]
  BY ScanLoop
<1>2. PICK g \in [ScanIndices(w) -> ScanResults(w)] :
         /\ \A i \in ScanIndices(w) : g[i] = ScanAt(w, i, g)
         /\ ScanLine(w) = g[1]
  BY ScanLoop
<1> DEFINE T == {i \in ScanIndices(b) : f[i] # Incomplete => g[i] = f[i]}
<1>3. Len(b) \in Nat /\ Len(w) \in Nat /\ Len(b) <= Len(w)
  BY DEF Begins
<1>4. ASSUME NEW i \in 1..(Len(b) + 1), \A j \in (i + 1)..(Len(b) + 1) : j \in T
      PROVE  i \in T
  <2> DEFINE eol == Min(Eols(b, i))
             lexed == Lex(Segment(b, i, eol))
             stop == eol + lexed.marker
  <2>1. i \in ScanIndices(b) /\ i \in Nat
    BY <1>3 DEF ScanIndices
  <2>2. CASE Eols(b, i) = {}
    BY <1>1, <2>1, <2>2 DEF ScanAt
  <2>3. CASE Eols(b, i) # {}
    <3>1. i \in ScanIndices(w) /\ Eols(w, i) # {} /\ Min(Eols(w, i)) = eol
      BY <2>1, <2>3, EolAgrees
    <3>2. eol \in i..Len(b)
      BY <2>1, <2>3, EolIsFirst
    <3>3. Segment(w, i, eol) = Segment(b, i, eol)
      BY <2>1, <3>2, SegmentAgrees
    <3>4. lexed \in LexResults
      BY <2>1, <3>2, SegmentType, LexType
    <3>5. f[i] = EndOrLiteral(b, eol, lexed, f) /\ g[i] = EndOrLiteral(w, eol, lexed, g)
      BY <1>1, <1>2, <2>1, <2>3, <3>1, <3>3 DEF ScanAt
    <3> HIDE DEF eol, lexed
    <3>6. CASE lexed.err # Fine \/ lexed.marker = NoMarker
      <4>1. f[i] = g[i]
        BY <3>5, <3>6 DEF EndOrLiteral
      <4>2. QED
        BY <2>1, <4>1
    <3>7. CASE lexed.err = Fine /\ lexed.marker # NoMarker
      <4>1. lexed.marker \in Nat /\ stop \in Nat /\ eol + 1 \in Nat \ {0}
        BY <1>3, <2>1, <3>2, <3>4, <3>7, Limits DEF LexResults
      <4>2. CASE Len(b) < stop
        <5>1. f[i] = Incomplete
          BY <3>5, <3>7, <4>2 DEF EndOrLiteral
        <5>2. QED
          BY <2>1, <5>1
      <4>3. CASE ~ (Len(b) < stop)
        <5>1. ~ (Len(w) < stop) /\ stop + 1 \in (i + 1)..(Len(b) + 1)
          BY <1>3, <2>1, <3>2, <4>1, <4>3
        <5>2. SubSeq(w, eol + 1, stop) = SubSeq(b, eol + 1, stop)
          <6>1. stop \in Int /\ stop <= Len(b) /\ eol + 1 \in Nat \ {0}
            BY <1>3, <4>1, <4>3
          <6> HIDE DEF stop
          <6>2. QED
            BY <6>1, SubSeqAgrees, ZenonT(60)
        <5>3. f[stop + 1] # Incomplete => g[stop + 1] = f[stop + 1]
          BY <1>4, <5>1
        <5>4. CASE f[stop + 1] = Incomplete
          <6>1. f[stop + 1].is # "line"
            BY <5>4 DEF Incomplete
          <6>2. f[i] = Incomplete
            BY <3>5, <3>7, <4>3, <5>4, <6>1 DEF EndOrLiteral
          <6>3. QED
            BY <2>1, <6>2
        <5>5. CASE f[stop + 1] # Incomplete
          <6>1. g[stop + 1] = f[stop + 1]
            BY <5>3, <5>5
          <6>2. g[i] = f[i]
            BY <3>5, <3>7, <4>3, <5>1, <5>2, <6>1 DEF EndOrLiteral
          <6>3. QED
            BY <2>1, <6>2
        <5>6. QED
          BY <5>4, <5>5
      <4>4. QED
        BY <4>2, <4>3
    <3>8. QED
      BY <3>6, <3>7
  <2>4. QED
    BY <2>2, <2>3
<1>5. \A i \in 1..(Len(b) + 1) : i \in T
  <2>1. 1 \in Int /\ Len(b) + 1 \in Int
    BY <1>3
  <2> HIDE DEF T
  <2>2. QED
    BY <1>4, <2>1, BackwardInduction
<1>6. 1 \in T
  BY <1>3, <1>5
<1>7. QED
  BY <1>1, <1>2, <1>6

-----------------------------------------------------------------------------
(* What is behind the first octets of a buffer.                            *)

Rest(b, start) == SubSeq(b, start + 1, Len(b))

LEMMA RestElements ==
  ASSUME NEW S, NEW b \in Seq(S), NEW k \in 0..Len(b)
  PROVE  /\ Rest(b, k) \in Seq(S) /\ Len(Rest(b, k)) = Len(b) - k
         /\ \A i \in 1..(Len(b) - k) : Rest(b, k)[i] = b[k + i]
<1>1. Len(b) \in Nat /\ k \in Nat /\ k + 1 \in Int
  OBVIOUS
<1>2. \A i \in (k + 1)..Len(b) : b[i] \in S
  BY <1>1, ElementOfSeq
<1>3. /\ Rest(b, k) \in Seq(S)
      /\ Len(Rest(b, k)) = IF k + 1 <= Len(b) THEN Len(b) - (k + 1) + 1 ELSE 0
      /\ \A i \in 1..(Len(b) - (k + 1) + 1) : Rest(b, k)[i] = b[k + 1 + i - 1]
  BY <1>1, <1>2, SubSeqProperties DEF Rest
<1>4. Len(Rest(b, k)) = Len(b) - k
  BY <1>1, <1>3
<1>5. ASSUME NEW i \in 1..(Len(b) - k) PROVE Rest(b, k)[i] = b[k + i]
  <2>1. i \in 1..(Len(b) - (k + 1) + 1) /\ k + 1 + i - 1 = k + i
    BY <1>1
  <2>2. QED
    BY <1>3, <2>1
<1>6. QED
  BY <1>3, <1>4, <1>5

\* Behind nothing is everything.
LEMMA RestOfAll ==
  ASSUME NEW S, NEW b \in Seq(S)
  PROVE  Rest(b, 0) = b
BY SubSeqFull DEF Rest

LEMMA RestOfRest ==
  ASSUME NEW S, NEW b \in Seq(S), NEW k \in 0..Len(b), NEW j \in 0..(Len(b) - k)
  PROVE  Rest(Rest(b, k), j) = Rest(b, k + j)
<1>1. /\ Len(b) \in Nat /\ k \in Nat /\ j \in Nat /\ k + j \in 0..Len(b)
  OBVIOUS
<1>2. /\ Rest(b, k) \in Seq(S) /\ Len(Rest(b, k)) = Len(b) - k
      /\ \A i \in 1..(Len(b) - k) : Rest(b, k)[i] = b[k + i]
  BY RestElements
<1>3. /\ Rest(b, k + j) \in Seq(S) /\ Len(Rest(b, k + j)) = Len(b) - (k + j)
      /\ \A i \in 1..(Len(b) - (k + j)) : Rest(b, k + j)[i] = b[k + j + i]
  BY <1>1, RestElements
<1>4. j \in 0..Len(Rest(b, k))
  BY <1>2
<1>5. /\ Rest(Rest(b, k), j) \in Seq(S)
      /\ Len(Rest(Rest(b, k), j)) = Len(b) - k - j
      /\ \A i \in 1..(Len(b) - k - j) : Rest(Rest(b, k), j)[i] = Rest(b, k)[j + i]
  BY <1>2, <1>4, RestElements
<1>6. Len(Rest(Rest(b, k), j)) = Len(Rest(b, k + j))
  BY <1>1, <1>3, <1>5
<1>7. ASSUME NEW i \in 1..Len(Rest(Rest(b, k), j))
      PROVE  Rest(Rest(b, k), j)[i] = Rest(b, k + j)[i]
  <2>1. /\ i \in 1..(Len(b) - k - j) /\ i \in 1..(Len(b) - (k + j))
        /\ j + i \in 1..(Len(b) - k) /\ k + (j + i) = k + j + i
    BY <1>1, <1>5, <1>7
  <2>2. Rest(Rest(b, k), j)[i] = b[k + (j + i)]
    BY <1>2, <1>5, <2>1
  <2>3. QED
    BY <1>3, <2>1, <2>2
<1>8. QED
  BY <1>3, <1>5, <1>6, <1>7, SeqEqual

LEMMA RestBegins ==
  ASSUME NEW b \in Seq(Octet), NEW w \in Seq(Octet), Begins(b, w), NEW k \in 0..Len(b)
  PROVE  Begins(Rest(b, k), Rest(w, k))
<1>1. Len(b) \in Nat /\ Len(w) \in Nat /\ Len(b) <= Len(w) /\ k \in 0..Len(w)
  BY DEF Begins
<1>2. /\ Len(Rest(b, k)) = Len(b) - k /\ Len(Rest(w, k)) = Len(w) - k
      /\ \A i \in 1..(Len(b) - k) : Rest(b, k)[i] = b[k + i]
      /\ \A i \in 1..(Len(w) - k) : Rest(w, k)[i] = w[k + i]
  BY <1>1, RestElements
<1>3. ASSUME NEW i \in 1..Len(Rest(b, k)) PROVE Rest(w, k)[i] = Rest(b, k)[i]
  <2>1. i \in 1..(Len(b) - k) /\ i \in 1..(Len(w) - k) /\ k + i \in 1..Len(b)
    BY <1>1, <1>2
  <2>2. QED
    BY <1>2, <2>1 DEF Begins
<1>4. Len(Rest(b, k)) <= Len(Rest(w, k))
  BY <1>1, <1>2
<1>5. QED
  BY <1>3, <1>4 DEF Begins

-----------------------------------------------------------------------------
(* A buffer cut in two, and put together.                                  *)

LEMMA BeginsLonger ==
  ASSUME NEW S, NEW s \in Seq(S), NEW t \in Seq(S)
  PROVE  Begins(s, s \o t)
<1>1. /\ Len(s) \in Nat /\ Len(t) \in Nat /\ Len(s \o t) = Len(s) + Len(t)
      /\ \A i \in 1..(Len(s) + Len(t)) : (s \o t)[i] =
           IF i <= Len(s) THEN s[i] ELSE t[i - Len(s)]
  BY ConcatProperties
<1>2. Len(s) <= Len(s \o t)
  BY <1>1
<1>3. ASSUME NEW i \in 1..Len(s) PROVE (s \o t)[i] = s[i]
  <2>1. i \in 1..(Len(s) + Len(t)) /\ i <= Len(s)
    BY <1>1
  <2>2. QED
    BY <1>1, <2>1
<1>4. QED
  BY <1>2, <1>3 DEF Begins

LEMMA PrefixLonger ==
  ASSUME NEW S, NEW s \in Seq(S), NEW t \in Seq(S)
  PROVE  IsPrefix(s, s \o t)
<1>1. Len(s) \in Nat /\ s \o t \in Seq(S) /\ Begins(s, s \o t)
  BY BeginsLonger, ConcatProperties
<1>2. SubSeq(s \o t, 1, Len(s)) = SubSeq(s, 1, Len(s))
  BY <1>1, SubSeqAgrees
<1>3. QED
  BY <1>1, <1>2 DEF IsPrefix, Begins

LEMMA CutInTwo ==
  ASSUME NEW S, NEW b \in Seq(S), NEW k \in 0..Len(b)
  PROVE  /\ SubSeq(b, 1, k) \in Seq(S) /\ Len(SubSeq(b, 1, k)) = k
         /\ SubSeq(b, 1, k) \o Rest(b, k) = b
<1>1. Len(b) \in Nat /\ k \in Nat /\ k \in (1 - 1)..Len(b) /\ Len(b) \in k..Len(b)
      /\ 1 \in 1..(Len(b) + 1)
  OBVIOUS
<1>2. SubSeq(b, 1, k) \o SubSeq(b, k + 1, Len(b)) = SubSeq(b, 1, Len(b))
  BY <1>1, ConcatAdjacentSubSeq
<1>3. SubSeq(b, 1, Len(b)) = b
  BY SubSeqFull
<1>4. \A i \in 1..k : b[i] \in S
  BY <1>1, ElementOfSeq
<1>5. /\ SubSeq(b, 1, k) \in Seq(S)
      /\ Len(SubSeq(b, 1, k)) = IF 1 <= k THEN k - 1 + 1 ELSE 0
  BY <1>1, <1>4, SubSeqProperties
<1>6. Len(SubSeq(b, 1, k)) = k
  BY <1>1, <1>5
<1>7. SubSeq(b, 1, k) \o Rest(b, k) = b
  BY <1>2, <1>3 DEF Rest
<1>8. QED
  BY <1>5, <1>6, <1>7

LEMMA RestOfLonger ==
  ASSUME NEW S, NEW s \in Seq(S), NEW t \in Seq(S), NEW k \in 0..Len(s)
  PROVE  Rest(s \o t, k) = Rest(s, k) \o t
<1>1. /\ Len(s) \in Nat /\ Len(t) \in Nat /\ s \o t \in Seq(S)
      /\ Len(s \o t) = Len(s) + Len(t)
      /\ \A i \in 1..(Len(s) + Len(t)) : (s \o t)[i] =
           IF i <= Len(s) THEN s[i] ELSE t[i - Len(s)]
  BY ConcatProperties
<1>2. k \in 0..Len(s \o t) /\ k \in Nat
  BY <1>1
<1>3. /\ Rest(s, k) \in Seq(S) /\ Len(Rest(s, k)) = Len(s) - k
      /\ \A i \in 1..(Len(s) - k) : Rest(s, k)[i] = s[k + i]
  BY RestElements
<1>4. /\ Rest(s \o t, k) \in Seq(S) /\ Len(Rest(s \o t, k)) = Len(s \o t) - k
      /\ \A i \in 1..(Len(s \o t) - k) : Rest(s \o t, k)[i] = (s \o t)[k + i]
  <2> DEFINE c == s \o t
  <2>1. c \in Seq(S) /\ k \in 0..Len(c)
    BY <1>1, <1>2
  <2> HIDE DEF c
  <2>2. /\ Rest(c, k) \in Seq(S) /\ Len(Rest(c, k)) = Len(c) - k
        /\ \A i \in 1..(Len(c) - k) : Rest(c, k)[i] = c[k + i]
    BY <2>1, RestElements
  <2>3. QED
    BY <2>2 DEF c
<1>5. /\ Rest(s, k) \o t \in Seq(S)
      /\ Len(Rest(s, k) \o t) = Len(s) - k + Len(t)
      /\ \A i \in 1..(Len(s) - k + Len(t)) : (Rest(s, k) \o t)[i] =
           IF i <= Len(s) - k THEN Rest(s, k)[i] ELSE t[i - (Len(s) - k)]
  <2> DEFINE c == Rest(s, k)
  <2>1. c \in Seq(S) /\ Len(c) = Len(s) - k
    BY <1>3
  <2> HIDE DEF c
  <2>2. /\ c \o t \in Seq(S) /\ Len(c \o t) = Len(c) + Len(t)
        /\ \A i \in 1..(Len(c) + Len(t)) : (c \o t)[i] =
             IF i <= Len(c) THEN c[i] ELSE t[i - Len(c)]
    BY <2>1, ConcatProperties
  <2>3. QED
    BY <2>1, <2>2 DEF c
<1>6. Len(Rest(s \o t, k)) = Len(Rest(s, k) \o t)
  BY <1>1, <1>2, <1>4, <1>5
<1>7. ASSUME NEW i \in 1..Len(Rest(s \o t, k))
      PROVE  Rest(s \o t, k)[i] = (Rest(s, k) \o t)[i]
  <2>1. /\ i \in 1..(Len(s \o t) - k) /\ i \in 1..(Len(s) - k + Len(t))
        /\ k + i \in 1..(Len(s) + Len(t)) /\ i - (Len(s) - k) = k + i - Len(s)
        /\ (k + i <= Len(s)) <=> (i <= Len(s) - k)
    BY <1>1, <1>2, <1>4
  <2>2. Rest(s \o t, k)[i] = IF k + i <= Len(s) THEN s[k + i] ELSE t[k + i - Len(s)]
    BY <1>1, <1>4, <2>1
  <2>3. CASE i <= Len(s) - k
    <3>1. i \in 1..(Len(s) - k)
      BY <1>1, <1>2, <2>1, <2>3
    <3>2. QED
      BY <1>3, <1>5, <2>1, <2>2, <2>3, <3>1
  <2>4. CASE ~(i <= Len(s) - k)
    <3>1. (Rest(s, k) \o t)[i] = t[k + i - Len(s)]
      BY <1>5, <2>1, <2>4
    <3>2. QED
      BY <2>1, <2>2, <2>4, <3>1
  <2>5. QED
    BY <2>3, <2>4
<1>8. QED
  BY <1>4, <1>5, <1>6, <1>7, SeqEqual

\* What is behind the first octets is a suffix.
LEMMA RestIsSuffix ==
  ASSUME NEW S, NEW b \in Seq(S), NEW k \in 0..Len(b)
  PROVE  IsSuffix(Rest(b, k), b)
<1> DEFINE s == Rest(b, k)
<1>1. /\ Len(b) \in Nat /\ k \in Nat /\ s \in Seq(S) /\ Len(s) = Len(b) - k
      /\ \A i \in 1..(Len(b) - k) : s[i] = b[k + i]
  BY RestElements
<1> HIDE DEF s
<1>2. ASSUME NEW c \in Seq(S)
      PROVE  /\ Reverse(c) \in Seq(S) /\ Len(Reverse(c)) = Len(c)
             /\ \A i \in 1..Len(c) : Reverse(c)[i] = c[Len(c) - i + 1]
  <2>1. Len(c) \in Nat
    OBVIOUS
  <2>2. \A i \in 1..Len(c) : Len(c) - i + 1 \in 1..Len(c)
    BY <2>1
  <2>3. \A i \in 1..Len(c) : c[Len(c) - i + 1] \in S
    BY <2>2, ElementOfSeq
  <2>4. QED
    BY <2>1, <2>3 DEF Reverse
<1>3. /\ Reverse(s) \in Seq(S) /\ Len(Reverse(s)) = Len(b) - k
      /\ \A i \in 1..Len(s) : Reverse(s)[i] = s[Len(s) - i + 1]
  BY <1>1, <1>2
<1>4. /\ Reverse(b) \in Seq(S) /\ Len(Reverse(b)) = Len(b)
      /\ \A i \in 1..Len(b) : Reverse(b)[i] = b[Len(b) - i + 1]
  BY <1>2
<1>5. Len(Reverse(s)) <= Len(Reverse(b))
  BY <1>1, <1>3, <1>4
<1>6. ASSUME NEW i \in 1..Len(Reverse(s)) PROVE Reverse(b)[i] = Reverse(s)[i]
  <2>1. /\ i \in 1..Len(s) /\ i \in 1..Len(b) /\ Len(s) - i + 1 \in 1..(Len(b) - k)
        /\ k + (Len(s) - i + 1) = Len(b) - i + 1
    BY <1>1, <1>3
  <2>2. Reverse(s)[i] = s[Len(s) - i + 1]
    BY <1>3, <2>1
  <2>3. s[Len(s) - i + 1] = b[k + (Len(s) - i + 1)]
    BY <1>1, <2>1
  <2>4. Reverse(b)[i] = b[Len(b) - i + 1]
    BY <1>4, <2>1
  <2>5. QED
    BY <2>1, <2>2, <2>3, <2>4
<1>7. Begins(Reverse(s), Reverse(b))
  BY <1>5, <1>6 DEF Begins
<1>8. SubSeq(Reverse(b), 1, Len(Reverse(s))) = SubSeq(Reverse(s), 1, Len(Reverse(s)))
  <2> DEFINE rs == Reverse(s)
             rb == Reverse(b)
  <2>1. /\ Len(rs) \in Int /\ Len(rs) <= Len(rs) /\ 1 \in Nat \ {0}
        /\ rs \in Seq(S) /\ rb \in Seq(S) /\ Begins(rs, rb)
    BY <1>1, <1>3, <1>4, <1>7
  <2> HIDE DEF rs, rb
  <2>2. SubSeq(rb, 1, Len(rs)) = SubSeq(rs, 1, Len(rs))
    BY <2>1, SubSeqAgrees
  <2>3. QED
    BY <2>2 DEF rs, rb
<1>9. QED
  BY <1>5, <1>8 DEF IsSuffix, IsPrefix, s

-----------------------------------------------------------------------------
(* Loops that go forward.                                                  *)

\* The same indices from the other end.
Mirror(lo, hi, i) == lo + hi - i

LEMMA MirrorIsMirror ==
  ASSUME NEW lo \in Int, NEW hi \in Int, NEW i \in lo..hi
  PROVE  Mirror(lo, hi, i) \in lo..hi /\ Mirror(lo, hi, Mirror(lo, hi, i)) = i
BY DEF Mirror

\* What holds at an index when it holds at all earlier ones holds everywhere.
LEMMA ForwardInduction ==
  ASSUME NEW lo \in Int, NEW hi \in Int, NEW T,
         \A i \in lo..hi : (\A j \in lo..(i - 1) : j \in T) => i \in T
  PROVE  \A i \in lo..hi : i \in T
<1> DEFINE U == {i \in lo..hi : Mirror(lo, hi, i) \in T}
<1>1. ASSUME NEW i \in lo..hi, \A j \in (i + 1)..hi : j \in U
      PROVE  i \in U
  <2>1. ASSUME NEW j \in lo..(Mirror(lo, hi, i) - 1) PROVE j \in T
    <3>1. j \in lo..hi /\ Mirror(lo, hi, j) \in (i + 1)..hi
      BY DEF Mirror
    <3>2. Mirror(lo, hi, Mirror(lo, hi, j)) = j
      BY <3>1, MirrorIsMirror
    <3>3. QED
      BY <1>1, <3>1, <3>2
  <2>2. Mirror(lo, hi, i) \in lo..hi
    BY MirrorIsMirror
  <2>3. QED
    BY <2>1, <2>2
<1>2. \A i \in lo..hi : i \in U
  <2> HIDE DEF U
  <2>1. QED
    BY <1>1, BackwardInduction
<1>3. ASSUME NEW i \in lo..hi PROVE i \in T
  <2>1. Mirror(lo, hi, i) \in U /\ Mirror(lo, hi, Mirror(lo, hi, i)) = i
    BY <1>2, MirrorIsMirror
  <2>2. QED
    BY <2>1
<1>4. QED
  BY <1>3

\* A step that uses what was found at earlier indices, and the loop it makes.
IsForwardStep(F, lo, hi, V) ==
  /\ V # {}
  /\ F \in [(lo..hi) \X [lo..hi -> V] -> V]
  /\ \A i \in lo..hi : \A g, h \in [lo..hi -> V] :
       (\A j \in lo..(i - 1) : g[j] = h[j]) => F[<<i, g>>] = F[<<i, h>>]

\* A loop whose turn looks at earlier indices only is a function, too.
LEMMA ForwardRecursion ==
  ASSUME NEW lo \in Int, NEW hi \in Int, NEW V, NEW F, IsForwardStep(F, lo, hi, V)
  PROVE  \E f : IsLoop(f, F, lo, hi, V)
<1> DEFINE D == lo..hi
           M(g) == [j \in D |-> g[Mirror(lo, hi, j)]]
           G == [p \in D \X [D -> V] |-> F[<<Mirror(lo, hi, p[1]), M(p[2])>>]]
<1>1. /\ V # {} /\ F \in [D \X [D -> V] -> V]
      /\ \A i \in D : \A g, h \in [D -> V] :
           (\A j \in lo..(i - 1) : g[j] = h[j]) => F[<<i, g>>] = F[<<i, h>>]
  BY DEF IsForwardStep
<1>2. \A i \in D : Mirror(lo, hi, i) \in D /\ Mirror(lo, hi, Mirror(lo, hi, i)) = i
  BY MirrorIsMirror
<1>3. \A g \in [D -> V] : M(g) \in [D -> V]
  BY <1>2
<1>4. G \in [D \X [D -> V] -> V]
  <2>1. ASSUME NEW i \in D, NEW g \in [D -> V]
        PROVE  F[<<Mirror(lo, hi, i), M(g)>>] \in V
    <3>1. <<Mirror(lo, hi, i), M(g)>> \in D \X [D -> V]
      BY <1>2, <1>3
    <3>2. QED
      BY <1>1, <3>1
  <2>2. QED
    BY <2>1
<1>5. ASSUME NEW i \in D, NEW g \in [D -> V], NEW h \in [D -> V],
             \A j \in (i + 1)..hi : g[j] = h[j]
      PROVE  G[<<i, g>>] = G[<<i, h>>]
  <2>1. ASSUME NEW j \in lo..(Mirror(lo, hi, i) - 1) PROVE M(g)[j] = M(h)[j]
    <3>1. j \in D /\ Mirror(lo, hi, j) \in (i + 1)..hi
      BY DEF Mirror
    <3>2. QED
      BY <1>5, <3>1
  <2>2. F[<<Mirror(lo, hi, i), M(g)>>] = F[<<Mirror(lo, hi, i), M(h)>>]
    <3> HIDE DEF M
    <3>1. QED
      BY <1>1, <1>2, <1>3, <2>1
  <2>3. QED
    BY <2>2
<1>6. PICK f : IsLoop(f, G, lo, hi, V)
  <2> HIDE DEF G
  <2>1. IsStep(G, lo, hi, V)
    BY <1>1, <1>4, <1>5 DEF IsStep
  <2>2. QED
    BY <2>1, BackwardRecursion
<1>7. f \in [D -> V] /\ \A i \in D : f[i] = F[<<Mirror(lo, hi, i), M(f)>>]
  BY <1>6 DEF IsLoop
<1>8. ASSUME NEW i \in D PROVE M(f)[i] = F[<<i, M(f)>>]
  BY <1>2, <1>7
<1>9. QED
  <2> HIDE DEF M
  <2>1. QED
    BY <1>3, <1>7, <1>8 DEF IsLoop

-----------------------------------------------------------------------------
(* Numbers.                                                                *)

LEMMA NumeralValues ==
  \A k \in 0..9 : Numerals[k + 1] \in Digits /\ ValueOf(Numerals[k + 1]) = k
<1>1. /\ Numerals[1] = "0" /\ Numerals[2] = "1" /\ Numerals[3] = "2" /\ Numerals[4] = "3"
      /\ Numerals[5] = "4" /\ Numerals[6] = "5" /\ Numerals[7] = "6" /\ Numerals[8] = "7"
      /\ Numerals[9] = "8" /\ Numerals[10] = "9" /\ DOMAIN Numerals = 1..10
  BY DEF Numerals
<1>2. \A i, j \in 1..10 : Numerals[i] = Numerals[j] => i = j
  <2>1. ASSUME NEW i \in 1..10, NEW j \in 1..10, i # j PROVE Numerals[i] # Numerals[j]
    <3>1. i \in {1, 2, 3, 4, 5, 6, 7, 8, 9, 10} /\ j \in {1, 2, 3, 4, 5, 6, 7, 8, 9, 10}
      OBVIOUS
    <3>2. QED
      BY <1>1, <2>1, <3>1
  <2>2. QED
    BY <2>1
<1>3. ASSUME NEW k \in 0..9
      PROVE  Numerals[k + 1] \in Digits /\ ValueOf(Numerals[k + 1]) = k
  <2>1. k + 1 \in DOMAIN Numerals
    BY <1>1
  <2>2. \A i \in DOMAIN Numerals : Numerals[i] = Numerals[k + 1] <=> i = k + 1
    BY <1>1, <1>2, <2>1
  <2>3. (CHOOSE i \in DOMAIN Numerals : Numerals[i] = Numerals[k + 1]) = k + 1
    BY <2>1, <2>2
  <2>4. ValueOf(Numerals[k + 1]) = k
    <3>1. ValueOf(Numerals[k + 1]) = (k + 1) - 1
      BY <2>3 DEF ValueOf
    <3>2. QED
      BY <3>1
  <2>5. Numerals[k + 1] \in Digits
    BY <2>1 DEF Digits, ToSet
  <2>6. QED
    BY <2>4, <2>5
<1>4. QED
  BY <1>3

LEMMA DigitValue ==
  ASSUME NEW d \in Digits
  PROVE  ValueOf(d) \in Nat /\ d \in Octet /\ d # "+"
         /\ d \notin AtomSpecials \cup Whitespace \cup Control
         /\ d \notin {Quote, Brace, "(", ")", Backslash}
<1>1. PICK i \in DOMAIN Numerals : d = Numerals[i]
  BY DEF Digits, ToSet
<1>2. DOMAIN Numerals = 1..10
  BY DEF Numerals
<1>3. i - 1 \in 0..9 /\ (i - 1) + 1 = i
  BY <1>2
<1>4. ValueOf(d) \in Nat
  BY <1>1, <1>3, NumeralValues
<1>5. d \in {"0", "1", "2", "3", "4", "5", "6", "7", "8", "9"}
  <2>1. i \in {1, 2, 3, 4, 5, 6, 7, 8, 9, 10}
    BY <1>2
  <2>2. QED
    BY <1>1, <2>1 DEF Numerals
<1>6. d \in Octet /\ d # "+"
  <2>1. Digits \subseteq Octet
    BY LexerAssumption
  <2>2. d # "+"
    BY <1>5
  <2>3. QED
    BY <2>1, <2>2
<1>7. /\ d \notin AtomSpecials \cup Whitespace \cup Control
      /\ d \notin {Quote, Brace, "(", ")", Backslash}
  BY <1>5 DEF AtomSpecials, Whitespace, Control, QuotedSpecials, Quote, Brace, Backslash, CR, LF
<1>8. QED
  BY <1>4, <1>6, <1>7

\* Number is its loop to the last digit.
NumberIndices(digits) == 0..Len(digits)

LEMMA NumberLoop ==
  ASSUME NEW digits \in Seq(Digits)
  PROVE  \E f \in [NumberIndices(digits) -> Nat] :
            /\ \A i \in NumberIndices(digits) : f[i] = NumberAt(digits, i, f)
            /\ Number(digits) = f[Len(digits)]
<1> DEFINE n == Len(digits)
           D == 0..n
           F == [p \in D \X [D -> Nat] |-> NumberAt(digits, p[1], p[2])]
<1>1. n \in Nat /\ 0 \in Int /\ n \in Int /\ D = NumberIndices(digits)
  BY DEF NumberIndices
<1>2. ASSUME NEW i \in D, NEW f \in [D -> Nat] PROVE NumberAt(digits, i, f) \in Nat
  <2>1. CASE i = 0
    BY <2>1 DEF NumberAt
  <2>2. CASE i # 0
    <3>1. i - 1 \in D /\ digits[i] \in Digits
      BY <1>1, <2>2, ElementOfSeq
    <3>2. ValueOf(digits[i]) \in Nat /\ f[i - 1] \in Nat
      BY <3>1, DigitValue
    <3>3. QED
      BY <2>2, <3>2 DEF NumberAt
  <2>3. QED
    BY <2>1, <2>2
<1>3. ASSUME NEW i \in D, NEW f, NEW g, \A j \in 0..(i - 1) : f[j] = g[j]
      PROVE  NumberAt(digits, i, f) = NumberAt(digits, i, g)
  <2>1. i # 0 => i - 1 \in 0..(i - 1)
    BY <1>1
  <2>2. QED
    BY <1>3, <2>1 DEF NumberAt
<1>4. F \in [D \X [D -> Nat] -> Nat]
  BY <1>2
<1>5. \A i \in D : \A g, h \in [D -> Nat] :
        (\A j \in 0..(i - 1) : g[j] = h[j]) => F[<<i, g>>] = F[<<i, h>>]
  BY <1>3
<1>6. PICK f : IsLoop(f, F, 0, n, Nat)
  <2> HIDE DEF F
  <2>1. IsForwardStep(F, 0, n, Nat)
    BY <1>4, <1>5 DEF IsForwardStep
  <2>2. QED
    BY <1>1, <2>1, ForwardRecursion
<1>7. f \in [D -> Nat] /\ \A i \in D : f[i] = NumberAt(digits, i, f)
  BY <1>6 DEF IsLoop
<1>8. ASSUME NEW g, g = [i \in D |-> NumberAt(digits, i, g)]
      PROVE  g = f
  <2> DEFINE T == {i \in D : g[i] = f[i]}
  <2>1. ASSUME NEW i \in D, \A j \in 0..(i - 1) : j \in T PROVE i \in T
    <3>1. NumberAt(digits, i, g) = NumberAt(digits, i, f)
      BY <1>3, <2>1
    <3>2. QED
      BY <1>7, <1>8, <3>1
  <2>2. \A i \in D : i \in T
    <3> HIDE DEF T
    <3>1. QED
      BY <1>1, <2>1, ForwardInduction
  <2>3. g = [i \in D |-> g[i]]
    BY <1>8
  <2>4. f = [i \in D |-> f[i]]
    BY <1>7
  <2>5. \A i \in D : g[i] = f[i]
    BY <2>2
  <2>6. QED
    BY <2>3, <2>4, <2>5
<1>9. f = [i \in D |-> NumberAt(digits, i, f)]
  BY <1>7
<1>10. Number(digits) = f[n]
  <2>1. Number(digits) = (CHOOSE g : g = [i \in D |-> NumberAt(digits, i, g)])[n]
    BY DEF Number
  <2>2. (CHOOSE g : g = [i \in D |-> NumberAt(digits, i, g)]) = f
    BY <1>8, <1>9
  <2>3. QED
    BY <2>1, <2>2
<1>11. QED
  BY <1>1, <1>7, <1>10

\* A digit more.
LEMMA NumberOfMore ==
  ASSUME NEW digits \in Seq(Digits), NEW k \in 0..9
  PROVE  /\ Number(digits) \in Nat
         /\ Number(digits \o << Numerals[k + 1] >>) = 10 * Number(digits) + k
<1> DEFINE d == Numerals[k + 1]
           more == digits \o << d >>
           n == Len(digits)
<1>1. d \in Digits /\ ValueOf(d) = k /\ n \in Nat
  BY NumeralValues
<1> HIDE DEF d
<1>2. << d >> \in Seq(Digits) /\ Len(<< d >>) = 1
  BY <1>1
<1>3. /\ more \in Seq(Digits) /\ Len(more) = n + 1
      /\ \A i \in 1..(n + 1) : more[i] = IF i <= n THEN digits[i] ELSE << d >>[i - n]
  BY <1>2, ConcatProperties
<1> HIDE DEF more
<1>4. PICK f \in [NumberIndices(digits) -> Nat] :
         /\ \A i \in NumberIndices(digits) : f[i] = NumberAt(digits, i, f)
         /\ Number(digits) = f[n]
  BY NumberLoop
<1>5. PICK g \in [NumberIndices(more) -> Nat] :
         /\ \A i \in NumberIndices(more) : g[i] = NumberAt(more, i, g)
         /\ Number(more) = g[n + 1]
  BY <1>3, NumberLoop
<1>6. \A i \in 0..n : g[i] = f[i]
  <2> DEFINE T == {i \in 0..n : g[i] = f[i]}
  <2>1. ASSUME NEW i \in 0..n, \A j \in 0..(i - 1) : j \in T PROVE i \in T
    <3>1. g[i] = NumberAt(more, i, g) /\ f[i] = NumberAt(digits, i, f)
      BY <1>1, <1>3, <1>4, <1>5 DEF NumberIndices
    <3>2. i # 0 => g[i - 1] = f[i - 1] /\ more[i] = digits[i]
      <4>1. i # 0 => i - 1 \in 0..(i - 1) /\ i \in 1..(n + 1) /\ i <= n
        BY <1>1
      <4>2. QED
        BY <1>3, <2>1, <4>1
    <3>3. QED
      BY <3>1, <3>2 DEF NumberAt
  <2>2. 0 \in Int /\ n \in Int
    BY <1>1
  <2> HIDE DEF T
  <2>3. \A i \in 0..n : i \in T
    BY <2>1, <2>2, ForwardInduction
  <2>4. QED
    BY <2>3 DEF T
<1>7. n + 1 \in NumberIndices(more) /\ n + 1 # 0 /\ (n + 1) - 1 = n /\ n \in 0..n
  BY <1>1, <1>3 DEF NumberIndices
<1>8. more[n + 1] = d
  <2>1. n + 1 \in 1..(n + 1) /\ ~ (n + 1 <= n) /\ (n + 1) - n = 1
    BY <1>1
  <2>2. QED
    BY <1>3, <2>1
<1>9. g[n + 1] = 10 * g[n] + ValueOf(more[n + 1])
  BY <1>5, <1>7 DEF NumberAt
<1>10. f[n] \in Nat
  BY <1>1, <1>4 DEF NumberIndices
<1>11. QED
  BY <1>1, <1>4, <1>5, <1>6, <1>7, <1>8, <1>9, <1>10 DEF more, d

\* A number in decimal is the digits that are read as that number.
LEMMA DecimalAtType ==
  ASSUME NEW n \in Nat, NEW f \in [0..n -> Seq(Digits)], NEW k \in 0..n
  PROVE  DecimalAt(k, f) \in Seq(Digits)
<1>1. CASE k < 10
  <2>1. k \in 0..9
    BY <1>1
  <2>2. Numerals[k + 1] \in Digits
    BY <2>1, NumeralValues
  <2>3. QED
    BY <1>1, <2>2 DEF DecimalAt
<1>2. CASE ~ (k < 10)
  <2>1. k \div 10 \in 0..n /\ k % 10 \in 0..9
    BY <1>2
  <2>2. f[k \div 10] \in Seq(Digits) /\ Numerals[(k % 10) + 1] \in Digits
    BY <2>1, NumeralValues
  <2>3. << Numerals[(k % 10) + 1] >> \in Seq(Digits)
    BY <2>2
  <2>4. QED
    BY <1>2, <2>2, <2>3, ConcatProperties DEF DecimalAt
<1>3. QED
  BY <1>1, <1>2

LEMMA DecimalAtLocal ==
  ASSUME NEW k \in Nat, NEW f, NEW g, \A j \in 0..(k - 1) : f[j] = g[j]
  PROVE  DecimalAt(k, f) = DecimalAt(k, g)
<1>1. ~ (k < 10) => k \div 10 \in 0..(k - 1)
  OBVIOUS
<1>2. QED
  BY <1>1 DEF DecimalAt

LEMMA DecimalLoop ==
  ASSUME NEW n \in Nat
  PROVE  \E f \in [0..n -> Seq(Digits)] :
            /\ \A k \in 0..n : f[k] = DecimalAt(k, f)
            /\ Decimal(n) = f[n]
<1> DEFINE D == 0..n
           V == Seq(Digits)
           F == [p \in D \X [D -> V] |-> DecimalAt(p[1], p[2])]
<1>1. 0 \in Int /\ n \in Int /\ V # {} /\ \A i \in D : i \in Nat
  <2>1. <<>> \in V
    OBVIOUS
  <2>2. \A i \in D : i \in Nat
    OBVIOUS
  <2> HIDE DEF F, V, D
  <2>3. QED
    BY <2>1, <2>2
<1>2. F \in [D \X [D -> V] -> V]
  BY DecimalAtType
<1>3. \A i \in D : \A g, h \in [D -> V] :
        (\A j \in 0..(i - 1) : g[j] = h[j]) => F[<<i, g>>] = F[<<i, h>>]
  <2>1. ASSUME NEW i \in D, NEW g \in [D -> V], NEW h \in [D -> V],
               \A j \in 0..(i - 1) : g[j] = h[j]
        PROVE  DecimalAt(i, g) = DecimalAt(i, h)
    BY <1>1, <2>1, DecimalAtLocal
  <2>2. QED
    BY <2>1
<1>4. PICK f : IsLoop(f, F, 0, n, V)
  <2> HIDE DEF F, V
  <2>1. IsForwardStep(F, 0, n, V)
    BY <1>1, <1>2, <1>3 DEF IsForwardStep
  <2>2. QED
    BY <1>1, <2>1, ForwardRecursion
<1>5. f \in [D -> V] /\ \A k \in D : f[k] = DecimalAt(k, f)
  BY <1>4 DEF IsLoop
<1>6. ASSUME NEW g, g = [k \in D |-> DecimalAt(k, g)]
      PROVE  g = f
  <2> DEFINE T == {i \in D : g[i] = f[i]}
  <2>1. ASSUME NEW i \in D, \A j \in 0..(i - 1) : j \in T PROVE i \in T
    <3>1. DecimalAt(i, g) = DecimalAt(i, f)
      BY <1>1, <2>1, DecimalAtLocal
    <3>2. QED
      BY <1>5, <1>6, <3>1
  <2>2. \A i \in D : i \in T
    <3> HIDE DEF T
    <3>1. QED
      BY <1>1, <2>1, ForwardInduction
  <2>3. g = [i \in D |-> g[i]]
    BY <1>6
  <2>4. f = [i \in D |-> f[i]]
    BY <1>5
  <2>5. \A i \in D : g[i] = f[i]
    BY <2>2
  <2>6. QED
    BY <2>3, <2>4, <2>5
<1>7. f = [k \in D |-> DecimalAt(k, f)]
  BY <1>5
<1>8. Decimal(n) = f[n]
  <2>1. Decimal(n) = (CHOOSE g : g = [k \in D |-> DecimalAt(k, g)])[n]
    BY DEF Decimal
  <2>2. (CHOOSE g : g = [k \in D |-> DecimalAt(k, g)]) = f
    BY <1>6, <1>7
  <2>3. QED
    BY <2>1, <2>2
<1>9. QED
  BY <1>5, <1>8

\* A size in decimal (the marker of literal) is read back as that size.
LEMMA DecimalIsNumber ==
  ASSUME NEW n \in Nat
  PROVE  /\ Decimal(n) \in Seq(Digits) /\ Decimal(n) # <<>>
         /\ Number(Decimal(n)) = n
<1>1. PICK f \in [0..n -> Seq(Digits)] :
         /\ \A k \in 0..n : f[k] = DecimalAt(k, f)
         /\ Decimal(n) = f[n]
  BY DecimalLoop
<1> DEFINE T == {k \in 0..n : f[k] # <<>> /\ Number(f[k]) = k}
<1>2. ASSUME NEW k \in 0..n, \A j \in 0..(k - 1) : j \in T PROVE k \in T
  <2>1. CASE k < 10
    <3>1. k \in 0..9 /\ f[k] = << Numerals[k + 1] >> /\ f[k] # <<>>
      <4>1. f[k] = DecimalAt(k, f)
        BY <1>1
      <4>2. f[k] = << Numerals[k + 1] >>
        BY <2>1, <4>1 DEF DecimalAt
      <4>3. k \in 0..9
        BY <2>1
      <4>4. QED
        BY <4>2, <4>3
    <3>2. << Numerals[k + 1] >> = <<>> \o << Numerals[k + 1] >> /\ <<>> \in Seq(Digits)
      OBVIOUS
    <3>3. Number(f[k]) = 10 * Number(<<>>) + k
      BY <3>1, <3>2, NumberOfMore
    <3>4. Number(<<>>) = 0
      <4>1. PICK g \in [NumberIndices(<<>>) -> Nat] :
               /\ \A i \in NumberIndices(<<>>) : g[i] = NumberAt(<<>>, i, g)
               /\ Number(<<>>) = g[Len(<<>>)]
        BY <3>2, NumberLoop
      <4>2. Len(<<>>) = 0 /\ 0 \in NumberIndices(<<>>)
        BY DEF NumberIndices
      <4>3. QED
        BY <4>1, <4>2 DEF NumberAt
    <3>5. Number(f[k]) = k
      BY <3>1, <3>3, <3>4
    <3>6. QED
      BY <3>1, <3>5
  <2>2. CASE ~ (k < 10)
    <3>1. k \div 10 \in 0..(k - 1) /\ k \div 10 \in 0..n /\ k % 10 \in 0..9
          /\ k = 10 * (k \div 10) + (k % 10)
      BY <2>2
    <3> DEFINE q == k \div 10
               r == k % 10
    <3>2. f[k] = f[q] \o << Numerals[r + 1] >>
      BY <1>1, <2>2 DEF DecimalAt
    <3>3. f[q] \in Seq(Digits) /\ Number(f[q]) = q
      BY <1>1, <1>2, <3>1
    <3>4. Number(f[k]) = 10 * q + r
      <4> HIDE DEF q, r
      <4>1. r \in 0..9
        BY <3>1 DEF r
      <4>2. QED
        BY <3>2, <3>3, <4>1, NumberOfMore
    <3>5. f[k] # <<>>
      <4> HIDE DEF q, r
      <4>1. << Numerals[r + 1] >> \in Seq(Digits) /\ << Numerals[r + 1] >> # <<>>
        <5>1. r \in 0..9
          BY <3>1 DEF r
        <5>2. Numerals[r + 1] \in Digits
          BY <5>1, NumeralValues
        <5>3. QED
          BY <5>2
      <4>2. QED
        BY <3>2, <3>3, <4>1, ConcatEqualIffEmpty
    <3>6. QED
      BY <3>1, <3>4, <3>5
  <2>3. QED
    BY <2>1, <2>2
<1>3. \A k \in 0..n : k \in T
  <2>1. 0 \in Int /\ n \in Int
    OBVIOUS
  <2> HIDE DEF T
  <2>2. QED
    BY <1>2, <2>1, ForwardInduction
<1>4. n \in 0..n
  OBVIOUS
<1>5. QED
  BY <1>1, <1>3, <1>4

-----------------------------------------------------------------------------
(* A quoted string wherever it is.                                         *)

\* What a loop of lex_quoted finds, seen from an index d further on.
Moved(r, d) == [err |-> r.err, string |-> r.string, next |-> r.next + d]
Pushing(octet, r) == [err |-> r.err, string |-> << octet >> \o r.string, next |-> r.next]

LEMMA PushingIsPush ==
  ASSUME NEW E, NEW S, NEW N, NEW r \in [err : E, string : S, next : N], NEW string
  PROVE  [r EXCEPT !.string = string] = [err |-> r.err, string |-> string, next |-> r.next]
OBVIOUS

\* One turn of the loop of lex_quoted, by the octet it is at.
LEMMA QuotedTurn ==
  ASSUME NEW segment \in Seq(Octet), NEW open \in 1..Len(segment),
         NEW i \in QuotedIndices(segment, open), i <= Len(segment),
         NEW f \in [QuotedIndices(segment, open) -> QuotedResults(segment, open)]
  PROVE  /\ segment[i] = Quote =>
              QuotedAt(segment, i, f) = [err |-> Fine, string |-> <<>>, next |-> i + 1]
         /\ segment[i] \notin QuotedSpecials =>
              QuotedAt(segment, i, f) = Pushing(segment[i], f[i + 1])
         /\ segment[i] = Backslash /\ i = Len(segment) =>
              QuotedAt(segment, i, f) =
                [err |-> "UnterminatedQuoted", string |-> <<>>, next |-> Len(segment) + 1]
         /\ segment[i] = Backslash /\ i # Len(segment) /\ segment[i + 1] \notin QuotedSpecials =>
              QuotedAt(segment, i, f) =
                [err |-> "InvalidEscape", string |-> <<>>, next |-> Len(segment) + 1]
         /\ segment[i] = Backslash /\ i # Len(segment) /\ segment[i + 1] \in QuotedSpecials =>
              QuotedAt(segment, i, f) = Pushing(segment[i + 1], f[i + 2])
<1>1. /\ Len(segment) \in Nat /\ i \in Nat /\ ~ (i > Len(segment)) /\ Backslash # Quote
      /\ i + 1 \in QuotedIndices(segment, open)
      /\ i # Len(segment) => i + 2 \in QuotedIndices(segment, open)
  BY DEF QuotedIndices, Backslash, Quote
<1>2. ASSUME NEW k \in QuotedIndices(segment, open), NEW octet
      PROVE  [f[k] EXCEPT !.string = << octet >> \o @] = Pushing(octet, f[k])
  <2> DEFINE string == << octet >> \o f[k].string
  <2>1. f[k] \in [err : Errors, string : Seq(Octet), next : QuotedIndices(segment, open)]
    BY DEF QuotedResults
  <2> HIDE DEF string
  <2>2. [f[k] EXCEPT !.string = string] =
          [err |-> f[k].err, string |-> string, next |-> f[k].next]
    BY <2>1, PushingIsPush
  <2>3. QED
    BY <2>2 DEF Pushing, string
<1>3. segment[i] = Quote =>
        QuotedAt(segment, i, f) = [err |-> Fine, string |-> <<>>, next |-> i + 1]
  BY <1>1 DEF QuotedAt
<1>4. ASSUME segment[i] \notin QuotedSpecials
      PROVE  QuotedAt(segment, i, f) = Pushing(segment[i], f[i + 1])
  <2>1. segment[i] # Quote /\ segment[i] # Backslash
    BY <1>4 DEF QuotedSpecials
  <2>2. QuotedAt(segment, i, f) = [f[i + 1] EXCEPT !.string = << segment[i] >> \o @]
    BY <1>1, <2>1 DEF QuotedAt
  <2>3. QED
    BY <1>1, <1>2, <2>2
<1>5. segment[i] = Backslash /\ i = Len(segment) =>
        QuotedAt(segment, i, f) =
          [err |-> "UnterminatedQuoted", string |-> <<>>, next |-> Len(segment) + 1]
  BY <1>1 DEF QuotedAt
<1>6. segment[i] = Backslash /\ i # Len(segment) /\ segment[i + 1] \notin QuotedSpecials =>
        QuotedAt(segment, i, f) =
          [err |-> "InvalidEscape", string |-> <<>>, next |-> Len(segment) + 1]
  BY <1>1 DEF QuotedAt
<1>7. ASSUME segment[i] = Backslash, i # Len(segment), segment[i + 1] \in QuotedSpecials
      PROVE  QuotedAt(segment, i, f) = Pushing(segment[i + 1], f[i + 2])
  <2>1. QuotedAt(segment, i, f) = [f[i + 2] EXCEPT !.string = << segment[i + 1] >> \o @]
    BY <1>1, <1>7 DEF QuotedAt
  <2>2. QED
    BY <1>1, <1>2, <1>7, <2>1
<1>8. QED
  BY <1>3, <1>4, <1>5, <1>6, <1>7

\* Two turns over the same octets find the same.
LEMMA QuotedTurnsAgree ==
  ASSUME NEW a \in Seq(Octet), NEW o \in 1..Len(a), NEW b \in Seq(Octet), NEW p \in 1..Len(b),
         NEW d \in Int, Len(b) = Len(a) + d,
         NEW f \in [QuotedIndices(a, o) -> QuotedResults(a, o)],
         NEW g \in [QuotedIndices(b, p) -> QuotedResults(b, p)],
         NEW i \in QuotedIndices(a, o), NEW h \in QuotedIndices(b, p), h = i + d, i <= Len(a),
         b[h] = a[i], g[h + 1] = Moved(f[i + 1], d),
         i # Len(a) => b[h + 1] = a[i + 1] /\ g[h + 2] = Moved(f[i + 2], d)
  PROVE  QuotedAt(b, h, g) = Moved(QuotedAt(a, i, f), d)
<1>1. /\ h <= Len(b) /\ (h = Len(b) <=> i = Len(a)) /\ (i + 1) + d = h + 1
      /\ (Len(a) + 1) + d = Len(b) + 1
  <2>1. Len(a) \in Int /\ Len(b) \in Int /\ i \in Int /\ h \in Int
    BY DEF QuotedIndices
  <2>2. QED
    BY <2>1, SMTT(60)
<1>2. CASE a[i] = Quote
  <2>1. QuotedAt(a, i, f) = [err |-> Fine, string |-> <<>>, next |-> i + 1]
    BY <1>2, QuotedTurn
  <2>2. QuotedAt(b, h, g) = [err |-> Fine, string |-> <<>>, next |-> h + 1]
    BY <1>1, <1>2, QuotedTurn
  <2>3. QED
    BY <1>1, <2>1, <2>2 DEF Moved
<1>3. CASE a[i] \notin QuotedSpecials
  <2>1. QuotedAt(a, i, f) = Pushing(a[i], f[i + 1])
    BY <1>3, QuotedTurn
  <2>2. QuotedAt(b, h, g) = Pushing(a[i], g[h + 1])
    <3>1. b[h] \notin QuotedSpecials /\ b[h] = a[i] /\ h <= Len(b)
      BY <1>1, <1>3
    <3>2. QuotedAt(b, h, g) = Pushing(b[h], g[h + 1])
      BY <3>1, QuotedTurn
    <3>3. QED
      BY <3>1, <3>2
  <2>3. QED
    BY <2>1, <2>2 DEF Moved, Pushing
<1>4. CASE a[i] = Backslash /\ i = Len(a)
  <2>1. QuotedAt(a, i, f) = [err |-> "UnterminatedQuoted", string |-> <<>>, next |-> Len(a) + 1]
    BY <1>4, QuotedTurn
  <2>2. QuotedAt(b, h, g) = [err |-> "UnterminatedQuoted", string |-> <<>>, next |-> Len(b) + 1]
    BY <1>1, <1>4, QuotedTurn
  <2>3. QED
    BY <1>1, <2>1, <2>2 DEF Moved
<1>5. CASE a[i] = Backslash /\ i # Len(a) /\ a[i + 1] \notin QuotedSpecials
  <2>1. QuotedAt(a, i, f) = [err |-> "InvalidEscape", string |-> <<>>, next |-> Len(a) + 1]
    BY <1>5, QuotedTurn
  <2>2. QuotedAt(b, h, g) = [err |-> "InvalidEscape", string |-> <<>>, next |-> Len(b) + 1]
    BY <1>1, <1>5, QuotedTurn
  <2>3. QED
    BY <1>1, <2>1, <2>2 DEF Moved
<1>6. CASE a[i] = Backslash /\ i # Len(a) /\ a[i + 1] \in QuotedSpecials
  <2>1. QuotedAt(a, i, f) = Pushing(a[i + 1], f[i + 2])
    BY <1>6, QuotedTurn
  <2>2. QuotedAt(b, h, g) = Pushing(a[i + 1], g[h + 2])
    BY <1>1, <1>6, QuotedTurn
  <2>3. g[h + 2] = Moved(f[i + 2], d)
    BY <1>6
  <2>4. QED
    BY <2>1, <2>2, <2>3 DEF Moved, Pushing
<1>7. QED
  BY <1>2, <1>3, <1>4, <1>5, <1>6 DEF QuotedSpecials

LEMMA QuotedLoopsAgree ==
  ASSUME NEW a \in Seq(Octet), NEW o \in 1..Len(a), NEW b \in Seq(Octet), NEW p \in 1..Len(b),
         NEW k \in o..Len(a), NEW d \in Int, Len(b) = Len(a) + d, p <= k + d,
         \A i \in (k + 1)..Len(a) : b[i + d] = a[i],
         NEW f \in [QuotedIndices(a, o) -> QuotedResults(a, o)],
         NEW g \in [QuotedIndices(b, p) -> QuotedResults(b, p)],
         \A i \in QuotedIndices(a, o) : f[i] = QuotedAt(a, i, f),
         \A i \in QuotedIndices(b, p) : g[i] = QuotedAt(b, i, g)
  PROVE  \A i \in (k + 1)..(Len(a) + 1) : g[i + d] = Moved(f[i], d)
<1> DEFINE n == Len(a) + 1
           T == {i \in (k + 1)..n : g[i + d] = Moved(f[i], d)}
<1>1. /\ n \in Int /\ k + 1 \in Int /\ k \in Int /\ o \in Int /\ p \in Int /\ Len(a) \in Nat
      /\ n = Len(a) + 1
  OBVIOUS
<1> HIDE DEF n
<1>2. \A i \in (k + 1)..n : i \in QuotedIndices(a, o) /\ i + d \in QuotedIndices(b, p)
  BY <1>1 DEF QuotedIndices
<1>3. ASSUME NEW i \in (k + 1)..n, \A j \in (i + 1)..n : j \in T
      PROVE  g[i + d] = Moved(f[i], d)
  <2>1. f[i] = QuotedAt(a, i, f) /\ g[i + d] = QuotedAt(b, i + d, g)
    BY <1>2
  <2>2. CASE i = n
    <3>1. i > Len(a) /\ i + d > Len(b) /\ (Len(a) + 1) + d = Len(b) + 1
      BY <1>1, <2>2
    <3>2. /\ f[i] = [err |-> "UnterminatedQuoted", string |-> <<>>, next |-> Len(a) + 1]
          /\ g[i + d] = [err |-> "UnterminatedQuoted", string |-> <<>>, next |-> Len(b) + 1]
      BY <2>1, <3>1 DEF QuotedAt
    <3>3. QED
      BY <3>1, <3>2 DEF Moved
  <2>3. CASE i # n
    <3>1. /\ i <= Len(a) /\ i \in (k + 1)..Len(a) /\ i + 1 \in (i + 1)..n
          /\ i # Len(a) => i + 2 \in (i + 1)..n /\ i + 1 \in (k + 1)..Len(a)
          /\ (i + 1) + d = (i + d) + 1 /\ (i + 2) + d = (i + d) + 2
      BY <1>1, <2>3
    <3>2. b[i + d] = a[i] /\ (i # Len(a) => b[(i + 1) + d] = a[i + 1])
      BY <3>1
    <3>3. /\ g[(i + 1) + d] = Moved(f[i + 1], d)
          /\ i # Len(a) => g[(i + 2) + d] = Moved(f[i + 2], d)
      BY <1>3, <3>1
    <3> DEFINE h == i + d
    <3>4. /\ h = i + d /\ h \in QuotedIndices(b, p) /\ i \in QuotedIndices(a, o) /\ o \in 1..Len(a)
          /\ b[h] = a[i] /\ g[h + 1] = Moved(f[i + 1], d)
          /\ i # Len(a) => b[h + 1] = a[i + 1] /\ g[h + 2] = Moved(f[i + 2], d)
      BY <1>2, <3>1, <3>2, <3>3
    <3> HIDE DEF T, h
    <3>5. QuotedAt(b, h, g) = Moved(QuotedAt(a, i, f), d)
      BY <3>1, <3>4, QuotedTurnsAgree, ZenonT(60)
    <3>6. QED
      BY <2>1, <3>5 DEF h
  <2>4. QED
    BY <2>2, <2>3
<1>4. \A i \in (k + 1)..n : i \in T
  <2> DEFINE lo == k + 1
  <2>1. \A i \in lo..n : (\A j \in (i + 1)..n : j \in T) => i \in T
    BY <1>3
  <2>2. lo \in Int /\ n \in Int
    BY <1>1
  <2> HIDE DEF T, lo
  <2>3. \A i \in lo..n : i \in T
    BY <2>1, <2>2, BackwardInduction
  <2>4. QED
    BY <2>3 DEF lo
<1>5. QED
  BY <1>1, <1>4

\* lex_quoted depends on what is behind the opening quote only.
LEMMA QuotedMoves ==
  ASSUME NEW a \in Seq(Octet), NEW k \in 1..Len(a), NEW b \in Seq(Octet),
         NEW d \in Int, Len(b) = Len(a) + d, k + d >= 1,
         \A i \in (k + 1)..Len(a) : b[i + d] = a[i]
  PROVE  LexQuoted(b, k + d) = Moved(LexQuoted(a, k), d)
<1>1. PICK f \in [QuotedIndices(a, k) -> QuotedResults(a, k)] :
         /\ \A i \in QuotedIndices(a, k) : f[i] = QuotedAt(a, i, f)
         /\ LexQuoted(a, k) = f[k + 1]
  BY QuotedLoop
<1>2. /\ k + d \in 1..Len(b) /\ k \in k..Len(a) /\ k + d <= k + d
      /\ k + 1 \in (k + 1)..(Len(a) + 1) /\ (k + 1) + d = (k + d) + 1
  OBVIOUS
<1>3. PICK g \in [QuotedIndices(b, k + d) -> QuotedResults(b, k + d)] :
         /\ \A i \in QuotedIndices(b, k + d) : g[i] = QuotedAt(b, i, g)
         /\ LexQuoted(b, k + d) = g[(k + d) + 1]
  BY <1>2, QuotedLoop
<1>4. \A i \in (k + 1)..(Len(a) + 1) : g[i + d] = Moved(f[i], d)
  BY <1>1, <1>2, <1>3, QuotedLoopsAgree
<1>5. g[(k + 1) + d] = Moved(f[k + 1], d)
  BY <1>2, <1>4
<1>6. QED
  BY <1>1, <1>2, <1>3, <1>5

\* Each later loop over the octets of a string is the rest of an earlier one.
LEMMA QuotedFromLater ==
  ASSUME NEW segment \in Seq(Octet), NEW open \in 1..Len(segment),
         NEW f \in [QuotedIndices(segment, open) -> QuotedResults(segment, open)],
         \A i \in QuotedIndices(segment, open) : f[i] = QuotedAt(segment, i, f),
         NEW k \in open..Len(segment)
  PROVE  f[k + 1] = LexQuoted(segment, k)
<1>1. /\ k \in 1..Len(segment) /\ 0 \in Int /\ Len(segment) = Len(segment) + 0 /\ k <= k + 0
      /\ k + 1 \in (k + 1)..(Len(segment) + 1) /\ k + 1 \in QuotedIndices(segment, open)
      /\ \A i \in (k + 1)..Len(segment) : i + 0 = i /\ (k + 1) + 0 = k + 1
  BY DEF QuotedIndices
<1>2. PICK g \in [QuotedIndices(segment, k) -> QuotedResults(segment, k)] :
         /\ \A i \in QuotedIndices(segment, k) : g[i] = QuotedAt(segment, i, g)
         /\ LexQuoted(segment, k) = g[k + 1]
  BY <1>1, QuotedLoop
<1>3. \A i \in (k + 1)..Len(segment) : segment[i + 0] = segment[i]
  BY <1>1
<1>4. \A i \in (k + 1)..(Len(segment) + 1) : g[i + 0] = Moved(f[i], 0)
  BY <1>1, <1>2, <1>3, QuotedLoopsAgree
<1>5. g[k + 1] = Moved(f[k + 1], 0)
  <2>1. (k + 1) + 0 = k + 1
    OBVIOUS
  <2>2. QED
    BY <1>1, <1>4, <2>1
<1>6. f[k + 1] \in QuotedResults(segment, open)
  BY <1>1
<1>7. f[k + 1].next + 0 = f[k + 1].next
  BY <1>6 DEF QuotedResults, QuotedIndices
<1>8. Moved(f[k + 1], 0) = f[k + 1]
  BY <1>6, <1>7 DEF QuotedResults, Moved
<1>9. QED
  BY <1>2, <1>5, <1>8

\* The first octet behind the quote, and the rest.
LEMMA QuotedUnfold ==
  ASSUME NEW segment \in Seq(Octet), NEW open \in 1..Len(segment), open + 1 <= Len(segment)
  PROVE  /\ segment[open + 1] = Quote =>
              LexQuoted(segment, open) = [err |-> Fine, string |-> <<>>, next |-> open + 2]
         /\ segment[open + 1] \notin QuotedSpecials =>
              LexQuoted(segment, open) = Pushing(segment[open + 1], LexQuoted(segment, open + 1))
         /\ ( /\ segment[open + 1] = Backslash /\ open + 2 <= Len(segment)
              /\ segment[open + 2] \in QuotedSpecials ) =>
              LexQuoted(segment, open) = Pushing(segment[open + 2], LexQuoted(segment, open + 2))
<1>1. /\ Len(segment) \in Nat /\ open \in Nat /\ open + 1 \in QuotedIndices(segment, open)
      /\ open + 1 \in open..Len(segment) /\ (open + 1) + 1 = open + 2
      /\ open + 2 <= Len(segment) =>
           open + 2 \in open..Len(segment) /\ open + 1 # Len(segment)
      /\ (open + 1) + 2 = (open + 2) + 1
  BY DEF QuotedIndices
<1>2. PICK f \in [QuotedIndices(segment, open) -> QuotedResults(segment, open)] :
         /\ \A i \in QuotedIndices(segment, open) : f[i] = QuotedAt(segment, i, f)
         /\ LexQuoted(segment, open) = f[open + 1]
  BY QuotedLoop
<1>3. \A k \in open..Len(segment) : f[k + 1] = LexQuoted(segment, k)
  BY <1>2, QuotedFromLater
<1>4. f[open + 1] = QuotedAt(segment, open + 1, f)
  BY <1>1, <1>2
<1>5. ASSUME segment[open + 1] = Quote
      PROVE  LexQuoted(segment, open) = [err |-> Fine, string |-> <<>>, next |-> open + 2]
  <2>1. f[open + 1] = [err |-> Fine, string |-> <<>>, next |-> (open + 1) + 1]
    BY <1>1, <1>2, <1>4, <1>5, QuotedTurn
  <2>2. QED
    BY <1>1, <1>2, <2>1
<1>6. ASSUME segment[open + 1] \notin QuotedSpecials
      PROVE  LexQuoted(segment, open) = Pushing(segment[open + 1], LexQuoted(segment, open + 1))
  <2>1. f[(open + 1) + 1] = LexQuoted(segment, open + 1)
    BY <1>1, <1>3
  <2>2. f[open + 1] = Pushing(segment[open + 1], f[(open + 1) + 1])
    BY <1>1, <1>2, <1>4, <1>6, QuotedTurn
  <2>3. QED
    BY <1>2, <2>1, <2>2
<1>7. ASSUME segment[open + 1] = Backslash, open + 2 <= Len(segment),
             segment[open + 2] \in QuotedSpecials
      PROVE  LexQuoted(segment, open) = Pushing(segment[open + 2], LexQuoted(segment, open + 2))
  <2>1. f[(open + 2) + 1] = LexQuoted(segment, open + 2)
    BY <1>1, <1>3, <1>7
  <2>2. f[open + 1] = Pushing(segment[(open + 1) + 1], f[(open + 1) + 2])
    BY <1>1, <1>2, <1>4, <1>7, QuotedTurn
  <2>3. QED
    BY <1>1, <1>2, <2>1, <2>2
<1>8. QED
  BY <1>5, <1>6, <1>7

-----------------------------------------------------------------------------
(* Octets that are known, and octets put one after the other.              *)

LEMMA KnownOctets ==
  /\ {Quote, Backslash, Brace, CR, LF, " ", "+", "}"} \subseteq Octet
  /\ {Quote, Backslash, Brace, CR, LF, " "} \subseteq AtomSpecials
  /\ Quote # Backslash /\ Quote # Brace /\ CR # LF /\ Quote \in QuotedSpecials
  /\ Backslash \in QuotedSpecials /\ Quote # LF /\ Quote # CR /\ Backslash # LF
  /\ Brace # LF /\ " " # LF /\ " " # CR /\ "+" # LF /\ "}" # LF /\ "}" # CR
  /\ LF \in Control /\ CR \in Control
<1>1. Control \cup Whitespace \cup AtomSpecials \cup Digits \cup {"+", "}"} \subseteq Octet
  BY LexerAssumption
<1>2. {Quote, Backslash, Brace, CR, LF, " "} \subseteq AtomSpecials
  BY DEF AtomSpecials, QuotedSpecials, Control
<1>3. {Quote, Backslash, Brace, CR, LF, " ", "+", "}"} \subseteq Octet
  BY <1>1, <1>2
<1>4. QED
  BY <1>2, <1>3 DEF Quote, Backslash, Brace, CR, LF, QuotedSpecials, Control

LEMMA OneOctet ==
  ASSUME NEW x \in Octet
  PROVE  << x >> \in Seq(Octet) /\ Len(<< x >>) = 1 /\ << x >>[1] = x
OBVIOUS

LEMMA TwoElements ==
  ASSUME NEW S, NEW x \in S, NEW y \in S
  PROVE  << x, y >> \in Seq(S) /\ Len(<< x, y >>) = 2 /\ << x, y >> = << x >> \o << y >>
<1>1. << x, y >> \in Seq(S) /\ Len(<< x, y >>) = 2
  OBVIOUS
<1>2. << x, y >> = << x >> \o << y >>
  <2> DEFINE s == << x >>
             t == << y >>
  <2>1. s \in Seq(S) /\ t \in Seq(S) /\ Len(s) = 1 /\ Len(t) = 1 /\ s[1] = x /\ t[1] = y
    OBVIOUS
  <2> HIDE DEF s, t
  <2>2. s \o t \in Seq(S) /\ Len(s \o t) = 2 /\ (s \o t)[1] = x /\ (s \o t)[2] = y
    BY <2>1, ConcatProperties
  <2> DEFINE u == s \o t
             w == << x, y >>
  <2>3. w \in Seq(S) /\ Len(w) = 2 /\ w[1] = x /\ w[2] = y
    OBVIOUS
  <2>4. u \in Seq(S) /\ Len(u) = 2 /\ u[1] = x /\ u[2] = y
    BY <2>2
  <2> HIDE DEF u, w
  <2>5. \A i \in 1..Len(w) : w[i] = u[i]
    BY <2>3, <2>4
  <2>6. w = u
    BY <2>3, <2>4, <2>5, SeqEqual
  <2>7. QED
    BY <2>6 DEF u, w, s, t
<1>3. QED
  BY <1>1, <1>2

LEMMA TwoOctets ==
  ASSUME NEW x \in Octet, NEW y \in Octet
  PROVE  << x, y >> \in Seq(Octet) /\ Len(<< x, y >>) = 2 /\ << x, y >> = << x >> \o << y >>
BY TwoElements

LEMMA OctetsAssociate ==
  \A s, t, u \in Seq(Octet) : (s \o t) \o u = s \o (t \o u)
BY ConcatAssociative

\* What is first stays first.
LEMMA FirstOfConcat ==
  ASSUME NEW S, NEW s \in Seq(S), NEW t \in Seq(S), s # <<>>
  PROVE  s \o t \in Seq(S) /\ s \o t # <<>> /\ (s \o t)[1] = s[1] /\ Len(s) \in Nat \ {0}
<1>1. Len(s) \in Nat \ {0}
  BY EmptySeq
<1>2. 1 \in 1..(Len(s) + Len(t)) /\ 1 <= Len(s)
  BY <1>1
<1>3. QED
  BY <1>1, <1>2, ConcatProperties, ConcatEqualIffEmpty

\* One sequence behind another.
LEMMA Behind ==
  ASSUME NEW S, NEW s \in Seq(S), NEW t \in Seq(S)
  PROVE  /\ s \o t \in Seq(S) /\ Len(s \o t) = Len(s) + Len(t)
         /\ Len(s) \in Nat /\ Len(t) \in Nat
         /\ \A i \in 1..Len(s) : (s \o t)[i] = s[i]
         /\ \A i \in 1..Len(t) : (s \o t)[Len(s) + i] = t[i]
<1>1. /\ Len(s) \in Nat /\ Len(t) \in Nat /\ s \o t \in Seq(S)
      /\ Len(s \o t) = Len(s) + Len(t)
      /\ \A i \in 1..(Len(s) + Len(t)) : (s \o t)[i] =
           IF i <= Len(s) THEN s[i] ELSE t[i - Len(s)]
  BY ConcatProperties
<1>2. ASSUME NEW i \in 1..Len(s) PROVE (s \o t)[i] = s[i]
  <2>1. i \in 1..(Len(s) + Len(t)) /\ i <= Len(s)
    BY <1>1
  <2>2. QED
    BY <1>1, <2>1
<1>3. ASSUME NEW i \in 1..Len(t) PROVE (s \o t)[Len(s) + i] = t[i]
  <2>1. /\ Len(s) + i \in 1..(Len(s) + Len(t)) /\ ~ (Len(s) + i <= Len(s))
        /\ (Len(s) + i) - Len(s) = i
    BY <1>1
  <2>2. QED
    BY <1>1, <2>1
<1>4. QED
  BY <1>1, <1>2, <1>3

-----------------------------------------------------------------------------
(* A value escaped.                                                        *)

EscapedFirst(octet) == IF octet \in QuotedSpecials THEN << Backslash, octet >> ELSE << octet >>

LEMMA EscapedLoop ==
  ASSUME NEW value \in Seq(Octet)
  PROVE  \E f \in [1..(Len(value) + 1) -> Seq(Octet)] :
            /\ \A i \in 1..(Len(value) + 1) : f[i] = EscapedAt(value, i, f)
            /\ Escaped(value) = f[1]
<1> DEFINE n == Len(value) + 1
           D == 1..n
           V == Seq(Octet)
           F == [p \in D \X [D -> V] |-> EscapedAt(value, p[1], p[2])]
<1>1. n \in Int /\ 1 \in Int /\ 1 \in D /\ V # {} /\ n = Len(value) + 1 /\ <<>> \in V
  <2>1. <<>> \in V
    OBVIOUS
  <2>2. Len(value) \in Nat
    OBVIOUS
  <2> HIDE DEF V
  <2>3. QED
    BY <2>1, <2>2
<1>2. ASSUME NEW i \in D, NEW f \in [D -> V] PROVE EscapedAt(value, i, f) \in V
  <2>1. CASE i > Len(value)
    BY <2>1 DEF EscapedAt
  <2>2. CASE ~ (i > Len(value))
    <3>1. value[i] \in Octet /\ f[i + 1] \in V
      <4>1. i \in 1..Len(value) /\ i + 1 \in D
        BY <1>1, <2>2
      <4>2. QED
        BY <4>1, ElementOfSeq
    <3>2. EscapedFirst(value[i]) \in V
      BY <3>1, KnownOctets, OneOctet, TwoOctets DEF EscapedFirst
    <3>3. EscapedAt(value, i, f) = EscapedFirst(value[i]) \o f[i + 1]
      BY <2>2 DEF EscapedAt, EscapedFirst
    <3>4. QED
      BY <3>1, <3>2, <3>3, ConcatProperties
  <2>3. QED
    BY <2>1, <2>2
<1>3. ASSUME NEW i \in D, NEW f, NEW g, \A j \in (i + 1)..n : f[j] = g[j]
      PROVE  EscapedAt(value, i, f) = EscapedAt(value, i, g)
  <2>1. ~ (i > Len(value)) => i + 1 \in (i + 1)..n
    BY <1>1
  <2>2. QED
    BY <1>3, <2>1 DEF EscapedAt
<1>4. F \in [D \X [D -> V] -> V]
  BY <1>2
<1>5. \A i \in D : \A g, h \in [D -> V] :
        (\A j \in (i + 1)..n : g[j] = h[j]) => F[<<i, g>>] = F[<<i, h>>]
  <2> SUFFICES ASSUME NEW i \in D, NEW g \in [D -> V], NEW h \in [D -> V],
                      \A j \in (i + 1)..n : g[j] = h[j]
               PROVE  F[<<i, g>>] = F[<<i, h>>]
    OBVIOUS
  <2> HIDE DEF V, n
  <2>1. EscapedAt(value, i, g) = EscapedAt(value, i, h)
    BY <1>3
  <2>2. F[<<i, g>>] = EscapedAt(value, i, g) /\ F[<<i, h>>] = EscapedAt(value, i, h)
    OBVIOUS
  <2>3. QED
    BY <2>1, <2>2
<1>6. PICK f : IsLoop(f, F, 1, n, V)
  <2> HIDE DEF F, V, n
  <2>1. IsStep(F, 1, n, V)
    BY <1>1, <1>4, <1>5 DEF IsStep
  <2>2. QED
    BY <1>1, <2>1, BackwardRecursion
<1>7. f \in [D -> V] /\ \A i \in D : f[i] = EscapedAt(value, i, f)
  BY <1>6 DEF IsLoop
<1>8. ASSUME NEW g, g = [i \in D |-> EscapedAt(value, i, g)]
      PROVE  g = f
  <2> DEFINE T == {i \in D : g[i] = f[i]}
  <2>1. ASSUME NEW i \in D, \A j \in (i + 1)..n : j \in T PROVE i \in T
    <3>1. EscapedAt(value, i, g) = EscapedAt(value, i, f)
      BY <1>3, <2>1
    <3>2. QED
      BY <1>7, <1>8, <3>1
  <2>2. \A i \in D : i \in T
    <3> HIDE DEF T, n
    <3>1. QED
      BY <1>1, <2>1, BackwardInduction
  <2>3. g = [i \in D |-> g[i]]
    BY <1>8
  <2>4. f = [i \in D |-> f[i]]
    BY <1>7
  <2>5. \A i \in D : g[i] = f[i]
    BY <2>2
  <2>6. QED
    BY <2>3, <2>4, <2>5
<1>9. f = [i \in D |-> EscapedAt(value, i, f)]
  BY <1>7
<1>10. Escaped(value) = f[1]
  <2>1. Escaped(value) = (CHOOSE g : g = [i \in D |-> EscapedAt(value, i, g)])[1]
    BY DEF Escaped
  <2>2. (CHOOSE g : g = [i \in D |-> EscapedAt(value, i, g)]) = f
    BY <1>8, <1>9
  <2>3. QED
    BY <2>1, <2>2
<1>11. QED
  BY <1>7, <1>10

LEMMA EscapedFirstType ==
  ASSUME NEW octet \in Octet
  PROVE  /\ EscapedFirst(octet) \in Seq(Octet) /\ Len(EscapedFirst(octet)) \in {1, 2}
         /\ octet \notin QuotedSpecials =>
              Len(EscapedFirst(octet)) = 1 /\ EscapedFirst(octet)[1] = octet
         /\ octet \in QuotedSpecials =>
              /\ Len(EscapedFirst(octet)) = 2 /\ EscapedFirst(octet)[1] = Backslash
              /\ EscapedFirst(octet)[2] = octet
<1>1. Backslash \in Octet
  BY KnownOctets
<1>2. CASE octet \notin QuotedSpecials
  BY <1>2 DEF EscapedFirst
<1>3. CASE octet \in QuotedSpecials
  <2>1. EscapedFirst(octet) = << Backslash, octet >>
    BY <1>3 DEF EscapedFirst
  <2>2. << Backslash, octet >> \in Seq(Octet) /\ Len(<< Backslash, octet >>) = 2
        /\ << Backslash, octet >>[1] = Backslash /\ << Backslash, octet >>[2] = octet
    BY <1>1
  <2>3. QED
    BY <1>3, <2>1, <2>2
<1>4. QED
  BY <1>2, <1>3

\* lex_quoted takes one octet of a value at a time, as it was escaped.
LEMMA QuotedPeel ==
  ASSUME NEW x \in Seq(Octet), x # <<>>, NEW octet \in Octet, NEW rest \in Seq(Octet)
  PROVE  /\ x \o EscapedFirst(octet) \in Seq(Octet) /\ x \o EscapedFirst(octet) # <<>>
         /\ Len(x \o EscapedFirst(octet)) = Len(x) + Len(EscapedFirst(octet))
         /\ LexQuoted(x \o (EscapedFirst(octet) \o rest), Len(x)) =
              Pushing(octet, LexQuoted((x \o EscapedFirst(octet)) \o rest,
                                       Len(x \o EscapedFirst(octet))))
<1> DEFINE e == EscapedFirst(octet)
           n == Len(x)
           whole == x \o (e \o rest)
<1>1. /\ e \in Seq(Octet) /\ Len(e) \in {1, 2}
      /\ octet \notin QuotedSpecials => Len(e) = 1 /\ e[1] = octet
      /\ octet \in QuotedSpecials => Len(e) = 2 /\ e[1] = Backslash /\ e[2] = octet
  BY EscapedFirstType
<1>2. n \in Nat \ {0} /\ Len(rest) \in Nat
  BY EmptySeq
<1> HIDE DEF e, n
<1>3. /\ e \o rest \in Seq(Octet) /\ Len(e \o rest) = Len(e) + Len(rest)
      /\ \A i \in 1..Len(e) : (e \o rest)[i] = e[i]
  BY <1>1, Behind
<1>4. /\ x \o e \in Seq(Octet) /\ Len(x \o e) = n + Len(e) /\ x \o e # <<>>
  BY <1>1, ConcatProperties, ConcatEqualIffEmpty DEF n
<1>5. (x \o e) \o rest = whole
  BY <1>1, ConcatAssociative
<1>6. /\ whole \in Seq(Octet) /\ Len(whole) = n + Len(e) + Len(rest)
      /\ \A i \in 1..Len(e) : whole[n + i] = e[i]
  <2> DEFINE t == e \o rest
  <2> HIDE DEF t
  <2>1. /\ t \in Seq(Octet) /\ Len(t) = Len(e) + Len(rest) /\ \A i \in 1..Len(e) : t[i] = e[i]
    BY <1>3 DEF t
  <2>2. /\ x \o t \in Seq(Octet) /\ Len(x \o t) = n + Len(t)
        /\ \A i \in 1..Len(t) : (x \o t)[n + i] = t[i]
    <3>1. t \in Seq(Octet)
      BY <2>1
    <3> USE DEF n
    <3>2. QED
      BY <3>1, Behind
  <2>3. \A i \in 1..Len(e) : i \in 1..Len(t)
    BY <1>1, <1>2, <2>1
  <2>4. Len(x \o t) = n + Len(e) + Len(rest)
    BY <1>1, <1>2, <2>1, <2>2
  <2>5. QED
    BY <2>1, <2>2, <2>3, <2>4 DEF t
<1> HIDE DEF whole
<1>7. n \in 1..Len(whole) /\ n + 1 <= Len(whole)
  BY <1>1, <1>2, <1>6
<1>8. LexQuoted(whole, n) = Pushing(octet, LexQuoted(whole, n + Len(e)))
  <2>1. CASE octet \notin QuotedSpecials
    <3>1. whole[n + 1] = octet /\ Len(e) = 1
      <4>1. Len(e) = 1 /\ e[1] = octet
        BY <1>1, <2>1
      <4>2. 1 \in 1..Len(e)
        BY <4>1
      <4>3. QED
        BY <1>6, <4>1, <4>2
    <3>2. QED
      BY <1>6, <1>7, <2>1, <3>1, QuotedUnfold
  <2>2. CASE octet \in QuotedSpecials
    <3>1. /\ whole[n + 1] = Backslash /\ whole[n + 2] = octet /\ n + 2 <= Len(whole)
          /\ Len(e) = 2
      <4>1. Len(e) = 2 /\ e[1] = Backslash /\ e[2] = octet
        BY <1>1, <2>2
      <4>2. 1 \in 1..Len(e) /\ 2 \in 1..Len(e)
        BY <4>1
      <4>3. n + 2 <= Len(whole)
        BY <1>2, <1>6, <4>1
      <4>4. QED
        BY <1>6, <4>1, <4>2, <4>3
    <3>2. QED
      BY <1>6, <1>7, <2>2, <3>1, QuotedUnfold
  <2>3. QED
    BY <2>1, <2>2
<1>9. QED
  BY <1>4, <1>5, <1>8 DEF e, n, whole

\* A quote behind a string ends it.
LEMMA QuotedCloses ==
  ASSUME NEW x \in Seq(Octet), x # <<>>, NEW rest \in Seq(Octet)
  PROVE  LexQuoted(x \o (<< Quote >> \o rest), Len(x)) =
           [err |-> Fine, string |-> <<>>, next |-> Len(x) + 2]
<1> DEFINE e == << Quote >>
           n == Len(x)
           t == e \o rest
           whole == x \o t
<1>1. e \in Seq(Octet) /\ Len(e) = 1 /\ e[1] = Quote
  <2>1. Quote \in Octet
    BY KnownOctets
  <2>2. QED
    BY <2>1
<1>2. n \in Nat \ {0} /\ Len(rest) \in Nat
  BY EmptySeq
<1> HIDE DEF e
<1>3. t \in Seq(Octet) /\ Len(t) = 1 + Len(rest) /\ t[1] = Quote
  <2>1. 1 \in 1..Len(e)
    BY <1>1
  <2>2. t \in Seq(Octet) /\ Len(t) = Len(e) + Len(rest) /\ \A i \in 1..Len(e) : t[i] = e[i]
    BY <1>1, Behind
  <2> HIDE DEF t
  <2>3. QED
    BY <1>1, <2>1, <2>2
<1> HIDE DEF t
<1>4. whole \in Seq(Octet) /\ Len(whole) = n + Len(t) /\ whole[n + 1] = t[1]
  <2>1. 1 \in 1..Len(t)
    BY <1>2, <1>3
  <2>2. /\ whole \in Seq(Octet) /\ Len(whole) = n + Len(t)
        /\ \A i \in 1..Len(t) : whole[n + i] = t[i]
    <3>1. t \in Seq(Octet) /\ x \in Seq(Octet)
      BY <1>3
    <3>2. QED
      BY ONLY <3>1, Behind
  <2> HIDE DEF whole, n
  <2>3. QED
    BY <2>1, <2>2
<1> HIDE DEF n, whole
<1>5. n \in 1..Len(whole) /\ n + 1 <= Len(whole) /\ whole[n + 1] = Quote
  BY <1>2, <1>3, <1>4
<1>6. LexQuoted(whole, n) = [err |-> Fine, string |-> <<>>, next |-> n + 2]
  BY <1>4, <1>5, QuotedUnfold
<1>7. QED
  BY <1>6 DEF whole, t, n, e

\* A value between quotes is read back, whatever its octets, wherever it is.
LEMMA EscapedReadsBack ==
  ASSUME NEW value \in Seq(Octet), NEW start \in Seq(Octet), start # <<>>, NEW rest \in Seq(Octet)
  PROVE  LexQuoted(start \o (Escaped(value) \o (<< Quote >> \o rest)), Len(start)) =
           [err |-> Fine, string |-> value, next |-> Len(start) + Len(Escaped(value)) + 2]
<1> DEFINE n == Len(value)
           hi == n + 1
           D == 1..hi
           close == << Quote >> \o rest
           Reads(i, f) == \A x \in Seq(Octet) : x # <<>> =>
             LexQuoted(x \o (f[i] \o close), Len(x)) =
               [err |-> Fine, string |-> SubSeq(value, i, n), next |-> Len(x) + Len(f[i]) + 2]
<1>1. PICK f \in [D -> Seq(Octet)] :
         /\ \A i \in D : f[i] = EscapedAt(value, i, f)
         /\ Escaped(value) = f[1]
  BY EscapedLoop
<1> DEFINE T == {i \in D : Reads(i, f)}
<1>2. n \in Nat /\ close \in Seq(Octet) /\ 1 \in Int /\ hi \in Int /\ hi = n + 1
  <2>1. << Quote >> \in Seq(Octet)
    BY KnownOctets, OneOctet
  <2>2. close \in Seq(Octet)
    BY <2>1, Behind
  <2>3. n \in Nat
    OBVIOUS
  <2> HIDE DEF close, n
  <2>4. QED
    BY <2>2, <2>3
<1>3. ASSUME NEW i \in D, \A j \in (i + 1)..hi : j \in T, NEW x \in Seq(Octet), x # <<>>
      PROVE  LexQuoted(x \o (f[i] \o close), Len(x)) =
               [err |-> Fine, string |-> SubSeq(value, i, n), next |-> Len(x) + Len(f[i]) + 2]
  <2>1. CASE i = hi
    <3>1. f[i] = <<>> /\ Len(f[i]) = 0
      <4>1. i > Len(value) /\ f[i] = EscapedAt(value, i, f)
        BY <1>1, <1>2, <2>1
      <4>2. QED
        BY <4>1 DEF EscapedAt
    <3>2. SubSeq(value, i, n) = <<>>
      BY <1>2, <2>1, SubSeqEmpty
    <3>3. f[i] \o close = close
      <4> HIDE DEF close
      <4>1. QED
        BY <1>2, <3>1, ConcatEmptySeq
    <3>4. Len(x) + Len(f[i]) + 2 = Len(x) + 2
      BY <3>1
    <3>5. QED
      BY <1>3, <3>2, <3>3, <3>4, QuotedCloses
  <2>2. CASE i # hi
    <3> DEFINE c == value[i]
               e == EscapedFirst(c)
               r == f[i + 1]
               t == r \o close
    <3>1. i \in 1..n /\ i + 1 \in (i + 1)..hi /\ i + 1 \in D /\ n \in i..n /\ ~ (i > n)
      BY <1>2, <2>2
    <3>2. c \in Octet /\ r \in Seq(Octet)
      BY <3>1, ElementOfSeq
    <3>3. f[i] = e \o r
      BY <1>1, <3>1 DEF EscapedAt, EscapedFirst
    <3>4. e \in Seq(Octet) /\ Len(e) \in Nat
      <4> HIDE DEF c
      <4>1. QED
        BY <3>2, EscapedFirstType
    <3>5. SubSeq(value, i, n) = << c >> \o SubSeq(value, i + 1, n)
      BY <3>1, SubSeqRecursiveFirst
    <3>6. Reads(i + 1, f)
      BY <1>3, <3>1
    <3> HIDE DEF e, c, close, T, D, n, hi
    <3>7. t \in Seq(Octet) /\ Len(f[i]) = Len(e) + Len(r) /\ Len(r) \in Nat /\ Len(x) \in Nat
      BY <1>2, <3>2, <3>3, <3>4, ConcatProperties
    <3> HIDE DEF r
    <3>8. x \o (f[i] \o close) = x \o (e \o t)
      <4>1. (e \o r) \o close = e \o (r \o close)
        <5>1. e \in Seq(Octet) /\ r \in Seq(Octet) /\ close \in Seq(Octet)
          BY <1>2, <3>2, <3>4
        <5>2. e \in Seq(Octet)
          BY ONLY <5>1
        <5>3. r \in Seq(Octet)
          BY ONLY <5>1
        <5>4. close \in Seq(Octet)
          BY ONLY <5>1
        <5>5. \A u \in Seq(Octet) : (e \o r) \o u = e \o (r \o u)
          BY ONLY <5>2, <5>3, OctetsAssociate
        <5>6. QED
          BY ONLY <5>4, <5>5
      <4>2. QED
        BY <3>3, <4>1
    <3>9. /\ x \o e \in Seq(Octet) /\ x \o e # <<>> /\ Len(x \o e) = Len(x) + Len(e)
          /\ LexQuoted(x \o (e \o t), Len(x)) = Pushing(c, LexQuoted((x \o e) \o t, Len(x \o e)))
      <4> HIDE DEF t
      <4>1. QED
        BY <1>3, <3>2, <3>7, QuotedPeel DEF e
    <3>10. LexQuoted((x \o e) \o t, Len(x \o e)) =
             [err |-> Fine, string |-> SubSeq(value, i + 1, n), next |-> Len(x \o e) + Len(r) + 2]
      BY <3>6, <3>9 DEF r
    <3>11. Len(x \o e) + Len(r) + 2 = Len(x) + Len(f[i]) + 2
      BY <3>4, <3>7, <3>9
    <3> HIDE DEF t
    <3>12. Pushing(c, LexQuoted((x \o e) \o t, Len(x \o e))) =
             [err |-> Fine, string |-> << c >> \o SubSeq(value, i + 1, n),
              next |-> Len(x) + Len(f[i]) + 2]
      <4> DEFINE found == LexQuoted((x \o e) \o t, Len(x \o e))
                 last == SubSeq(value, i + 1, n)
                 next == Len(x) + Len(f[i]) + 2
                 whole == << c >> \o last
      <4>1. found = [err |-> Fine, string |-> last, next |-> next]
        BY <3>10, <3>11
      <4> HIDE DEF found, last, next
      <4>2. found.err = Fine /\ found.string = last /\ found.next = next
        BY <4>1
      <4>3. Pushing(c, found) = [err |-> Fine, string |-> whole, next |-> next]
        BY <4>2 DEF Pushing
      <4>4. QED
        BY <4>3 DEF found, last, next
    <3>13. QED
      BY <3>5, <3>8, <3>9, <3>12
  <2>3. QED
    BY <2>1, <2>2
<1>4. ASSUME NEW i \in D, \A j \in (i + 1)..hi : j \in T
      PROVE  i \in T
  <2> HIDE DEF D, hi
  <2>1. Reads(i, f)
    BY <1>3, <1>4
  <2>2. QED
    BY <2>1
<1>5. \A i \in D : i \in T
  <2> HIDE DEF T, hi
  <2>1. QED
    BY <1>2, <1>4, BackwardInduction
<1>6. Reads(1, f)
  <2>1. 1 \in D
    BY <1>2
  <2>2. QED
    BY <1>5, <2>1
<1>7. SubSeq(value, 1, n) = value
  BY SubSeqFull
<1>8. QED
  BY <1>1, <1>6, <1>7

\* How much longer a value gets, and that no control octet gets into it.
SpecialsFrom(value, i) == {j \in i..Len(value) : value[j] \in QuotedSpecials}

\* The specials of a value, one octet after the other.
LEMMA SpecialsCounted ==
  ASSUME NEW value \in Seq(Octet), NEW i \in 1..Len(value)
  PROVE  /\ Cardinality(SpecialsFrom(value, i + 1)) \in Nat
         /\ Cardinality(SpecialsFrom(value, i)) =
              Cardinality(SpecialsFrom(value, i + 1)) +
                (IF value[i] \in QuotedSpecials THEN 1 ELSE 0)
<1> DEFINE now == SpecialsFrom(value, i)
           later == SpecialsFrom(value, i + 1)
<1>1. Len(value) \in Nat /\ i \in Nat
  OBVIOUS
<1>2. IsFiniteSet(later)
  <2>1. IsFiniteSet((i + 1)..Len(value))
    BY <1>1, FS_Interval
  <2>2. later \subseteq (i + 1)..Len(value)
    BY DEF SpecialsFrom
  <2>3. QED
    BY <2>1, <2>2, FS_Subset
<1>3. i \notin later
  BY <1>1 DEF SpecialsFrom
<1>4. value[i] \in QuotedSpecials => now = later \cup {i}
  BY <1>1 DEF SpecialsFrom
<1>5. value[i] \notin QuotedSpecials => now = later
  BY <1>1 DEF SpecialsFrom
<1> HIDE DEF now, later
<1>6. Cardinality(later) \in Nat /\ Cardinality(later \cup {i}) = Cardinality(later) + 1
  BY <1>2, <1>3, FS_AddElement, FS_CardinalityType
<1>7. Cardinality(now) = Cardinality(later) + (IF value[i] \in QuotedSpecials THEN 1 ELSE 0)
  <2>1. CASE value[i] \in QuotedSpecials
    <3>1. Cardinality(now) = Cardinality(later) + 1
      BY <1>4, <1>6, <2>1
    <3>2. QED
      BY <2>1, <3>1
  <2>2. CASE value[i] \notin QuotedSpecials
    <3>1. now = later /\ Cardinality(later) \in Nat
      BY <1>5, <1>6, <2>2
    <3>2. Cardinality(now) = Cardinality(later) + 0
      BY <3>1
    <3>3. QED
      BY <2>2, <3>2
  <2>3. QED
    BY <2>1, <2>2
<1>8. QED
  BY <1>6, <1>7 DEF now, later

\* A value grows by its specials when it is escaped, and no control octet gets
\* in: what quote counts before it quotes.
LEMMA EscapedLength ==
  ASSUME NEW value \in Seq(Octet)
  PROVE  /\ Escaped(value) \in Seq(Octet)
         /\ Len(Escaped(value)) =
              Len(value) + Cardinality({i \in DOMAIN value : value[i] \in QuotedSpecials})
         /\ ToSet(value) \cap Control = {} =>
              \A i \in 1..Len(Escaped(value)) : Escaped(value)[i] \notin Control
<1> DEFINE n == Len(value)
           hi == n + 1
           D == 1..hi
           Count(i) == Cardinality(SpecialsFrom(value, i))
           Clean(s) == \A i \in 1..Len(s) : s[i] \notin Control
           Good(s, i) == /\ Len(s) = hi - i + Count(i) /\ Count(i) \in Nat
                         /\ ToSet(value) \cap Control = {} => Clean(s)
<1>1. PICK f \in [D -> Seq(Octet)] :
         /\ \A i \in D : f[i] = EscapedAt(value, i, f)
         /\ Escaped(value) = f[1]
  BY EscapedLoop
<1> DEFINE T == {i \in D : Good(f[i], i)}
<1>2. n \in Nat /\ 1 \in Int /\ hi \in Int /\ hi = n + 1 /\ 1 \in D
  OBVIOUS
<1>3. ASSUME NEW i \in D, \A j \in (i + 1)..hi : j \in T
      PROVE  Good(f[i], i)
  <2>1. CASE i = hi
    <3>1. f[i] = <<>> /\ Len(f[i]) = 0
      <4>1. i > Len(value) /\ f[i] = EscapedAt(value, i, f)
        BY <1>1, <1>2, <2>1
      <4>2. QED
        BY <4>1 DEF EscapedAt
    <3>2. SpecialsFrom(value, i) = {}
      BY <1>2, <2>1 DEF SpecialsFrom
    <3>3. Count(i) = 0
      BY <3>2, FS_EmptySet
    <3>4. Clean(f[i])
      BY <3>1
    <3>5. hi - i = 0
      BY <1>2, <2>1
    <3> HIDE DEF Clean, Count, hi
    <3>6. QED
      BY <3>1, <3>3, <3>4, <3>5
  <2>2. CASE i # hi
    <3> DEFINE c == value[i]
               e == EscapedFirst(c)
               r == f[i + 1]
    <3>1. i \in 1..n /\ i + 1 \in (i + 1)..hi /\ i + 1 \in D /\ ~ (i > n)
      BY <1>2, <2>2
    <3>2. c \in Octet /\ c \in ToSet(value)
      <4>1. c \in Octet
        BY <3>1, ElementOfSeq
      <4>2. c \in ToSet(value)
        BY <3>1 DEF ToSet
      <4>3. QED
        BY <4>1, <4>2
    <3>3. r \in Seq(Octet)
      BY <3>1
    <3>4. f[i] = e \o r
      BY <1>1, <3>1 DEF EscapedAt, EscapedFirst
    <3>5. Good(r, i + 1)
      BY <1>3, <3>1
    <3>6. /\ Count(i + 1) \in Nat
          /\ Count(i) = Count(i + 1) + (IF c \in QuotedSpecials THEN 1 ELSE 0)
      BY <3>1, SpecialsCounted
    <3> HIDE DEF c
    <3>7. /\ e \in Seq(Octet) /\ Len(e) \in {1, 2}
          /\ c \notin QuotedSpecials => Len(e) = 1 /\ e[1] = c
          /\ c \in QuotedSpecials => Len(e) = 2 /\ e[1] = Backslash /\ e[2] = c
      BY <3>2, EscapedFirstType
    <3> HIDE DEF e, r, Count, hi, T, D, n
    <3>8. /\ Len(e \o r) = Len(e) + Len(r)
          /\ Len(e) \in Nat /\ Len(r) \in Nat
          /\ \A j \in 1..Len(e) : (e \o r)[j] = e[j]
          /\ \A j \in 1..Len(r) : (e \o r)[Len(e) + j] = r[j]
      <4>1. e \in Seq(Octet)
        BY <3>7
      <4>2. QED
        BY <3>3, <4>1, Behind
    <3>9. Len(e) = 1 + (IF c \in QuotedSpecials THEN 1 ELSE 0)
      BY <3>7
    <3>10. Len(f[i]) = hi - i + Count(i) /\ Count(i) \in Nat
      <4>1. Len(r) = hi - (i + 1) + Count(i + 1)
        BY <3>5
      <4>2. Len(f[i]) = Len(e) + Len(r)
        BY <3>4, <3>8
      <4>3. hi \in Int /\ i \in Int
        BY <1>2, <3>1
      <4>4. QED
        BY <3>6, <3>9, <4>1, <4>2, <4>3
    <3>11. ASSUME ToSet(value) \cap Control = {}, NEW j \in 1..Len(e \o r)
           PROVE  (e \o r)[j] \notin Control
      <4>1. c \notin Control /\ Backslash \notin Control
        <5>1. Backslash \notin Control
          BY DEF Backslash, Control, CR, LF
        <5>2. QED
          BY <3>2, <3>11, <5>1
      <4>2. ASSUME NEW k \in 1..Len(e) PROVE e[k] \notin Control
        <5>1. k = 1 \/ (k = 2 /\ Len(e) = 2)
          <6>1. Len(e) \in {1, 2}
            BY <3>7
          <6>2. CASE Len(e) = 1
            BY <6>2
          <6>3. CASE Len(e) = 2
            BY <6>3
          <6>4. QED
            BY <6>1, <6>2, <6>3
        <5>2. CASE c \in QuotedSpecials
          BY <3>7, <4>1, <5>1, <5>2
        <5>3. CASE c \notin QuotedSpecials
          BY <3>7, <4>1, <5>1, <5>3
        <5>4. QED
          BY <5>2, <5>3
      <4>3. CASE j <= Len(e)
        <5>1. j \in 1..Len(e)
          BY <4>3
        <5>2. QED
          BY <3>8, <4>2, <5>1
      <4>4. CASE ~ (j <= Len(e))
        <5>1. j - Len(e) \in 1..Len(r) /\ j = Len(e) + (j - Len(e))
          BY <3>8, <4>4
        <5>2. r[j - Len(e)] \notin Control
          BY <3>5, <3>11, <5>1
        <5>3. QED
          BY <3>8, <5>1, <5>2
      <4>5. QED
        BY <4>3, <4>4
    <3>12. ToSet(value) \cap Control = {} => Clean(f[i])
      BY <3>4, <3>11
    <3> HIDE DEF Clean
    <3>13. QED
      BY <3>10, <3>12
  <2>3. QED
    BY <2>1, <2>2
<1>4. \A i \in D : (\A j \in (i + 1)..hi : j \in T) => i \in T
  <2> HIDE DEF D, hi, Good
  <2>1. QED
    BY <1>3
<1>5. \A i \in D : i \in T
  <2> HIDE DEF T, hi
  <2>1. QED
    BY <1>2, <1>4, BackwardInduction
<1>6. Good(f[1], 1)
  BY <1>2, <1>5
<1>7. SpecialsFrom(value, 1) = {i \in DOMAIN value : value[i] \in QuotedSpecials}
  BY DEF SpecialsFrom
<1>8. f[1] \in Seq(Octet) /\ hi - 1 = n
  BY <1>2
<1>9. QED
  BY <1>1, <1>6, <1>7, <1>8

-----------------------------------------------------------------------------
(* A segment further on.                                                   *)

\* The octets a are the last ones of b, d octets on.
Ahead(a, b, d) == d \in Nat /\ Len(b) = Len(a) + d /\ \A i \in 1..Len(a) : b[i + d] = a[i]

LEMMA BehindIsAhead ==
  ASSUME NEW S, NEW s \in Seq(S), NEW t \in Seq(S)
  PROVE  Ahead(t, s \o t, Len(s))
<1>1. /\ s \o t \in Seq(S) /\ Len(s \o t) = Len(s) + Len(t)
      /\ Len(s) \in Nat /\ Len(t) \in Nat
      /\ \A i \in 1..Len(t) : (s \o t)[Len(s) + i] = t[i]
  BY Behind
<1>2. \A i \in 1..Len(t) : Len(s) + i = i + Len(s)
  BY <1>1
<1>3. Len(s \o t) = Len(t) + Len(s)
  BY <1>1
<1>4. \A i \in 1..Len(t) : (s \o t)[i + Len(s)] = t[i]
  BY <1>1, <1>2
<1>5. QED
  BY <1>1, <1>3, <1>4 DEF Ahead

LEMMA SubSeqAhead ==
  ASSUME NEW S, NEW a \in Seq(S), NEW b \in Seq(S), NEW d, Ahead(a, b, d),
         NEW m \in Nat \ {0}, NEW n \in Int, n <= Len(a),
         NEW k \in Int, k = m + d, NEW l \in Int, l = n + d
  PROVE  SubSeq(b, k, l) = SubSeq(a, m, n)
<1>1. /\ d \in Nat /\ Len(a) \in Nat /\ Len(b) = Len(a) + d
      /\ \A i \in 1..Len(a) : b[i + d] = a[i]
  BY DEF Ahead
<1>2. k \in Int /\ l \in Int /\ l - k = n - m /\ (k <= l <=> m <= n) /\ k >= 1 /\ l <= Len(b)
  BY <1>1
<1>3. \A i \in m..n : i \in 1..Len(a) /\ a[i] \in S
  BY <1>1, ElementOfSeq
<1>4. \A i \in k..l : b[i] \in S
  BY <1>1, <1>2, ElementOfSeq
<1>5. /\ SubSeq(a, m, n) \in Seq(S)
      /\ Len(SubSeq(a, m, n)) = IF m <= n THEN n - m + 1 ELSE 0
      /\ \A i \in 1..(n - m + 1) : SubSeq(a, m, n)[i] = a[m + i - 1]
  BY <1>3, SubSeqProperties
<1>6. /\ SubSeq(b, k, l) \in Seq(S)
      /\ Len(SubSeq(b, k, l)) = IF k <= l THEN l - k + 1 ELSE 0
      /\ \A i \in 1..(l - k + 1) : SubSeq(b, k, l)[i] = b[k + i - 1]
  BY <1>2, <1>4, SubSeqProperties, SMTT(60)
<1>7. Len(SubSeq(b, k, l)) = Len(SubSeq(a, m, n))
  BY <1>2, <1>5, <1>6
<1>8. ASSUME NEW i \in 1..Len(SubSeq(b, k, l))
      PROVE  SubSeq(b, k, l)[i] = SubSeq(a, m, n)[i]
  <2>1. i \in 1..(l - k + 1) /\ i \in 1..(n - m + 1) /\ m + i - 1 \in m..n
    BY <1>2, <1>6
  <2>2. k + i - 1 = (m + i - 1) + d
    BY <1>1, <2>1
  <2>3. b[(m + i - 1) + d] = a[m + i - 1]
    BY <1>1, <1>3, <2>1
  <2>4. QED
    BY <1>5, <1>6, <2>1, <2>2, <2>3
<1>9. QED
  BY <1>5, <1>6, <1>7, <1>8, SeqEqual

\* The same of the octets of two segments, whatever stretch of them is taken.
SameStretches(a, b, d) ==
  \A m \in Nat \ {0}, n, k, l \in Int :
    n <= Len(a) /\ k = m + d /\ l = n + d => SubSeq(b, k, l) = SubSeq(a, m, n)

LEMMA OctetsAhead ==
  ASSUME NEW a \in Seq(Octet), NEW b \in Seq(Octet), NEW d, Ahead(a, b, d)
  PROVE  SameStretches(a, b, d)
<1>1. d \in Nat
  BY DEF Ahead
<1>2. \A m \in Nat \ {0}, n, k, l \in Int :
        n <= Len(a) /\ k = m + d /\ l = n + d => SubSeq(b, k, l) = SubSeq(a, m, n)
  <2> TAKE m \in Nat \ {0}, n, k, l \in Int
  <2> HAVE n <= Len(a) /\ k = m + d /\ l = n + d
  <2>1. QED
    BY <1>1, SubSeqAhead, SMTT(60)
<1>3. QED
  BY <1>2 DEF SameStretches

LEMMA AtomEndAhead ==
  ASSUME NEW a \in Seq(Octet), NEW b \in Seq(Octet), NEW d, Ahead(a, b, d),
         NEW i \in 1..Len(a), a[i] \notin AtomSpecials
  PROVE  AtomEnd(b, i + d) = AtomEnd(a, i) + d
<1> DEFINE e == AtomEnd(a, i)
           k == i + d
           h == AtomEnd(b, k)
<1>1. /\ d \in Nat /\ Len(a) \in Nat /\ Len(b) = Len(a) + d /\ Len(b) \in Nat
      /\ \A j \in 1..Len(a) : b[j + d] = a[j]
  BY DEF Ahead
<1>2. /\ e \in (i + 1)..(Len(a) + 1)
      /\ \A j \in i..(e - 1) : a[j] \notin AtomSpecials
      /\ e <= Len(a) => a[e] \in AtomSpecials
  BY AtomEndIsLater
<1>3. k \in 1..Len(b) /\ b[k] \notin AtomSpecials
  BY <1>1
<1> HIDE DEF e, k
<1>4. /\ h \in (k + 1)..(Len(b) + 1)
      /\ \A j \in k..(h - 1) : b[j] \notin AtomSpecials
      /\ h <= Len(b) => b[h] \in AtomSpecials
  BY <1>3, AtomEndIsLater
<1> HIDE DEF h
<1>5. ~ (h < e + d)
  <2>1. ASSUME h < e + d
        PROVE  FALSE
    <3>1. h - d \in i..(e - 1) /\ (h - d) + d = h /\ h - d \in 1..Len(a) /\ h <= Len(b)
      BY <1>1, <1>2, <1>4, <2>1 DEF k
    <3>2. b[h] = a[h - d]
      BY <1>1, <3>1
    <3>3. QED
      BY <1>2, <1>4, <3>1, <3>2
  <2>2. QED
    BY <2>1
<1>6. ~ (e + d < h)
  <2>1. ASSUME e + d < h
        PROVE  FALSE
    <3>1. e + d \in k..(h - 1) /\ e \in 1..Len(a) /\ e <= Len(a)
      BY <1>1, <1>2, <1>4, <2>1 DEF k
    <3>2. b[e + d] = a[e]
      BY <1>1, <3>1
    <3>3. QED
      BY <1>2, <1>4, <3>1, <3>2
  <2>2. QED
    BY <2>1
<1>7. h = e + d
  <2>1. h \in Int /\ e \in Int /\ d \in Int
    BY <1>1, <1>2, <1>3, <1>4
  <2>2. QED
    BY <1>5, <1>6, <2>1
<1>8. QED
  BY <1>7 DEF h, e, k

\* One turn of lex, and the same turn d octets on.
LEMMA LexTurnAhead ==
  ASSUME NEW a \in Seq(Octet), NEW b \in Seq(Octet), NEW d, Ahead(a, b, d),
         NEW i \in 1..Len(a), NEW f, NEW g,
         \A j \in (i + 1)..(Len(a) + 1) : g[j + d] = f[j]
  PROVE  LexAt(b, i + d, g) = LexAt(a, i, f)
<1> DEFINE k == i + d
<1>1. /\ d \in Nat /\ Len(a) \in Nat /\ Len(b) = Len(a) + d /\ Len(b) \in Nat
      /\ \A j \in 1..Len(a) : b[j + d] = a[j]
  BY DEF Ahead
<1>2. k \in 1..Len(b) /\ b[k] = a[i] /\ (i + 1) + d = k + 1 /\ i + 1 \in (i + 1)..(Len(a) + 1)
  BY <1>1
<1>3. g[k + 1] = f[i + 1]
  BY <1>2
<1>4. CASE a[i] = Quote
  <2> DEFINE r == LexQuoted(a, i)
             q == LexQuoted(b, k)
  <2>1. q = Moved(r, d)
    <3>1. d \in Int /\ i + d >= 1 /\ \A j \in (i + 1)..Len(a) : b[j + d] = a[j]
      BY <1>1
    <3>2. QED
      BY <1>1, <3>1, QuotedMoves
  <2>2. r.next \in (i + 1)..(Len(a) + 1)
    <3>1. i + 1 \in QuotedIndices(a, i)
      BY <1>1 DEF QuotedIndices
    <3>2. r \in QuotedResults(a, i)
      BY <3>1, QuotedLoop
    <3>3. QED
      BY <3>2 DEF QuotedResults, QuotedIndices
  <2>3. LexAt(a, i, f) = IF r.err = Fine THEN Pushed(Str(r.string), f[r.next]) ELSE LexEnd(r.err)
    BY <1>4, LexString
  <2> HIDE DEF k
  <2>4. LexAt(b, k, g) = IF q.err = Fine THEN Pushed(Str(q.string), g[q.next]) ELSE LexEnd(q.err)
    BY <1>2, <1>4, LexString
  <2> HIDE DEF r, q
  <2>5. q.err = r.err /\ q.string = r.string /\ g[q.next] = f[r.next]
    BY <2>1, <2>2 DEF Moved
  <2>6. QED
    BY <2>3, <2>4, <2>5 DEF k
<1>5. CASE a[i] \notin Whitespace \cup Control \cup {Quote, Brace, "(", ")", Backslash}
  <2> DEFINE e == AtomEnd(a, i)
  <2>1. a[i] \notin AtomSpecials
    BY <1>5, OctetKinds
  <2>2. e \in (i + 1)..(Len(a) + 1)
    BY <2>1, AtomEndIsLater
  <2>3. AtomEnd(b, k) = e + d
    BY <2>1, AtomEndAhead
  <2>4. LexAt(a, i, f) = Pushed(Atom(SubSeq(a, i, e - 1)), f[e])
    BY <1>5, LexAtom
  <2>5. LexAt(b, k, g) = Pushed(Atom(SubSeq(b, k, AtomEnd(b, k) - 1)), g[AtomEnd(b, k)])
    <3> HIDE DEF k
    <3>1. QED
      BY <1>2, <1>5, LexAtom
  <2> HIDE DEF e
  <2>6. SubSeq(b, k, AtomEnd(b, k) - 1) = SubSeq(a, i, e - 1)
    <3> DEFINE n == e - 1
               l == (e + d) - 1
    <3>1. n \in Int /\ n <= Len(a) /\ i \in Nat \ {0}
      BY <1>1, <2>2
    <3>2. k \in Int /\ k = i + d
      BY <1>1
    <3>3. l \in Int /\ l = n + d
      BY <1>1, <2>2
    <3> HIDE DEF n, l, k
    <3>4. SubSeq(b, k, l) = SubSeq(a, i, n)
      <4>1. a \in Seq(Octet)
        OBVIOUS
      <4>2. b \in Seq(Octet)
        OBVIOUS
      <4>3. Ahead(a, b, d)
        OBVIOUS
      <4>4. i \in Nat \ {0}
        BY <3>1
      <4>5. n \in Int
        BY <3>1
      <4>6. n <= Len(a)
        BY <3>1
      <4>7. k \in Int
        BY <3>2
      <4>8. k = i + d
        BY <3>2
      <4>9. l \in Int
        BY <3>3
      <4>10. l = n + d
        BY <3>3
      <4>11. QED
        <5>1. SameStretches(a, b, d)
          BY ONLY <4>1, <4>2, <4>3, OctetsAhead
        <5>2. QED
          BY ONLY <4>4, <4>5, <4>6, <4>7, <4>8, <4>9, <4>10, <5>1 DEF SameStretches
    <3>5. QED
      BY <2>3, <3>4 DEF n, l
  <2>7. g[AtomEnd(b, k)] = f[e]
    BY <2>2, <2>3
  <2>8. QED
    BY <2>4, <2>5, <2>6, <2>7
<1>6. CASE a[i] = Brace
  <2>1. SubSeq(b, k, Len(b)) = SubSeq(a, i, Len(a))
    <3>1. /\ Len(a) \in Int /\ Len(a) <= Len(a) /\ i \in Nat \ {0} /\ Len(b) \in Int
          /\ Len(b) = Len(a) + d /\ k \in Int /\ k = i + d
      BY <1>1
    <3> HIDE DEF k
    <3>2. SameStretches(a, b, d)
      BY OctetsAhead
    <3>3. QED
      BY <3>1, <3>2 DEF SameStretches
  <2> HIDE DEF k
  <2>2. LexAt(b, k, g) = LexLiteralMarker(SubSeq(b, k, Len(b)))
    BY <1>2, <1>6, LexMarker
  <2>3. LexAt(a, i, f) = LexLiteralMarker(SubSeq(a, i, Len(a)))
    BY <1>6, LexMarker
  <2>4. QED
    BY <2>1, <2>2, <2>3 DEF k
<1> HIDE DEF k
<1>7. CASE a[i] \in Whitespace
  <2>1. LexAt(b, k, g) = g[k + 1] /\ LexAt(a, i, f) = f[i + 1]
    BY <1>2, <1>7, LexBlank
  <2>2. QED
    BY <1>3, <2>1 DEF k
<1>8. CASE a[i] = "("
  <2>1. LexAt(b, k, g) = Pushed(Open, g[k + 1]) /\ LexAt(a, i, f) = Pushed(Open, f[i + 1])
    BY <1>2, <1>8, LexOpen
  <2>2. QED
    BY <1>3, <2>1 DEF k
<1>9. CASE a[i] = ")"
  <2>1. LexAt(b, k, g) = Pushed(Close, g[k + 1]) /\ LexAt(a, i, f) = Pushed(Close, f[i + 1])
    BY <1>2, <1>9, LexClose
  <2>2. QED
    BY <1>3, <2>1 DEF k
<1>10. CASE a[i] = Backslash \/ a[i] \in Control \ Whitespace
  <2>1. LexAt(b, k, g) = LexEnd("UnexpectedByte") /\ LexAt(a, i, f) = LexEnd("UnexpectedByte")
    BY <1>2, <1>10, LexBad
  <2>2. QED
    BY <2>1 DEF k
<1>11. QED
  BY <1>4, <1>5, <1>6, <1>7, <1>8, <1>9, <1>10

\* What lex finds in a segment from an index on is what it finds in the octets
\* from there on.
LEMMA LexAhead ==
  ASSUME NEW a \in Seq(Octet), NEW b \in Seq(Octet), NEW d, Ahead(a, b, d),
         NEW g \in [LexIndices(b) -> LexResults],
         \A i \in LexIndices(b) : g[i] = LexAt(b, i, g)
  PROVE  g[1 + d] = Lex(a)
<1> DEFINE n == Len(a) + 1
<1>1. /\ d \in Nat /\ Len(a) \in Nat /\ Len(b) = Len(a) + d /\ Len(b) \in Nat
      /\ \A j \in 1..Len(a) : b[j + d] = a[j]
  BY DEF Ahead
<1>2. PICK f \in [LexIndices(a) -> LexResults] :
         /\ \A i \in LexIndices(a) : f[i] = LexAt(a, i, f)
         /\ Lex(a) = f[1]
  BY LexLoop
<1> DEFINE T == {i \in 1..n : g[i + d] = f[i]}
<1>3. \A i \in 1..n : i \in LexIndices(a) /\ i + d \in LexIndices(b)
  BY <1>1 DEF LexIndices
<1>4. ASSUME NEW i \in 1..n, \A j \in (i + 1)..n : j \in T
      PROVE  g[i + d] = f[i]
  <2>1. f[i] = LexAt(a, i, f) /\ g[i + d] = LexAt(b, i + d, g)
    BY <1>2, <1>3
  <2>2. CASE i = n
    <3>1. i > Len(a) /\ i + d > Len(b)
      BY <1>1, <2>2
    <3>2. QED
      BY <2>1, <3>1 DEF LexAt
  <2>3. CASE i # n
    <3>1. i \in 1..Len(a)
      BY <1>1, <2>3
    <3>2. \A j \in (i + 1)..(Len(a) + 1) : g[j + d] = f[j]
      BY <1>4
    <3> HIDE DEF T
    <3>3. LexAt(b, i + d, g) = LexAt(a, i, f)
      BY <3>1, <3>2, LexTurnAhead
    <3>4. QED
      BY <2>1, <3>3
  <2>4. QED
    BY <2>2, <2>3
<1>5. \A i \in 1..n : i \in T
  <2>1. \A i \in 1..n : (\A j \in (i + 1)..n : j \in T) => i \in T
    BY <1>4
  <2>2. 1 \in Int /\ n \in Int
    BY <1>1
  <2> HIDE DEF T, n
  <2>3. QED
    BY <2>1, <2>2, BackwardInduction
<1>6. 1 \in 1..n
  BY <1>1
<1>7. QED
  BY <1>2, <1>5, <1>6

LEMMA OneBehind ==
  ASSUME NEW s \in Seq(Octet), NEW y \in Octet
  PROVE  /\ s \o << y >> \in Seq(Octet) /\ Len(s \o << y >>) = Len(s) + 1
         /\ (s \o << y >>)[Len(s) + 1] = y
         /\ \A i \in 1..Len(s) : (s \o << y >>)[i] = s[i]
<1> DEFINE e == << y >>
<1>1. e \in Seq(Octet) /\ Len(e) = 1 /\ e[1] = y
  BY OneOctet
<1> HIDE DEF e
<1>2. /\ s \o e \in Seq(Octet) /\ Len(s \o e) = Len(s) + Len(e)
      /\ \A i \in 1..Len(s) : (s \o e)[i] = s[i]
      /\ \A i \in 1..Len(e) : (s \o e)[Len(s) + i] = e[i]
  <2>1. s \in Seq(Octet)
    OBVIOUS
  <2>2. e \in Seq(Octet)
    BY <1>1
  <2>3. QED
    BY ONLY <2>1, <2>2, Behind
<1>3. 1 \in 1..Len(e)
  BY <1>1
<1>4. (s \o e)[Len(s) + 1] = y
  BY <1>1, <1>2, <1>3
<1>5. Len(s \o e) = Len(s) + 1
  BY <1>1, <1>2
<1>6. QED
  BY <1>2, <1>4, <1>5 DEF e

LEMMA OneAhead ==
  ASSUME NEW s \in Seq(Octet), NEW y \in Octet
  PROVE  /\ << y >> \o s \in Seq(Octet) /\ Len(<< y >> \o s) = Len(s) + 1
         /\ (<< y >> \o s)[1] = y /\ Ahead(s, << y >> \o s, 1)
         /\ \A i \in 1..Len(s) : (<< y >> \o s)[i + 1] = s[i]
<1> DEFINE e == << y >>
<1>1. e \in Seq(Octet) /\ Len(e) = 1 /\ e[1] = y
  BY OneOctet
<1> HIDE DEF e
<1>2. /\ e \o s \in Seq(Octet)
      /\ \A i \in 1..Len(e) : (e \o s)[i] = e[i]
  BY <1>1, Behind
<1>3. Ahead(s, e \o s, Len(e))
  BY <1>1, BehindIsAhead
<1>4. 1 \in 1..Len(e)
  BY <1>1
<1>5. (e \o s)[1] = y
  BY <1>1, <1>2, <1>4
<1>6. Ahead(s, e \o s, 1)
  BY <1>1, <1>3
<1>7. QED
  BY <1>2, <1>5, <1>6 DEF e, Ahead

-----------------------------------------------------------------------------
(* What lex finds, one token at a time.                                    *)

\* The rest of a segment is lexed as if it were alone.
LEMMA LexBehind ==
  ASSUME NEW x \in Seq(Octet), x # <<>>, NEW s \in Seq(Octet)
  PROVE  /\ x \o s \in Seq(Octet) /\ Len(x \o s) = Len(x) + Len(s)
         /\ Len(x) \in Nat \ {0} /\ Len(s) \in Nat
         /\ \A i \in 1..Len(x) : (x \o s)[i] = x[i]
         /\ \A i \in 1..Len(s) : (x \o s)[Len(x) + i] = s[i]
         /\ \E f : Lex(x \o s) = LexAt(x \o s, 1, f) /\ f[Len(x) + 1] = Lex(s)
<1> DEFINE b == x \o s
           d == Len(x)
<1>1. d \in Nat \ {0}
  BY EmptySeq
<1>2. /\ b \in Seq(Octet) /\ Len(b) = d + Len(s) /\ Len(s) \in Nat
      /\ \A i \in 1..d : b[i] = x[i]
      /\ \A i \in 1..Len(s) : b[d + i] = s[i]
  BY Behind
<1>3. Ahead(s, b, d)
  BY BehindIsAhead
<1> HIDE DEF b, d
<1>4. PICK f \in [LexIndices(b) -> LexResults] :
         /\ \A i \in LexIndices(b) : f[i] = LexAt(b, i, f)
         /\ Lex(b) = f[1]
  BY <1>2, LexLoop
<1>5. f[1 + d] = Lex(s)
  BY <1>2, <1>3, <1>4, LexAhead
<1>6. 1 \in LexIndices(b) /\ 1 + d = d + 1
  BY <1>1, <1>2 DEF LexIndices
<1>7. Lex(b) = LexAt(b, 1, f) /\ f[d + 1] = Lex(s)
  BY <1>4, <1>5, <1>6
<1>8. QED
  BY <1>1, <1>2, <1>7 DEF b, d

LEMMA BlankLexed ==
  ASSUME NEW s \in Seq(Octet)
  PROVE  Lex(<< " " >> \o s) = Lex(s)
<1> DEFINE x == << " " >>
           b == x \o s
<1>1. x \in Seq(Octet) /\ x # <<>> /\ Len(x) = 1 /\ x[1] = " "
  <2>1. " " \in Octet
    BY KnownOctets
  <2>2. QED
    BY <2>1, OneOctet
<1> HIDE DEF x
<1>2. PICK f : Lex(b) = LexAt(b, 1, f) /\ f[Len(x) + 1] = Lex(s)
  BY <1>1, LexBehind
<1>3. /\ b \in Seq(Octet) /\ Len(b) = Len(x) + Len(s) /\ Len(s) \in Nat
      /\ \A i \in 1..Len(x) : b[i] = x[i]
  BY <1>1, LexBehind
<1> HIDE DEF b
<1>4. 1 \in 1..Len(b) /\ 1 \in 1..Len(x)
  <2>1. Len(x) = 1
    BY <1>1
  <2>2. Len(b) = Len(x) + Len(s) /\ Len(s) \in Nat
    BY <1>3
  <2>3. QED
    BY <2>1, <2>2
<1>5. b[1] \in Whitespace
  BY <1>1, <1>3, <1>4 DEF Whitespace
<1>6. LexAt(b, 1, f) = f[1 + 1]
  BY <1>3, <1>4, <1>5, LexBlank
<1>7. Lex(b) = Lex(s)
  BY <1>1, <1>2, <1>6
<1>8. QED
  BY <1>7 DEF b, x

\* A quoted value is one string token, whatever is behind it.
LEMMA QuotedLexed ==
  ASSUME NEW value \in Seq(Octet), NEW s \in Seq(Octet)
  PROVE  /\ Quoted(value) \in Seq(Octet) /\ Len(Quoted(value)) = Len(Escaped(value)) + 2
         /\ Quoted(value)[1] = Quote
         /\ Lex(Quoted(value) \o s) = Pushed(Str(value), Lex(s))
<1> DEFINE q == << Quote >>
           e == Escaped(value)
           x == Quoted(value)
           t == q \o s
           b == x \o s
<1>1. q \in Seq(Octet) /\ q # <<>> /\ Len(q) = 1 /\ q[1] = Quote
  <2>1. Quote \in Octet
    BY KnownOctets
  <2>2. QED
    BY <2>1, OneOctet
<1>2. e \in Seq(Octet) /\ Len(e) \in Nat
  BY EscapedLength, LenProperties
<1>3. x = (q \o e) \o q
  BY DEF Quoted
<1> HIDE DEF q, e, x
<1>4. /\ q \o e \in Seq(Octet) /\ Len(q \o e) = Len(q) + Len(e)
      /\ \A i \in 1..Len(q) : (q \o e)[i] = q[i]
  BY <1>1, <1>2, Behind
<1>5. /\ x \in Seq(Octet) /\ Len(x) = Len(e) + 2 /\ x[1] = Quote /\ x # <<>>
  <2> DEFINE p == q \o e
  <2>1. p \in Seq(Octet) /\ Len(p) = 1 + Len(e) /\ p[1] = Quote
    <3>1. 1 \in 1..Len(q)
      BY <1>1
    <3>2. QED
      BY <1>1, <1>4, <3>1
  <2> HIDE DEF p
  <2>2. /\ p \o q \in Seq(Octet) /\ Len(p \o q) = Len(p) + Len(q)
        /\ \A i \in 1..Len(p) : (p \o q)[i] = p[i]
    <3>1. p \in Seq(Octet)
      BY <2>1
    <3>2. QED
      BY <1>1, <3>1, Behind
  <2>3. x = p \o q
    BY <1>3 DEF p
  <2>4. 1 \in 1..Len(p)
    BY <1>2, <2>1
  <2>5. Len(x) = Len(e) + 2
    BY <1>1, <1>2, <2>1, <2>2, <2>3
  <2>6. Len(x) # 0
    BY <1>2, <2>5
  <2>7. x # <<>>
    BY <2>6
  <2>8. QED
    BY <2>1, <2>2, <2>3, <2>4, <2>5, <2>7
<1>6. b = q \o (e \o t)
  <2>1. q \in Seq(Octet)
    BY <1>1
  <2>2. e \in Seq(Octet)
    BY <1>2
  <2>3. q \o e \in Seq(Octet)
    BY <1>4
  <2>4. ((q \o e) \o q) \o s = (q \o e) \o (q \o s)
    BY <2>1, <2>3, OctetsAssociate
  <2>5. q \o s \in Seq(Octet)
    BY <2>1, Behind
  <2>6. (q \o e) \o (q \o s) = q \o (e \o (q \o s))
    BY <2>1, <2>2, <2>5, OctetsAssociate
  <2>7. QED
    BY <1>3, <2>4, <2>6
<1>7. LexQuoted(b, 1) = [err |-> Fine, string |-> value, next |-> Len(x) + 1]
  <2>1. LexQuoted(q \o (e \o t), Len(q)) =
          [err |-> Fine, string |-> value, next |-> Len(q) + Len(e) + 2]
    <3>1. q \in Seq(Octet) /\ q # <<>>
      BY <1>1
    <3>2. QED
      BY <3>1, EscapedReadsBack DEF e, q
  <2>2. Len(q) + Len(e) + 2 = Len(x) + 1 /\ Len(q) = 1
    BY <1>1, <1>2, <1>5
  <2> HIDE DEF b, t
  <2>3. QED
    BY <1>6, <2>1, <2>2
<1> HIDE DEF t
<1>8. PICK f : Lex(b) = LexAt(b, 1, f) /\ f[Len(x) + 1] = Lex(s)
  BY <1>5, LexBehind
<1>9. /\ b \in Seq(Octet) /\ Len(b) = Len(x) + Len(s) /\ Len(s) \in Nat
      /\ \A i \in 1..Len(x) : b[i] = x[i]
  BY <1>5, LexBehind
<1> HIDE DEF b
<1>10. 1 \in 1..Len(b) /\ 1 \in 1..Len(x)
  BY <1>2, <1>5, <1>9
<1>11. b[1] = Quote
  BY <1>5, <1>9, <1>10
<1>12. Lex(b) = Pushed(Str(value), Lex(s))
  <2> DEFINE r == LexQuoted(b, 1)
  <2>1. LexAt(b, 1, f) = IF r.err = Fine THEN Pushed(Str(r.string), f[r.next]) ELSE LexEnd(r.err)
    BY <1>9, <1>10, <1>11, LexString
  <2>2. r.err = Fine /\ r.string = value /\ r.next = Len(x) + 1
    BY <1>7
  <2> HIDE DEF r
  <2>3. QED
    BY <1>8, <2>1, <2>2
<1>13. QED
  BY <1>5, <1>12 DEF b, x, e

\* An atom is one token, if what is behind it ends it.
LEMMA AtomLexed ==
  ASSUME NEW x \in Seq(Octet), x # <<>>, \A i \in 1..Len(x) : x[i] \notin AtomSpecials,
         NEW s \in Seq(Octet), s = <<>> \/ s[1] \in AtomSpecials
  PROVE  Lex(x \o s) = Pushed(Atom(x), Lex(s))
<1> DEFINE b == x \o s
           end == AtomEnd(b, 1)
           n == Len(x)
<1>1. /\ b \in Seq(Octet) /\ Len(b) = n + Len(s) /\ Len(s) \in Nat /\ n \in Nat \ {0}
      /\ \A i \in 1..n : b[i] = x[i]
      /\ \A i \in 1..Len(s) : b[n + i] = s[i]
  BY LexBehind
<1>2. PICK f : Lex(b) = LexAt(b, 1, f) /\ f[n + 1] = Lex(s)
  BY LexBehind
<1>3. SubSeq(b, 1, n) = x
  <2>1. Begins(x, b)
    BY BeginsLonger
  <2>2. n \in Int /\ n <= Len(x) /\ 1 \in Nat \ {0}
    BY <1>1
  <2>3. SubSeq(b, 1, n) = SubSeq(x, 1, n)
    <3> HIDE DEF b, n
    <3>1. b \in Seq(Octet)
      BY <1>1
    <3>2. QED
      BY <2>1, <2>2, <3>1, SubSeqAgrees, ZenonT(60)
  <2>4. SubSeq(x, 1, n) = x
    BY SubSeqFull
  <2>5. QED
    BY <2>3, <2>4
<1>4. n = Len(x)
  OBVIOUS
<1> HIDE DEF b, n
<1>5. 1 \in 1..Len(b) /\ 1 \in 1..n /\ b[1] \notin AtomSpecials
  BY <1>1, <1>4
<1>6. /\ end \in (1 + 1)..(Len(b) + 1)
      /\ \A j \in 1..(end - 1) : b[j] \notin AtomSpecials
      /\ end <= Len(b) => b[end] \in AtomSpecials
  BY <1>1, <1>5, AtomEndIsLater
<1>7. end = n + 1
  <2> HIDE DEF end
  <2>1. ~ (end < n + 1)
    <3>1. ASSUME end < n + 1
          PROVE  end \in 1..n /\ end <= Len(b)
      BY <1>1, <1>6, <3>1
    <3>2. QED
      BY <1>1, <1>4, <1>6, <3>1
  <2>2. ~ (end > n + 1)
    <3>1. ASSUME end > n + 1
          PROVE  n + 1 \in 1..(end - 1) /\ Len(s) # 0 /\ 1 \in 1..Len(s)
      BY <1>1, <1>6, <3>1
    <3>2. ASSUME end > n + 1
          PROVE  FALSE
      <4>1. b[n + 1] = s[1] /\ s # <<>> /\ b[n + 1] \notin AtomSpecials
        BY <1>1, <1>6, <3>1, <3>2
      <4>2. QED
        BY <4>1
    <3>3. QED
      BY <3>2
  <2>3. end \in Int /\ n \in Int
    BY <1>1, <1>6
  <2>4. QED
    BY <2>1, <2>2, <2>3
<1>8. b[1] \notin Whitespace \cup Control \cup {Quote, Brace, "(", ")", Backslash}
  <2>1. Whitespace \cup Control \cup {Quote, Brace, "(", ")", Backslash} \subseteq AtomSpecials
    BY DEF Whitespace, Control, AtomSpecials, QuotedSpecials
  <2>2. QED
    BY <1>5, <2>1
<1>9. LexAt(b, 1, f) = Pushed(Atom(SubSeq(b, 1, end - 1)), f[end])
  BY <1>1, <1>5, <1>8, LexAtom
<1>10. (n + 1) - 1 = n
  BY <1>1
<1>11. Lex(b) = Pushed(Atom(x), Lex(s))
  BY <1>2, <1>3, <1>7, <1>9, <1>10
<1>12. QED
  BY <1>11 DEF b

-----------------------------------------------------------------------------
(* The marker of a literal.                                                *)

MarkerText(size) == << Brace >> \o Decimal(size) \o << "+", "}" >>

\* What a marker is made of, cut at each end.
LEMMA MarkerParts ==
  ASSUME NEW size \in Nat
  PROVE  /\ MarkerText(size) \in Seq(Octet) /\ Len(MarkerText(size)) = Len(Decimal(size)) + 3
         /\ MarkerText(size)[1] = Brace /\ Last(MarkerText(size)) = "}"
         /\ \A i \in 1..Len(MarkerText(size)) : MarkerText(size)[i] # LF
         /\ SubSeq(MarkerText(size), 2, Len(MarkerText(size)) - 1) = Decimal(size) \o << "+" >>
<1> DEFINE b == << Brace >>
           d == Decimal(size)
           p == << "+" >>
           c == << "}" >>
           m == MarkerText(size)
           t == d \o p
           u == t \o c
<1>1. /\ Brace \in Octet /\ "+" \in Octet /\ "}" \in Octet
      /\ b \in Seq(Octet) /\ p \in Seq(Octet) /\ c \in Seq(Octet)
  BY KnownOctets, OneOctet
<1>2. d \in Seq(Digits) /\ d \in Seq(Octet) /\ Len(d) \in Nat
  <2>1. d \in Seq(Digits)
    BY DecimalIsNumber
  <2>2. Digits \subseteq Octet
    BY LexerAssumption
  <2> HIDE DEF d
  <2>3. QED
    BY <2>1, <2>2, SeqMonotonic
<1>3. << "+", "}" >> = p \o c
  BY <1>1, TwoOctets
<1>4. m = (b \o d) \o (p \o c)
  BY <1>3 DEF MarkerText
<1> HIDE DEF d, m
<1>5. /\ t \in Seq(Octet) /\ Len(t) = Len(d) + 1 /\ t[Len(d) + 1] = "+"
      /\ \A i \in 1..Len(d) : t[i] = d[i]
  BY <1>1, <1>2, OneBehind
<1> HIDE DEF t
<1>6. /\ u \in Seq(Octet) /\ Len(u) = Len(t) + 1 /\ u[Len(t) + 1] = "}"
      /\ \A i \in 1..Len(t) : u[i] = t[i]
  BY <1>1, <1>5, OneBehind
<1>7. m = b \o u
  <2> HIDE DEF b, p, c, u
  <2>1. b \in Seq(Octet)
    BY <1>1
  <2>2. d \in Seq(Octet)
    BY <1>2
  <2>3. p \in Seq(Octet)
    BY <1>1
  <2>4. c \in Seq(Octet)
    BY <1>1
  <2>5. p \o c \in Seq(Octet)
    BY <2>3, <2>4, Behind
  <2>6. (b \o d) \o (p \o c) = b \o (d \o (p \o c))
    BY <2>1, <2>2, <2>5, OctetsAssociate
  <2>7. (d \o p) \o c = d \o (p \o c)
    BY <2>2, <2>3, <2>4, OctetsAssociate
  <2>8. QED
    BY <1>4, <2>6, <2>7 DEF u, t
<1> HIDE DEF u
<1>8. /\ m \in Seq(Octet) /\ Len(m) = Len(u) + 1 /\ m[1] = Brace /\ Ahead(u, m, 1)
      /\ \A i \in 1..Len(u) : m[i + 1] = u[i]
  BY <1>1, <1>6, <1>7, OneAhead
<1>9. Len(t) = Len(d) + 1 /\ Len(u) = Len(t) + 1 /\ Len(m) = Len(u) + 1
  BY <1>5, <1>6, <1>8
<1>10. Len(t) \in Nat /\ Len(u) = Len(d) + 2 /\ Len(m) = Len(d) + 3 /\ Len(u) \in Nat
  BY <1>2, <1>9
<1>14. Last(m) = "}"
  <2>1. Len(u) \in 1..Len(u)
    BY <1>2, <1>10
  <2>2. m[Len(u) + 1] = u[Len(u)]
    BY <1>8, <2>1
  <2>3. m[Len(m)] = "}"
    BY <1>6, <1>9, <2>2
  <2>4. QED
    BY <2>3 DEF Last
<1>15. ASSUME NEW i \in 1..Len(m) PROVE m[i] # LF
  <2> DEFINE j == i - 1
  <2>1. j + 1 = i /\ (i # 1 => j \in 1..Len(u)) /\ j \in Int
    BY <1>2, <1>10
  <2> HIDE DEF j
  <2>2. i # 1 => m[i] = u[j]
    BY <1>8, <2>1
  <2>3. CASE i = 1
    BY <1>8, <2>3, KnownOctets
  <2>4. CASE i # 1 /\ j <= Len(d)
    <3>1. j \in 1..Len(d) /\ j \in 1..Len(t)
      BY <1>2, <1>10, <1>9, <2>1, <2>4
    <3>2. u[j] = t[j]
      BY <1>6, <3>1
    <3>3. t[j] = d[j]
      BY <1>5, <3>1
    <3>4. d[j] \in Digits
      BY <1>2, <3>1, ElementOfSeq
    <3>5. d[j] \notin Control
      BY <3>4, DigitValue
    <3>6. QED
      BY <2>2, <2>4, <3>2, <3>3, <3>5, KnownOctets
  <2>5. CASE i # 1 /\ j = Len(d) + 1
    <3>1. j \in 1..Len(t)
      BY <1>2, <1>9, <2>5
    <3>2. u[j] = "+"
      BY <1>5, <1>6, <2>5, <3>1
    <3>3. QED
      BY <2>2, <2>5, <3>2, KnownOctets
  <2>6. CASE i # 1 /\ j = Len(d) + 2
    <3>1. j = Len(t) + 1
      BY <1>2, <1>9, <2>6
    <3>2. u[j] = "}"
      BY <1>6, <3>1
    <3>3. QED
      BY <2>2, <2>6, <3>2, KnownOctets
  <2>7. i # 1 => j <= Len(d) \/ j = Len(d) + 1 \/ j = Len(d) + 2
    BY <1>2, <1>10, <2>1
  <2>8. QED
    BY <2>3, <2>4, <2>5, <2>6, <2>7
<1>16. SubSeq(m, 2, Len(m) - 1) = t
  <2> DEFINE l == Len(m) - 1
             n == Len(t)
  <2>1. l \in Int /\ l = n + 1
    BY <1>2, <1>9, <1>10
  <2>2. n \in Int /\ n <= Len(u) /\ n <= Len(t)
    BY <1>2, <1>9, <1>10
  <2>3. 2 \in Int /\ 2 = 1 + 1 /\ 1 \in Nat \ {0}
    OBVIOUS
  <2>4. Ahead(u, m, 1)
    BY <1>8
  <2>5. u \in Seq(Octet) /\ m \in Seq(Octet) /\ t \in Seq(Octet)
    BY <1>5, <1>6, <1>8
  <2> HIDE DEF l, n
  <2>6. \A k \in Int : k = 1 + 1 => SubSeq(m, k, l) = SubSeq(u, 1, n)
    BY <2>1, <2>2, <2>3, <2>4, <2>5, SubSeqAhead
  <2>7. SubSeq(m, 2, l) = SubSeq(u, 1, n)
    BY <2>3, <2>6
  <2>8. Begins(t, u)
    BY <1>6, <2>2 DEF Begins, n
  <2>9. SubSeq(u, 1, n) = SubSeq(t, 1, n)
    BY <2>2, <2>3, <2>5, <2>8, SubSeqAgrees, SMTT(60)
  <2>10. SubSeq(t, 1, n) = t
    BY <2>5, SubSeqFull DEF n
  <2>11. QED
    BY <2>7, <2>9, <2>10 DEF l
<1>17. QED
  BY <1>8, <1>10, <1>14, <1>15, <1>16 DEF t, m, d, p

\* The marker of a literal within the limits announces its size.
LEMMA MarkerLexed ==
  ASSUME NEW size \in Nat, size <= MaxLiteral, size <= MaxSize
  PROVE  Lex(MarkerText(size)) = [err |-> Fine, tokens |-> <<>>, marker |-> size]
<1> DEFINE m == MarkerText(size)
           d == Decimal(size)
           inner == d \o << "+" >>
<1>1. /\ m \in Seq(Octet) /\ Len(m) = Len(d) + 3 /\ m[1] = Brace /\ Last(m) = "}"
      /\ SubSeq(m, 2, Len(m) - 1) = inner
  BY MarkerParts
<1>2. d \in Seq(Digits) /\ d # <<>> /\ Number(d) = size
  BY DecimalIsNumber
<1>3. d \in Seq(Octet) /\ Len(d) \in Nat
  <2>1. Digits \subseteq Octet
    BY LexerAssumption
  <2> HIDE DEF d
  <2>2. QED
    BY <1>2, <2>1, SeqMonotonic
<1> HIDE DEF m, d
<1>4. /\ inner \in Seq(Octet) /\ Len(inner) = Len(d) + 1 /\ inner[Len(d) + 1] = "+"
      /\ \A i \in 1..Len(d) : inner[i] = d[i]
  BY <1>3, KnownOctets, OneBehind
<1> HIDE DEF inner
<1>5. Last(inner) = "+" /\ inner # <<>>
  <2>1. Len(inner) # 0
    BY <1>3, <1>4
  <2>2. QED
    BY <1>4, <2>1 DEF Last
<1>6. Front(inner) = d
  <2> DEFINE n == Len(d)
  <2>1. Begins(d, inner) /\ n \in Int /\ n <= Len(d) /\ 1 \in Nat \ {0}
    BY <1>3, <1>4 DEF Begins
  <2>2. Len(inner) - 1 = n
    BY <1>3, <1>4
  <2> HIDE DEF n
  <2>3. SubSeq(inner, 1, n) = SubSeq(d, 1, n)
    BY <1>3, <1>4, <2>1, SubSeqAgrees
  <2>4. SubSeq(d, 1, n) = d
    BY <1>3, SubSeqFull DEF n
  <2>5. QED
    BY <2>2, <2>3, <2>4 DEF Front
<1>7. ToSet(d) \subseteq Digits
  BY <1>2 DEF ToSet
<1>8. LexLiteralMarker(m) = [err |-> Fine, tokens |-> <<>>, marker |-> size]
  <2>1. (IF inner # <<>> /\ Last(inner) = "+" THEN Front(inner) ELSE inner) = d
    BY <1>5, <1>6
  <2>2. size \in 0..MaxSize /\ WithinLiteral(size)
    BY Limits DEF WithinLiteral
  <2>3. Last(m) = "}" /\ d # <<>>
    BY <1>1, <1>2
  <2>4. LexLiteralMarker(m) =
          IF Last(m) # "}" \/ d = <<>> \/ ~(ToSet(d) \subseteq Digits)
            THEN LexEnd("InvalidLiteralMarker")
          ELSE IF size \notin 0..MaxSize THEN LexEnd("InvalidLiteralMarker")
          ELSE IF ~WithinLiteral(size) THEN LexEnd("LiteralTooLarge")
          ELSE [err |-> Fine, tokens |-> <<>>, marker |-> size]
    BY <1>1, <1>2, <2>1 DEF LexLiteralMarker
  <2>5. QED
    BY <1>7, <2>2, <2>3, <2>4
<1>9. PICK f \in [LexIndices(m) -> LexResults] :
         /\ \A i \in LexIndices(m) : f[i] = LexAt(m, i, f)
         /\ Lex(m) = f[1]
  BY <1>1, LexLoop
<1>10. 1 \in 1..Len(m) /\ 1 \in LexIndices(m)
  <2> DEFINE l == Len(d)
             n == Len(m)
  <2>1. l \in Nat /\ n = l + 3
    BY <1>1, <1>3
  <2> HIDE DEF l, n
  <2>2. n \in Nat /\ 1 \in 1..n /\ 1 \in 1..(n + 1)
    BY <2>1
  <2>3. QED
    BY <2>2 DEF LexIndices, n
<1>11. LexAt(m, 1, f) = LexLiteralMarker(SubSeq(m, 1, Len(m)))
  BY <1>1, <1>10, LexMarker
<1>12. SubSeq(m, 1, Len(m)) = m
  BY <1>1, SubSeqFull
<1>13. QED
  BY <1>8, <1>9, <1>10, <1>11, <1>12 DEF m

\* Nothing is lexed as nothing.
LEMMA NothingLexed ==
  Lex(<<>>) = [err |-> Fine, tokens |-> <<>>, marker |-> NoMarker]
<1>1. <<>> \in Seq(Octet) /\ Len(<<>>) = 0
  BY EmptySeq
<1>2. PICK f \in [LexIndices(<<>>) -> LexResults] :
         /\ \A i \in LexIndices(<<>>) : f[i] = LexAt(<<>>, i, f)
         /\ Lex(<<>>) = f[1]
  BY <1>1, LexLoop
<1>3. 1 \in LexIndices(<<>>) /\ 1 > Len(<<>>)
  BY <1>1 DEF LexIndices
<1>4. LexAt(<<>>, 1, f) = LexEnd(Fine)
  BY <1>3 DEF LexAt
<1>5. QED
  BY <1>2, <1>3, <1>4 DEF LexEnd

-----------------------------------------------------------------------------
(* A line further on.                                                      *)

\* The first end of a line is the same one when more is in front.
LEMMA EolAhead ==
  ASSUME NEW a \in Seq(Octet), NEW b \in Seq(Octet), NEW d, Ahead(a, b, d),
         NEW i \in ScanIndices(a), NEW h, h = i + d
  PROVE  /\ h \in ScanIndices(b)
         /\ Eols(b, h) = {} <=> Eols(a, i) = {}
         /\ Eols(a, i) # {} => Min(Eols(b, h)) = Min(Eols(a, i)) + d
<1> DEFINE e == Min(Eols(a, i))
           k == Min(Eols(b, h))
<1>1. /\ Len(a) \in Nat /\ Len(b) \in Nat /\ Len(b) = Len(a) + d /\ d \in Nat
      /\ i \in Nat \ {0} /\ i \in 1..(Len(a) + 1) /\ h \in Nat \ {0} /\ h \in 1..(Len(b) + 1)
  BY DEF Ahead, ScanIndices
<1>2. h \in ScanIndices(b)
  BY <1>1 DEF ScanIndices
<1>3. \A j \in i..Len(a) : b[j + d] = a[j] /\ j + d \in h..Len(b)
  BY <1>1 DEF Ahead
<1>4. \A j \in h..Len(b) : j - d \in i..Len(a) /\ (j - d) + d = j /\ b[j] = a[j - d]
  <2>1. ASSUME NEW j \in h..Len(b) PROVE j - d \in i..Len(a) /\ (j - d) + d = j
    BY <1>1
  <2>2. QED
    BY <1>3, <2>1
<1>5. \A j \in Eols(a, i) : j + d \in Eols(b, h)
  BY <1>3 DEF Eols
<1>6. \A j \in Eols(b, h) : j - d \in Eols(a, i)
  BY <1>4 DEF Eols
<1>7. Eols(b, h) = {} <=> Eols(a, i) = {}
  BY <1>5, <1>6
<1>8. ASSUME Eols(a, i) # {} PROVE k = e + d
  <2>1. e \in i..Len(a) /\ a[e] = LF /\ \A j \in i..(e - 1) : a[j] # LF
    BY <1>8, EolIsFirst
  <2>2. k \in h..Len(b) /\ b[k] = LF /\ \A j \in h..(k - 1) : b[j] # LF
    BY <1>2, <1>7, <1>8, EolIsFirst
  <2> HIDE DEF e, k
  <2>3. b[e + d] = LF /\ e + d \in h..Len(b)
    BY <1>3, <2>1
  <2>4. a[k - d] = LF /\ k - d \in i..Len(a)
    BY <1>4, <2>2
  <2>5. ~ (e + d < k)
    <3>1. ASSUME e + d < k PROVE e + d \in h..(k - 1)
      BY <1>1, <2>1, <2>2, <2>3, <3>1
    <3>2. QED
      BY <2>2, <2>3, <3>1
  <2>6. ~ (k - d < e)
    <3>1. ASSUME k - d < e PROVE k - d \in i..(e - 1)
      BY <1>1, <2>1, <2>2, <2>4, <3>1
    <3>2. QED
      BY <2>1, <2>4, <3>1
  <2>7. QED
    BY <1>1, <2>1, <2>2, <2>5, <2>6
<1>9. QED
  BY <1>2, <1>7, <1>8

LEMMA SegmentAhead ==
  ASSUME NEW a \in Seq(Octet), NEW b \in Seq(Octet), NEW d, Ahead(a, b, d),
         NEW i \in ScanIndices(a), NEW h, h = i + d,
         NEW eol \in i..Len(a), NEW k, k = eol + d
  PROVE  Segment(b, h, k) = Segment(a, i, eol)
<1>1. /\ Len(a) \in Nat /\ d \in Nat /\ i \in Nat \ {0} /\ eol \in Nat
      /\ h \in Int /\ k \in Int
  BY DEF Ahead, ScanIndices
<1>2. eol > i <=> k > h
  BY <1>1
<1>3. eol > i => b[k - 1] = a[eol - 1]
  <2>1. ASSUME eol > i PROVE eol - 1 \in 1..Len(a) /\ (eol - 1) + d = k - 1
    BY <1>1, <2>1
  <2>2. QED
    BY <2>1 DEF Ahead
<1>4. SubSeq(b, h, k - 1) = SubSeq(a, i, eol - 1)
  <2> DEFINE n == eol - 1
             l == k - 1
  <2>1. n \in Int /\ n <= Len(a) /\ l \in Int /\ l = n + d
    BY <1>1
  <2> HIDE DEF n, l
  <2>2. SubSeq(b, h, l) = SubSeq(a, i, n)
    BY <1>1, <2>1, SubSeqAhead
  <2>3. QED
    BY <2>2 DEF n, l
<1>5. SubSeq(b, h, k - 2) = SubSeq(a, i, eol - 2)
  <2> DEFINE n == eol - 2
             l == k - 2
  <2>1. n \in Int /\ n <= Len(a) /\ l \in Int /\ l = n + d
    BY <1>1
  <2> HIDE DEF n, l
  <2>2. SubSeq(b, h, l) = SubSeq(a, i, n)
    BY <1>1, <2>1, SubSeqAhead
  <2>3. QED
    BY <2>2 DEF n, l
<1>6. CASE eol > i
  BY <1>2, <1>3, <1>4, <1>5, <1>6 DEF Segment
<1>7. CASE ~ (eol > i)
  BY <1>2, <1>4, <1>7 DEF Segment
<1>8. QED
  BY <1>6, <1>7

\* What scan_line finds, seen from a buffer that begins d octets earlier.
ScanMoved(r, d) ==
  IF r.is = "line" THEN [is |-> "line", tokens |-> r.tokens, consumed |-> r.consumed + d] ELSE r

\* One turn of scan_line, and the same turn d octets on.
LEMMA ScanTurnAhead ==
  ASSUME NEW a \in Seq(Octet), NEW b \in Seq(Octet), NEW d, Ahead(a, b, d),
         NEW i \in ScanIndices(a), NEW h, h = i + d,
         NEW f \in [ScanIndices(a) -> ScanResults(a)], NEW g,
         \A j \in (i + 1)..(Len(a) + 1) : g[j + d] = ScanMoved(f[j], d)
  PROVE  ScanAt(b, h, g) = ScanMoved(ScanAt(a, i, f), d)
<1> DEFINE e == Min(Eols(a, i))
           lexed == Lex(Segment(a, i, e))
           stop == e + lexed.marker
           late == stop + d
<1>1. h \in ScanIndices(b) /\ (Eols(b, h) = {} <=> Eols(a, i) = {})
  BY EolAhead
<1>2. /\ Len(a) \in Nat /\ Len(b) \in Nat /\ Len(b) = Len(a) + d /\ d \in Nat
      /\ i \in Nat \ {0} /\ i \in 1..(Len(a) + 1)
  BY DEF Ahead, ScanIndices
<1>3. CASE Eols(a, i) = {}
  BY <1>1, <1>3 DEF ScanAt, ScanMoved, Incomplete
<1>4. CASE Eols(a, i) # {}
  <2>1. e \in i..Len(a)
    BY <1>4, EolIsFirst
  <2>2. Min(Eols(b, h)) = e + d
    BY <1>4, EolAhead
  <2>3. Segment(b, h, e + d) = Segment(a, i, e)
    BY <2>1, SegmentAhead
  <2>4. lexed \in LexResults
    BY <2>1, SegmentType, LexType
  <2>5. /\ ScanAt(a, i, f) = EndOrLiteral(a, e, lexed, f)
        /\ ScanAt(b, h, g) = EndOrLiteral(b, e + d, lexed, g)
    BY <1>1, <1>4, <2>2, <2>3 DEF ScanAt
  <2> HIDE DEF e, lexed
  <2>6. CASE lexed.err # Fine
    BY <2>5, <2>6 DEF EndOrLiteral, Bad, ScanMoved
  <2>7. CASE lexed.err = Fine /\ lexed.marker = NoMarker
    BY <2>5, <2>7 DEF EndOrLiteral, ScanMoved
  <2>8. CASE lexed.err = Fine /\ lexed.marker # NoMarker
    <3>1. lexed.marker \in Nat /\ stop \in Nat /\ e + d + lexed.marker = late /\ late \in Nat
      BY <1>2, <2>1, <2>4, <2>8, Limits DEF LexResults
    <3>2. Len(b) < late <=> Len(a) < stop
      BY <1>2, <3>1
    <3>3. CASE Len(a) < stop
      BY <2>5, <2>8, <3>1, <3>2, <3>3 DEF EndOrLiteral, ScanMoved, Incomplete
    <3>4. CASE ~ (Len(a) < stop)
      <4>1. stop + 1 \in (i + 1)..(Len(a) + 1) /\ stop + 1 \in ScanIndices(a)
        <5>1. stop >= e /\ stop <= Len(a) /\ e >= i /\ e \in Int /\ stop \in Int
          BY <1>2, <2>1, <3>1, <3>4
        <5> HIDE DEF stop
        <5>2. stop + 1 \in (i + 1)..(Len(a) + 1) /\ stop + 1 \in 1..(Len(a) + 1)
          BY <1>2, <5>1
        <5>3. QED
          BY <5>2 DEF ScanIndices
      <4> DEFINE r == f[stop + 1]
                 q == g[late + 1]
                 c == << Str(SubSeq(a, e + 1, stop)) >>
      <4>2. r \in ScanResults(a)
        BY <4>1
      <4>3. q = ScanMoved(r, d)
        <5>1. late + 1 = (stop + 1) + d
          BY <1>2, <3>1
        <5>2. QED
          BY <4>1, <5>1
      <4>4. SubSeq(b, e + d + 1, late) = SubSeq(a, e + 1, stop)
        <5> DEFINE m == e + 1
                   n == e + d + 1
        <5>1. m \in Nat \ {0} /\ n \in Int /\ n = m + d /\ d \in Nat
          BY <1>2, <2>1
        <5>2. stop \in Int /\ stop <= Len(a)
          BY <3>1, <3>4, <1>2
        <5>3. late \in Int /\ late = stop + d
          BY <3>1
        <5> HIDE DEF m, n, stop, late
        <5>4. SubSeq(b, n, late) = SubSeq(a, m, stop)
          BY <5>1, <5>2, <5>3, SubSeqAhead
        <5>5. QED
          BY <5>4 DEF m, n
      <4>5. ScanAt(a, i, f) = IF r.is # "line" THEN r
                              ELSE [r EXCEPT !.tokens = lexed.tokens \o c \o @]
        BY <2>5, <2>8, <3>4 DEF EndOrLiteral
      <4>6. ScanAt(b, h, g) = IF q.is # "line" THEN q
                              ELSE [q EXCEPT !.tokens = lexed.tokens \o c \o @]
        BY <2>5, <2>8, <3>1, <3>2, <3>4, <4>4 DEF EndOrLiteral
      <4> HIDE DEF r, q, c, stop, late
      <4>7. CASE r.is # "line"
        BY <4>3, <4>5, <4>6, <4>7 DEF ScanMoved
      <4>8. CASE r.is = "line"
        <5>1. r \in [is : {"line"}, tokens : Seq(Token), consumed : 1..Len(a)]
          BY <4>2, <4>8, ScanKinds DEF ScannedLines
        <5>2. q = [is |-> "line", tokens |-> r.tokens, consumed |-> r.consumed + d]
          BY <4>3, <4>8 DEF ScanMoved
        <5>3. ScanAt(b, h, g) = [is |-> "line", tokens |-> lexed.tokens \o c \o r.tokens,
                                 consumed |-> r.consumed + d]
          BY <4>6, <5>2
        <5>4. ScanAt(a, i, f) = [is |-> "line", tokens |-> lexed.tokens \o c \o r.tokens,
                                 consumed |-> r.consumed]
          BY <4>5, <4>8, <5>1
        <5>5. QED
          BY <5>3, <5>4 DEF ScanMoved
      <4>9. QED
        BY <4>7, <4>8
    <3>5. QED
      BY <3>3, <3>4
  <2>9. QED
    BY <2>6, <2>7, <2>8
<1>5. QED
  BY <1>3, <1>4

\* The two loops find the same from there on.
LEMMA ScanAhead ==
  ASSUME NEW a \in Seq(Octet), NEW b \in Seq(Octet), NEW d, Ahead(a, b, d),
         NEW f \in [ScanIndices(a) -> ScanResults(a)],
         \A i \in ScanIndices(a) : f[i] = ScanAt(a, i, f),
         NEW g, \A i \in ScanIndices(b) : g[i] = ScanAt(b, i, g)
  PROVE  \A i \in ScanIndices(a) : g[i + d] = ScanMoved(f[i], d)
<1> DEFINE T == {i \in ScanIndices(a) : g[i + d] = ScanMoved(f[i], d)}
           n == Len(a) + 1
<1>1. n \in Int /\ 1 \in Int /\ ScanIndices(a) = 1..n
  BY DEF Ahead, ScanIndices
<1>2. ASSUME NEW i \in 1..n, \A j \in (i + 1)..n : j \in T
      PROVE  i \in T
  <2> DEFINE h == i + d
  <2>1. i \in ScanIndices(a) /\ h = i + d
    BY <1>1
  <2>2. \A j \in (i + 1)..(Len(a) + 1) : g[j + d] = ScanMoved(f[j], d)
    BY <1>2
  <2> HIDE DEF h
  <2>3. h \in ScanIndices(b)
    BY <2>1, EolAhead
  <2>4. ScanAt(b, h, g) = ScanMoved(ScanAt(a, i, f), d)
    BY <2>1, <2>2, ScanTurnAhead
  <2>5. QED
    BY <2>1, <2>3, <2>4
<1>3. \A i \in 1..n : i \in T
  <2> HIDE DEF T, n
  <2>1. QED
    BY <1>1, <1>2, BackwardInduction
<1>4. QED
  BY <1>1, <1>3

-----------------------------------------------------------------------------
(* What a line is read as, from its end to its beginning.                  *)

\* The octets u are one line, of those tokens, and no more.
IsLine(u, tokens) ==
  /\ u \in Seq(Octet) /\ u # <<>>
  /\ ScanLine(u) = [is |-> "line", tokens |-> tokens, consumed |-> Len(u)]

\* An atom in front of them ends there.
Follows(u) == u[1] \in AtomSpecials \ {LF}

LEMMA SubSeqBehind ==
  ASSUME NEW x \in Seq(Octet), NEW u \in Seq(Octet), NEW n \in 0..Len(u)
  PROVE  /\ SubSeq(x \o u, 1, Len(x) + n) = x \o SubSeq(u, 1, n)
         /\ SubSeq(u, 1, n) \in Seq(Octet) /\ Len(SubSeq(u, 1, n)) = n
         /\ \A i \in 1..n : SubSeq(u, 1, n)[i] = u[i]
<1> DEFINE b == x \o u
           m == Len(x)
           c == SubSeq(u, 1, n)
           l == SubSeq(b, 1, m + n)
           r == x \o c
<1>1. b \in Seq(Octet) /\ m \in Nat /\ Len(u) \in Nat /\ Len(b) = m + Len(u) /\ n \in Nat /\ n <= Len(u)
  BY Behind
<1>2. (\A i \in 1..m : b[i] = x[i]) /\ \A i \in 1..Len(u) : b[m + i] = u[i]
  BY Behind
<1>3. \A i \in 1..n : u[i] \in Octet
  BY <1>1, ElementOfSeq
<1>4. c \in Seq(Octet) /\ Len(c) = n /\ \A i \in 1..n : c[i] = u[i]
  BY <1>1, <1>3, SubSeqProperties
<1>5. \A i \in 1..(m + n) : b[i] \in Octet
  BY <1>1, ElementOfSeq
<1>6. l \in Seq(Octet) /\ Len(l) = m + n /\ \A i \in 1..(m + n) : l[i] = b[i]
  BY <1>1, <1>5, SubSeqProperties
<1> HIDE DEF c
<1>7. /\ r \in Seq(Octet) /\ Len(r) = m + n
      /\ \A i \in 1..m : r[i] = x[i]
      /\ \A i \in 1..n : r[m + i] = c[i]
  <2>1. c \in Seq(Octet) /\ Len(c) = n
    BY <1>4
  <2>2. /\ x \o c \in Seq(Octet) /\ Len(x \o c) = Len(x) + Len(c)
        /\ \A i \in 1..Len(x) : (x \o c)[i] = x[i]
        /\ \A i \in 1..Len(c) : (x \o c)[Len(x) + i] = c[i]
    <3>1. c \in Seq(Octet)
      BY <2>1
    <3>2. QED
      BY ONLY <3>1, x \in Seq(Octet), Behind
  <2>3. QED
    BY <2>1, <2>2
<1> HIDE DEF b, l, r, m
<1>8. ASSUME NEW i \in 1..(m + n) PROVE l[i] = r[i]
  <2>1. CASE i <= m
    BY <1>1, <1>2, <1>6, <1>7, <2>1
  <2>2. CASE ~ (i <= m)
    <3>1. PICK k \in 1..n : i = m + k
      <4>1. i - m \in 1..n /\ i = m + (i - m)
        BY <1>1, <2>2
      <4>2. QED
        BY <4>1
    <3>2. k \in 1..Len(u)
      BY <1>1
    <3>3. QED
      BY <1>2, <1>4, <1>6, <1>7, <3>1, <3>2
  <2>3. QED
    BY <2>1, <2>2
<1>9. l = r
  BY <1>6, <1>7, <1>8, SeqEqual
<1>10. QED
  BY <1>4, <1>9 DEF b, l, r, m, c

\* The segment a line begins with, octets being put in front of the line.
LEMMA SegmentBehind ==
  ASSUME NEW x \in Seq(Octet), x # <<>>, NEW u \in Seq(Octet), NEW e \in 2..Len(u)
  PROVE  /\ Segment(x \o u, 1, Len(x) + e) = x \o Segment(u, 1, e)
         /\ Segment(u, 1, e) \in Seq(Octet)
         /\ Segment(u, 1, e) = <<>> \/ Segment(u, 1, e)[1] = u[1]
<1> DEFINE m == Len(x)
           n == IF u[e - 1] = CR THEN e - 2 ELSE e - 1
           b == x \o u
<1>1. m \in Nat \ {0} /\ Len(u) \in Nat /\ e \in Nat /\ e >= 2 /\ e <= Len(u)
  <2>1. m \in Nat /\ Len(u) \in Nat
    BY Behind
  <2>2. m # 0
    BY EmptySeq
  <2>3. QED
    BY <2>1, <2>2
<1>2. n \in 0..Len(u) /\ n \in Nat
  BY <1>1
<1>3. Segment(u, 1, e) = SubSeq(u, 1, n)
  BY <1>1 DEF Segment
<1>4. Segment(b, 1, m + e) = SubSeq(b, 1, m + n)
  <2> DEFINE k == m + e
  <2>1. e - 1 \in 1..Len(u) /\ k - 1 = m + (e - 1) /\ k > 1
    BY <1>1
  <2>2. b[m + (e - 1)] = u[e - 1]
    BY <2>1, Behind
  <2>3. k - 1 = m + (e - 1) /\ k - 2 = m + (e - 2)
    BY <1>1
  <2> HIDE DEF b, m, k
  <2>4. CASE u[e - 1] = CR
    <3>1. Segment(b, 1, k) = SubSeq(b, 1, k - 2)
      BY <2>1, <2>2, <2>4 DEF Segment
    <3>2. k - 2 = m + n
      BY <2>3, <2>4
    <3>3. QED
      BY <3>1, <3>2 DEF k
  <2>5. CASE u[e - 1] # CR
    <3>1. Segment(b, 1, k) = SubSeq(b, 1, k - 1)
      BY <2>1, <2>2, <2>5 DEF Segment
    <3>2. k - 1 = m + n
      BY <2>3, <2>5
    <3>3. QED
      BY <3>1, <3>2 DEF k
  <2>6. QED
    BY <2>4, <2>5
<1> HIDE DEF n
<1>5. /\ SubSeq(b, 1, m + n) = x \o SubSeq(u, 1, n)
      /\ SubSeq(u, 1, n) \in Seq(Octet) /\ Len(SubSeq(u, 1, n)) = n
      /\ \A i \in 1..n : SubSeq(u, 1, n)[i] = u[i]
  BY <1>2, SubSeqBehind
<1>6. SubSeq(u, 1, n) = <<>> \/ SubSeq(u, 1, n)[1] = u[1]
  <2>1. CASE n = 0
    BY <1>5, <2>1, EmptySeq
  <2>2. CASE n # 0
    <3>1. 1 \in 1..n
      BY <1>2, <2>2
    <3>2. QED
      BY <1>5, <3>1
  <2>3. QED
    BY <2>1, <2>2
<1>7. QED
  BY <1>3, <1>4, <1>5, <1>6

\* Where the first segment ends, octets being put in front of it.
LEMMA EolBehind ==
  ASSUME NEW x \in Seq(Octet), \A i \in 1..Len(x) : x[i] # LF,
         NEW u \in Seq(Octet), Eols(u, 1) # {}
  PROVE  Eols(x \o u, 1) # {} /\ Min(Eols(x \o u, 1)) = Len(x) + Min(Eols(u, 1))
<1> DEFINE b == x \o u
           m == Len(x)
           h == 1 + m
<1>1. b \in Seq(Octet) /\ m \in Nat /\ Len(u) \in Nat /\ Len(b) = m + Len(u)
  BY Behind
<1>2. \A i \in 1..m : b[i] # LF
  BY Behind
<1>3. Ahead(u, b, m)
  BY BehindIsAhead
<1>4. 1 \in ScanIndices(u) /\ h = 1 + m
  BY <1>1 DEF ScanIndices
<1> HIDE DEF b, h, m
<1>5. Eols(b, h) # {} /\ Min(Eols(b, h)) = Min(Eols(u, 1)) + m
  BY <1>1, <1>3, <1>4, EolAhead
<1>6. Eols(b, 1) = Eols(b, h)
  <2>1. \A i \in Eols(b, 1) : i \in Eols(b, h)
    <3>1. ASSUME NEW i \in 1..Len(b), b[i] = LF PROVE i \in h..Len(b)
      <4>1. ~ (i \in 1..m)
        BY <1>2, <3>1
      <4>2. QED
        BY <1>1, <1>4, <4>1
    <3>2. QED
      BY <3>1 DEF Eols
  <2>2. \A i \in h..Len(b) : i \in 1..Len(b)
    BY <1>1, <1>4
  <2>3. \A i \in Eols(b, h) : i \in Eols(b, 1)
    BY <2>2 DEF Eols
  <2>4. QED
    BY <2>1, <2>3
<1>7. Min(Eols(u, 1)) \in 1..Len(u)
  BY <1>4, EolIsFirst
<1>8. Min(Eols(u, 1)) + m = m + Min(Eols(u, 1))
  BY <1>1, <1>7
<1>9. QED
  BY <1>5, <1>6, <1>8 DEF b, m

\* CRLF alone.
LEMMA CrlfLine == IsLine(Crlf, <<>>) /\ Follows(Crlf)
<1>1. Crlf \in Seq(Octet) /\ Len(Crlf) = 2 /\ Crlf[1] = CR /\ Crlf[2] = LF
  <2>1. CR \in Octet /\ LF \in Octet
    BY KnownOctets
  <2>2. << CR, LF >> \in Seq(Octet) /\ Len(<< CR, LF >>) = 2
    BY <2>1, TwoOctets
  <2>3. QED
    BY <2>2 DEF Crlf
<1>2. Crlf # <<>> /\ Follows(Crlf)
  <2>1. CR \in AtomSpecials /\ CR # LF
    BY KnownOctets
  <2>2. Crlf # <<>>
    BY <1>1, EmptySeq
  <2>3. QED
    BY <1>1, <2>1, <2>2 DEF Follows
<1>3. PICK f \in [ScanIndices(Crlf) -> ScanResults(Crlf)] :
         /\ \A i \in ScanIndices(Crlf) : f[i] = ScanAt(Crlf, i, f)
         /\ ScanLine(Crlf) = f[1]
  BY <1>1, ScanLoop
<1>4. 1 \in ScanIndices(Crlf) /\ 2 \in Eols(Crlf, 1)
  BY <1>1 DEF ScanIndices, Eols
<1> DEFINE e == Min(Eols(Crlf, 1))
<1>5. e \in 1..2 /\ Crlf[e] = LF
  BY <1>1, <1>4, EolIsFirst
<1>6. e = 2
  <2> HIDE DEF e
  <2>1. e = 1 \/ e = 2
    BY <1>5
  <2>2. QED
    BY <1>1, <1>5, <2>1, KnownOctets
<1>7. Segment(Crlf, 1, 2) = SubSeq(Crlf, 1, 0)
  BY <1>1 DEF Segment
<1>8. SubSeq(Crlf, 1, 0) = <<>>
  BY SubSeqEmpty, <1>1
<1>9. f[1] = EndOrLiteral(Crlf, 2, Lex(<<>>), f)
  BY <1>3, <1>4, <1>6, <1>7, <1>8 DEF ScanAt
<1>10. QED
  BY <1>1, <1>2, <1>3, <1>9, NothingLexed DEF EndOrLiteral, IsLine

\* The tokens at the beginning of a line.
Prepended(tokens, lexed) ==
  [err |-> lexed.err, tokens |-> tokens \o lexed.tokens, marker |-> lexed.marker]

Reads(x, tokens) ==
  /\ x \in Seq(Octet) /\ x # <<>> /\ tokens \in Seq(Token)
  /\ \A i \in 1..Len(x) : x[i] # LF
  /\ \A s \in Seq(Octet) : s = <<>> \/ s[1] \in AtomSpecials => Lex(x \o s) = Prepended(tokens, Lex(s))

LEMMA TokensAssociate ==
  \A s, t, u \in Seq(Token) : (s \o t) \o u = s \o (t \o u)
BY ConcatAssociative

\* What is read as tokens in front of a line makes one line with it.
LEMMA ReadLine ==
  ASSUME NEW x, NEW xs, Reads(x, xs),
         NEW u, NEW us, IsLine(u, us), Follows(u)
  PROVE  IsLine(x \o u, xs \o us)
<1> DEFINE b == x \o u
           m == Len(x)
           e == Min(Eols(u, 1))
           lexed == Lex(Segment(u, 1, e))
           both == Lex(x \o Segment(u, 1, e))
           stop == e + lexed.marker
           late == m + stop
<1>1. x \in Seq(Octet) /\ x # <<>> /\ u \in Seq(Octet) /\ u # <<>> /\ xs \in Seq(Token)
  BY DEF Reads, IsLine
<1>2. ScanLine(u) = [is |-> "line", tokens |-> us, consumed |-> Len(u)]
  BY DEF IsLine
<1>3. b \in Seq(Octet) /\ m \in Nat /\ Len(u) \in Nat /\ Len(b) = m + Len(u)
  BY <1>1, Behind
<1>4. Ahead(u, b, m)
  BY <1>1, BehindIsAhead
<1>5. PICK f \in [ScanIndices(u) -> ScanResults(u)] :
         /\ \A i \in ScanIndices(u) : f[i] = ScanAt(u, i, f)
         /\ ScanLine(u) = f[1]
  BY <1>1, ScanLoop
<1>6. PICK g \in [ScanIndices(b) -> ScanResults(b)] :
         /\ \A i \in ScanIndices(b) : g[i] = ScanAt(b, i, g)
         /\ ScanLine(b) = g[1]
  BY <1>3, ScanLoop
<1>7. 1 \in ScanIndices(u) /\ 1 \in ScanIndices(b)
  BY <1>3 DEF ScanIndices
<1>8. \A i \in ScanIndices(u) : g[i + m] = ScanMoved(f[i], m)
  <2>1. u \in Seq(Octet)
    BY <1>1
  <2>2. b \in Seq(Octet)
    BY <1>3
  <2>3. f \in [ScanIndices(u) -> ScanResults(u)]
    OBVIOUS
  <2>4. \A i \in ScanIndices(u) : f[i] = ScanAt(u, i, f)
    BY <1>5
  <2>5. \A i \in ScanIndices(b) : g[i] = ScanAt(b, i, g)
    BY <1>6
  <2> HIDE DEF b, m
  <2>6. QED
    BY ONLY <2>1, <2>2, <2>3, <2>4, <2>5, <1>4, ScanAhead
<1>9. f[1].is = "line" /\ f[1].tokens = us /\ f[1].consumed = Len(u)
  BY <1>2, <1>5
<1>10. Eols(u, 1) # {}
  BY <1>5, <1>7, <1>9 DEF ScanAt, Incomplete
<1>11. e \in 2..Len(u)
  <2>1. e \in 1..Len(u) /\ u[e] = LF
    BY <1>1, <1>7, <1>10, EolIsFirst
  <2>2. e # 1
    BY <2>1 DEF Follows
  <2>3. QED
    BY <1>3, <2>1, <2>2
<1>12. Eols(b, 1) # {} /\ Min(Eols(b, 1)) = m + e
  BY <1>1, <1>10, EolBehind DEF Reads
<1>13. /\ Segment(b, 1, m + e) = x \o Segment(u, 1, e)
       /\ Segment(u, 1, e) \in Seq(Octet)
       /\ Segment(u, 1, e) = <<>> \/ Segment(u, 1, e)[1] = u[1]
  <2> HIDE DEF e
  <2>1. QED
    BY <1>1, <1>11, SegmentBehind
<1>14. both = Prepended(xs, lexed)
  BY <1>13 DEF Reads, Follows
<1>15. lexed \in LexResults
  BY <1>13, LexType
<1>16. f[1] = EndOrLiteral(u, e, lexed, f) /\ g[1] = EndOrLiteral(b, m + e, both, g)
  BY <1>5, <1>6, <1>7, <1>10, <1>12, <1>13 DEF ScanAt
<1>17. b # <<>>
  BY <1>1, FirstOfConcat
<1> HIDE DEF lexed, both, e
<1>18. /\ both.err = lexed.err /\ both.marker = lexed.marker
       /\ both.tokens = xs \o lexed.tokens /\ lexed.tokens \in Seq(Token)
  BY <1>14, <1>15 DEF Prepended, LexResults
<1>19. lexed.err = Fine
  <2>1. ASSUME lexed.err # Fine PROVE f[1] = Bad(lexed.err)
    BY <1>16, <2>1 DEF EndOrLiteral
  <2>2. Bad(lexed.err).is # "line"
    BY DEF Bad
  <2>3. QED
    BY <1>9, <2>1, <2>2
<1>20. CASE lexed.marker = NoMarker
  <2>1. f[1] = [is |-> "line", tokens |-> lexed.tokens, consumed |-> e]
    BY <1>16, <1>19, <1>20 DEF EndOrLiteral
  <2>2. g[1] = [is |-> "line", tokens |-> xs \o lexed.tokens, consumed |-> m + e]
    BY <1>16, <1>18, <1>19, <1>20 DEF EndOrLiteral
  <2>3. us = lexed.tokens /\ e = Len(u)
    BY <1>9, <2>1
  <2>4. QED
    BY <1>3, <1>6, <1>17, <2>2, <2>3 DEF IsLine
<1>21. CASE lexed.marker # NoMarker
  <2>1. lexed.marker \in Nat /\ stop \in Nat /\ stop >= e /\ stop = e + lexed.marker
    BY <1>11, <1>15, <1>21, Limits DEF LexResults
  <2>2. ~ (Len(u) < stop)
    <3>1. ASSUME Len(u) < stop PROVE f[1] = Incomplete
      BY <1>16, <1>19, <1>21, <3>1 DEF EndOrLiteral
    <3>2. Incomplete.is # "line"
      BY DEF Incomplete
    <3>3. QED
      BY <1>9, <3>1, <3>2
  <2>3. m + e + lexed.marker = late /\ late \in Nat /\ ~ (Len(b) < late)
    BY <1>3, <1>11, <2>1, <2>2
  <2> DEFINE r == f[stop + 1]
             q == g[late + 1]
             c == << Str(SubSeq(u, e + 1, stop)) >>
             t == lexed.tokens
  <2>4. stop + 1 \in ScanIndices(u) /\ late + 1 = (stop + 1) + m
    <3> DEFINE l == Len(u)
    <3>1. l \in Nat /\ m \in Nat
      BY <1>3
    <3>2. stop \in Nat /\ ~ (l < stop)
      BY <2>1, <2>2
    <3> HIDE DEF stop, m, l
    <3>3. stop + 1 \in 1..(l + 1) /\ late + 1 = (stop + 1) + m
      BY ONLY <3>1, <3>2
    <3>4. QED
      BY <3>3 DEF ScanIndices, l
  <2>5. r \in ScanResults(u) /\ q = ScanMoved(r, m)
    BY <1>8, <2>4
  <2>6. SubSeq(b, m + e + 1, late) = SubSeq(u, e + 1, stop) /\ c \in Seq(Token)
    <3> DEFINE k == e + 1
               n == m + e + 1
    <3>1. k \in Nat \ {0} /\ n \in Int /\ n = k + m /\ m \in Nat
      BY <1>3, <1>11
    <3>2. stop \in Int /\ stop <= Len(u)
      BY <1>3, <2>1, <2>2
    <3>3. late \in Int /\ late = stop + m
      BY <1>3, <2>1, <2>3
    <3>4. \A i \in k..stop : u[i] \in Octet
      BY <1>1, <1>3, <3>1, <3>2, ElementOfSeq
    <3> HIDE DEF k, n, stop, late, b, m
    <3>5. SubSeq(b, n, late) = SubSeq(u, k, stop)
      <4>1. u \in Seq(Octet)
        BY <1>1
      <4>2. b \in Seq(Octet)
        BY <1>3
      <4>3. QED
        BY ONLY <4>1, <4>2, <1>4, <3>1, <3>2, <3>3, SubSeqAhead
    <3>6. SubSeq(u, k, stop) \in Seq(Octet)
      BY <3>1, <3>2, <3>4, SubSeqProperties
    <3>7. << Str(SubSeq(u, k, stop)) >> \in Seq(Token)
      BY <3>6 DEF Str, Token
    <3>8. QED
      BY <3>5, <3>7 DEF k, n
  <2>7. f[1] = IF r.is # "line" THEN r ELSE [r EXCEPT !.tokens = t \o c \o @]
    BY <1>16, <1>19, <1>21, <2>2 DEF EndOrLiteral
  <2>8. g[1] = IF q.is # "line" THEN q ELSE [q EXCEPT !.tokens = (xs \o t) \o c \o @]
    BY <1>16, <1>18, <1>19, <1>21, <2>3, <2>6 DEF EndOrLiteral
  <2> HIDE DEF r, q, c, stop, late, t, b, m
  <2>9. r.is = "line"
    BY <1>9, <2>7
  <2>10. r \in [is : {"line"}, tokens : Seq(Token), consumed : 1..Len(u)]
    BY <2>5, <2>9, ScanKinds DEF ScannedLines
  <2>11. q = [is |-> "line", tokens |-> r.tokens, consumed |-> r.consumed + m]
    BY <2>5, <2>9 DEF ScanMoved
  <2>12. us = (t \o c) \o r.tokens /\ r.consumed = Len(u)
    BY <1>9, <2>7, <2>9, <2>10
  <2>13. g[1] = [is |-> "line", tokens |-> ((xs \o t) \o c) \o r.tokens, consumed |-> r.consumed + m]
    BY <2>8, <2>11
  <2>14. ((xs \o t) \o c) \o r.tokens = xs \o ((t \o c) \o r.tokens)
    <3>1. xs \in Seq(Token)
      BY <1>1
    <3>2. t \in Seq(Token)
      BY <1>18 DEF t
    <3>3. c \in Seq(Token)
      BY <2>6
    <3>4. r.tokens \in Seq(Token)
      BY <2>10
    <3>5. (xs \o t) \o c = xs \o (t \o c)
      BY <3>1, <3>2, <3>3, TokensAssociate
    <3>6. t \o c \in Seq(Token)
      BY <3>2, <3>3, ConcatProperties
    <3>7. (xs \o (t \o c)) \o r.tokens = xs \o ((t \o c) \o r.tokens)
      BY <3>1, <3>4, <3>6, TokensAssociate
    <3>8. QED
      BY <3>5, <3>7
  <2>15. r.consumed + m = Len(b)
    BY <1>3, <2>12
  <2>16. QED
    BY <1>3, <1>6, <1>17, <2>12, <2>13, <2>14, <2>15 DEF IsLine, b
<1>22. QED
  BY <1>20, <1>21

LEMMA NoTokens ==
  ASSUME NEW s \in Seq(Octet)
  PROVE  Prepended(<<>>, Lex(s)) = Lex(s)
<1>1. Lex(s) \in LexResults
  BY LexType
<1> DEFINE lexed == Lex(s)
<1> HIDE DEF lexed
<1>2. lexed.tokens \in Seq(Token) /\ lexed = [err |-> lexed.err, tokens |-> lexed.tokens, marker |-> lexed.marker]
  BY <1>1 DEF LexResults, lexed
<1>3. <<>> \o lexed.tokens = lexed.tokens
  BY <1>2, ConcatEmptySeq
<1>4. QED
  BY <1>2, <1>3 DEF Prepended, lexed

LEMMA OneToken ==
  ASSUME NEW token, NEW s \in Seq(Octet)
  PROVE  Pushed(token, Lex(s)) = Prepended(<< token >>, Lex(s))
<1>1. Lex(s) \in LexResults
  BY LexType
<1> DEFINE lexed == Lex(s)
<1>2. lexed \in LexResults
  BY <1>1
<1> HIDE DEF lexed
<1>3. lexed \in [err : Errors, tokens : Seq(Token), marker : {NoMarker} \cup 0..MaxSize]
  BY <1>2 DEF LexResults
<1>4. Pushed(token, lexed) =
        [err |-> lexed.err, tokens |-> << token >> \o lexed.tokens, marker |-> lexed.marker]
  <2> DEFINE t == << token >> \o lexed.tokens
             E == Errors
             S == Seq(Token)
             M == {NoMarker} \cup 0..MaxSize
  <2>1. lexed \in [err : E, tokens : S, marker : M]
    BY <1>3
  <2> HIDE DEF t, E, S, M
  <2>2. [lexed EXCEPT !.tokens = t] = [err |-> lexed.err, tokens |-> t, marker |-> lexed.marker]
    BY <2>1
  <2>3. QED
    BY <2>2 DEF Pushed, t
<1>5. QED
  BY <1>4 DEF Prepended, lexed

LEMMA BlankReads == Reads(<< " " >>, <<>>)
<1>1. " " \in Octet /\ " " # LF
  BY KnownOctets
<1>2. << " " >> \in Seq(Octet) /\ Len(<< " " >>) = 1 /\ << " " >>[1] = " "
  BY <1>1, OneOctet
<1>3. << " " >> # <<>>
  BY <1>2, EmptySeq
<1>4. <<>> \in Seq(Token)
  BY EmptySeq
<1>5. \A i \in 1..Len(<< " " >>) : << " " >>[i] # LF
  <2>1. \A i \in 1..1 : i = 1
    OBVIOUS
  <2>2. QED
    BY <1>1, <1>2, <2>1
<1>6. \A s \in Seq(Octet) : Lex(<< " " >> \o s) = Prepended(<<>>, Lex(s))
  BY BlankLexed, NoTokens
<1>7. QED
  BY <1>2, <1>3, <1>4, <1>5, <1>6 DEF Reads

LEMMA AtomReads ==
  ASSUME NEW x \in Seq(Octet), x # <<>>, \A i \in 1..Len(x) : x[i] \notin AtomSpecials
  PROVE  Reads(x, << Atom(x) >>) /\ Reads(<< " " >> \o x, << Atom(x) >>)
<1> DEFINE b == << " " >> \o x
<1>1. << Atom(x) >> \in Seq(Token)
  BY DEF Atom, Token
<1>2. \A i \in 1..Len(x) : x[i] # LF
  BY KnownOctets
<1>3. ASSUME NEW s \in Seq(Octet), s = <<>> \/ s[1] \in AtomSpecials
      PROVE  Lex(x \o s) = Prepended(<< Atom(x) >>, Lex(s))
  <2>1. Lex(x \o s) = Pushed(Atom(x), Lex(s))
    BY <1>3, AtomLexed
  <2>2. QED
    BY <2>1, OneToken
<1>4. Reads(x, << Atom(x) >>)
  BY <1>1, <1>2, <1>3 DEF Reads
<1>5. " " \in Octet /\ " " # LF /\ << " " >> \in Seq(Octet)
  BY KnownOctets, OneOctet
<1>6. b \in Seq(Octet) /\ Len(b) = Len(x) + 1 /\ b[1] = " " /\ \A i \in 1..Len(x) : b[i + 1] = x[i]
  BY <1>5, OneAhead
<1>7. b # <<>> /\ \A i \in 1..Len(b) : b[i] # LF
  <2> DEFINE l == Len(b)
             n == Len(x)
  <2>1. n \in Nat /\ l = n + 1
    <3>1. Len(b) = Len(x) + 1
      BY <1>6
    <3>2. Len(x) \in Nat
      OBVIOUS
    <3>3. QED
      BY <3>1, <3>2
  <2> HIDE DEF b, l, n
  <2>5. l # 0 /\ \A i \in 1..l : i # 1 => i - 1 \in 1..n /\ (i - 1) + 1 = i
    BY <2>1
  <2>2. b # <<>>
    BY <2>5, EmptySeq DEF l
  <2>3. ASSUME NEW i \in 1..Len(b) PROVE b[i] # LF
    <3>1. CASE i = 1
      BY <1>5, <1>6, <3>1
    <3>2. CASE i # 1
      <4>1. i - 1 \in 1..Len(x) /\ (i - 1) + 1 = i
        BY <2>5, <3>2 DEF l, n
      <4>2. b[i] = x[i - 1]
        BY <1>6, <4>1
      <4>3. QED
        BY <1>2, <4>1, <4>2
    <3>3. QED
      BY <3>1, <3>2
  <2>4. QED
    BY <2>2, <2>3
<1>8. ASSUME NEW s \in Seq(Octet), s = <<>> \/ s[1] \in AtomSpecials
      PROVE  Lex(b \o s) = Prepended(<< Atom(x) >>, Lex(s))
  <2>1. b \o s = << " " >> \o (x \o s)
    BY <1>5, OctetsAssociate
  <2>2. x \o s \in Seq(Octet)
    BY ConcatProperties
  <2>3. Lex(<< " " >> \o (x \o s)) = Lex(x \o s)
    BY <2>2, BlankLexed
  <2>4. QED
    BY <1>3, <1>8, <2>1, <2>3
<1>9. Reads(b, << Atom(x) >>)
  <2> HIDE DEF b
  <2>1. QED
    BY <1>1, <1>6, <1>7, <1>8 DEF Reads
<1>10. QED
  BY <1>4, <1>9

LEMMA QuotedReads ==
  ASSUME NEW value \in Seq(Octet), ToSet(value) \cap Control = {}
  PROVE  Reads(Quoted(value), << Str(value) >>)
<1> DEFINE q == Quoted(value)
           e == Escaped(value)
<1>1. q \in Seq(Octet) /\ Len(q) = Len(e) + 2 /\ q[1] = Quote
  BY EmptySeq, QuotedLexed
<1>2. e \in Seq(Octet) /\ \A i \in 1..Len(e) : e[i] \notin Control
  BY EscapedLength
<1>3. << Str(value) >> \in Seq(Token)
  BY DEF Str, Token
<1>4. ASSUME NEW s \in Seq(Octet)
      PROVE  Lex(q \o s) = Prepended(<< Str(value) >>, Lex(s))
  <2>1. Lex(q \o s) = Pushed(Str(value), Lex(s))
    BY QuotedLexed
  <2>2. QED
    BY <2>1, OneToken
<1>5. Quote \in Octet /\ << Quote >> \in Seq(Octet)
  BY KnownOctets, OneOctet
<1> DEFINE p == << Quote >> \o e
<1>6. p \in Seq(Octet) /\ Len(p) = Len(e) + 1 /\ p[1] = Quote /\ \A i \in 1..Len(e) : p[i + 1] = e[i]
  <2> HIDE DEF e
  <2>1. QED
    BY <1>2, <1>5, OneAhead
<1>7. q = p \o << Quote >>
  BY DEF Quoted
<1> HIDE DEF p
<1>8. q[Len(p) + 1] = Quote /\ \A i \in 1..Len(p) : q[i] = p[i]
  BY <1>5, <1>6, <1>7, OneBehind
<1> HIDE DEF q, e
<1>9. q # <<>> /\ Len(e) \in Nat
  <2>1. Len(e) \in Nat
    BY <1>2
  <2>2. Len(q) # 0
    BY <1>1, <2>1
  <2>3. QED
    BY <2>1, <2>2, EmptySeq
<1>10. ASSUME NEW i \in 1..Len(q) PROVE q[i] # LF
  <2>1. CASE i = 1
    BY <1>1, <2>1, KnownOctets
  <2>2. CASE i = Len(e) + 2
    <3>1. i = Len(p) + 1
      BY <1>6, <1>9, <2>2
    <3>2. QED
      BY <1>8, <3>1, KnownOctets
  <2>3. CASE i # 1 /\ i # Len(e) + 2
    <3>1. i - 1 \in 1..Len(e) /\ i = (i - 1) + 1 /\ i \in 1..Len(p)
      BY <1>1, <1>6, <1>9, <2>3
    <3>2. q[i] = e[i - 1]
      BY <1>6, <1>8, <3>1
    <3>3. e[i - 1] \notin Control
      BY <1>2, <3>1
    <3>4. QED
      BY <3>2, <3>3, KnownOctets
  <2>4. QED
    BY <2>1, <2>2, <2>3
<1>11. QED
  BY <1>1, <1>3, <1>4, <1>9, <1>10 DEF Reads, q

\* Two octets that end a segment.
LEMMA CrlfFirst ==
  ASSUME NEW y \in Seq(Octet)
  PROVE  /\ Crlf \o y \in Seq(Octet) /\ Len(Crlf \o y) = 2 + Len(y)
         /\ Eols(Crlf \o y, 1) # {} /\ Min(Eols(Crlf \o y, 1)) = 2
         /\ Segment(Crlf \o y, 1, 2) = <<>>
<1> DEFINE w == Crlf \o y
           e == Min(Eols(w, 1))
<1>1. CR \in Octet /\ LF \in Octet /\ CR # LF
  BY KnownOctets
<1>2. Crlf \in Seq(Octet) /\ Len(Crlf) = 2 /\ Crlf[1] = CR /\ Crlf[2] = LF
  <2>1. << CR, LF >> \in Seq(Octet) /\ Len(<< CR, LF >>) = 2
    BY <1>1, TwoOctets
  <2>2. QED
    BY <2>1 DEF Crlf
<1>3. /\ w \in Seq(Octet) /\ Len(w) = Len(Crlf) + Len(y) /\ Len(y) \in Nat
      /\ \A i \in 1..Len(Crlf) : w[i] = Crlf[i]
  BY <1>2, Behind, ZenonT(60)
<1> HIDE DEF w
<1>4. Len(w) \in Nat /\ Len(w) = 2 + Len(y) /\ Len(w) >= 2
  BY <1>2, <1>3
<1>5. w[1] = CR /\ w[2] = LF
  <2>1. 1 \in 1..2 /\ 2 \in 1..2
    OBVIOUS
  <2>2. QED
    BY <1>2, <1>3, <2>1
<1>6. 1 \in ScanIndices(w) /\ 2 \in Eols(w, 1)
  <2>1. 1 \in 1..(Len(w) + 1) /\ 2 \in 1..Len(w)
    BY <1>4
  <2>2. QED
    BY <1>5, <2>1 DEF ScanIndices, Eols
<1>7. e \in 1..Len(w) /\ w[e] = LF /\ \A j \in 1..(e - 1) : w[j] # LF
  BY <1>3, <1>6, EolIsFirst
<1>8. e = 2
  <2> HIDE DEF e
  <2>1. ~ (2 \in 1..(e - 1))
    BY <1>5, <1>7
  <2>2. e = 1 \/ e = 2
    BY <1>4, <1>7, <2>1
  <2>3. QED
    BY <1>1, <1>5, <1>7, <2>2
<1>9. Segment(w, 1, 2) = SubSeq(w, 1, 0)
  BY <1>5 DEF Segment
<1>10. SubSeq(w, 1, 0) = <<>>
  BY SubSeqEmpty
<1>11. QED
  BY <1>3, <1>4, <1>6, <1>8, <1>9, <1>10 DEF w, e

\* A literal in front of a line, whatever its octets.
LEMMA LiteralLine ==
  ASSUME NEW value \in Seq(Octet), Len(value) <= MaxLiteral, Len(value) <= MaxSize,
         NEW u, NEW us, IsLine(u, us)
  PROVE  /\ IsLine(Literal(value) \o u, << Str(value) >> \o us)
         /\ Follows(Literal(value) \o u)
         /\ Literal(value) \in Seq(Octet) /\ Literal(value)[1] = Brace
<1> DEFINE n == Len(value)
           p == MarkerText(n)
           m == Len(p)
           k == p \o Crlf
           t == Literal(value)
           b == t \o u
           y == value \o u
           stop == m + 2 + n
<1>1. u \in Seq(Octet) /\ u # <<>> /\ ScanLine(u) = [is |-> "line", tokens |-> us, consumed |-> Len(u)]
  BY DEF IsLine
<1>2. n \in Nat /\ Len(u) \in Nat
  BY <1>1
<1>3. /\ p \in Seq(Octet) /\ m = Len(Decimal(n)) + 3 /\ p[1] = Brace
      /\ \A i \in 1..m : p[i] # LF
  BY <1>2, MarkerParts
<1>4. m \in Nat /\ m # 0 /\ p # <<>>
  <2>1. Decimal(n) \in Seq(Digits)
    BY <1>2, DecimalIsNumber
  <2>2. Len(Decimal(n)) \in Nat
    BY <2>1
  <2> HIDE DEF p
  <2>3. m \in Nat /\ m # 0
    BY <1>3, <2>2
  <2>4. QED
    BY <2>3, EmptySeq
<1>5. Lex(p) = [err |-> Fine, tokens |-> <<>>, marker |-> n]
  BY <1>2, MarkerLexed
<1>6. t = k \o value
  BY DEF Literal, Marker, MarkerText
<1>7. Crlf \in Seq(Octet) /\ Len(Crlf) = 2
  BY CrlfLine, TwoOctets, KnownOctets DEF IsLine, Crlf
<1> HIDE DEF p, t
<1>8. k \in Seq(Octet) /\ Len(k) = m + 2 /\ y \in Seq(Octet) /\ Len(y) = n + Len(u)
  <2>1. k \in Seq(Octet) /\ Len(k) = Len(p) + Len(Crlf)
    BY <1>3, <1>7, Behind
  <2>2. y \in Seq(Octet) /\ Len(y) = Len(value) + Len(u)
    BY <1>1, Behind
  <2> HIDE DEF k, y
  <2>3. QED
    BY <1>7, <2>1, <2>2
<1>9. t \in Seq(Octet) /\ Len(t) = stop /\ stop \in Nat
  <2>1. t \in Seq(Octet) /\ Len(t) = Len(k) + Len(value)
    BY <1>6, <1>8, Behind
  <2>2. QED
    BY <1>2, <1>4, <1>8, <2>1
<1>10. b \in Seq(Octet) /\ Len(b) = stop + Len(u)
  BY <1>1, <1>9, Behind
<1>11. b = k \o y
  BY <1>1, <1>6, <1>8, OctetsAssociate
<1>12. b = p \o (Crlf \o y)
  BY <1>3, <1>7, <1>8, <1>11, OctetsAssociate
<1> DEFINE w == Crlf \o y
<1>13. /\ w \in Seq(Octet) /\ Len(w) = 2 + Len(y)
       /\ Eols(w, 1) # {} /\ Min(Eols(w, 1)) = 2 /\ Segment(w, 1, 2) = <<>>
  BY <1>8, CrlfFirst
<1> HIDE DEF k, y, w
<1>14. Eols(b, 1) # {} /\ Min(Eols(b, 1)) = m + 2
  <2>1. Eols(p \o w, 1) # {} /\ Min(Eols(p \o w, 1)) = m + Min(Eols(w, 1))
    BY <1>3, <1>13, EolBehind
  <2>2. QED
    BY <1>12, <1>13, <2>1 DEF w
<1>15. Segment(b, 1, m + 2) = p
  <2>1. 2 \in 2..Len(w)
    BY <1>2, <1>8, <1>13
  <2>2. Segment(p \o w, 1, m + 2) = p \o Segment(w, 1, 2)
    BY <1>3, <1>4, <1>13, <2>1, SegmentBehind
  <2>3. p \o <<>> = p
    BY <1>3, ConcatEmptySeq
  <2>4. QED
    BY <1>12, <1>13, <2>2, <2>3 DEF w
<1>16. SubSeq(b, m + 3, stop) = value
  <2> DEFINE d == m + 2
             start == m + 3
  <2>1. Ahead(y, b, d)
    BY <1>8, <1>11, BehindIsAhead
  <2>2. start \in Int /\ start = 1 + d /\ stop \in Int /\ stop = n + d /\ d \in Nat
    BY <1>2, <1>4
  <2>3. n \in Int /\ n <= Len(y) /\ n <= Len(value) /\ 1 \in Nat \ {0}
    BY <1>2, <1>8
  <2>4. y \in Seq(Octet) /\ b \in Seq(Octet) /\ value \in Seq(Octet)
    BY <1>8, <1>10
  <2>5. Begins(value, y)
    BY <1>1, BeginsLonger DEF y
  <2> HIDE DEF d, start, stop, b, n
  <2>6. SubSeq(b, start, stop) = SubSeq(y, 1, n)
    BY <2>1, <2>2, <2>3, <2>4, SubSeqAhead
  <2>7. SubSeq(y, 1, n) = SubSeq(value, 1, n)
    BY <2>3, <2>4, <2>5, SubSeqAgrees, SMTT(60)
  <2>8. SubSeq(value, 1, n) = value
    BY <2>4, SubSeqFull DEF n
  <2>9. QED
    BY <2>6, <2>7, <2>8 DEF start
<1>17. Ahead(u, b, stop)
  BY <1>1, <1>9, BehindIsAhead
<1>18. PICK f \in [ScanIndices(u) -> ScanResults(u)] :
         /\ \A i \in ScanIndices(u) : f[i] = ScanAt(u, i, f)
         /\ ScanLine(u) = f[1]
  BY <1>1, ScanLoop
<1>19. PICK g \in [ScanIndices(b) -> ScanResults(b)] :
         /\ \A i \in ScanIndices(b) : g[i] = ScanAt(b, i, g)
         /\ ScanLine(b) = g[1]
  BY <1>10, ScanLoop
<1>20. 1 \in ScanIndices(u) /\ 1 \in ScanIndices(b)
  <2>1. 1 \in 1..(Len(u) + 1) /\ 1 \in 1..(Len(b) + 1)
    BY <1>2, <1>9, <1>10
  <2>2. QED
    BY <2>1 DEF ScanIndices
<1>21. g[1 + stop] = ScanMoved(f[1], stop)
  <2>1. u \in Seq(Octet)
    BY <1>1
  <2>2. b \in Seq(Octet)
    BY <1>10
  <2>3. f \in [ScanIndices(u) -> ScanResults(u)]
    OBVIOUS
  <2>4. \A i \in ScanIndices(u) : f[i] = ScanAt(u, i, f)
    BY <1>18
  <2>5. \A i \in ScanIndices(b) : g[i] = ScanAt(b, i, g)
    BY <1>19
  <2> HIDE DEF b, stop
  <2>6. \A i \in ScanIndices(u) : g[i + stop] = ScanMoved(f[i], stop)
    BY ONLY <2>1, <2>2, <2>3, <2>4, <2>5, <1>17, ScanAhead
  <2>7. QED
    BY <1>20, <2>6
<1>22. g[stop + 1] = [is |-> "line", tokens |-> us, consumed |-> Len(u) + stop]
  <2>1. stop + 1 = 1 + stop
    BY <1>9
  <2> HIDE DEF stop, b
  <2>2. QED
    BY <1>1, <1>18, <1>21, <2>1 DEF ScanMoved
<1>23. g[1] = EndOrLiteral(b, m + 2, Lex(p), g)
  BY <1>14, <1>15, <1>19, <1>20 DEF ScanAt
<1>24. g[1] = [is |-> "line", tokens |-> << Str(value) >> \o us, consumed |-> Len(u) + stop]
  <2>1. n # NoMarker /\ ~ (Len(b) < stop) /\ m + 2 + 1 = m + 3
    BY <1>2, <1>4, <1>9, <1>10 DEF NoMarker
  <2>2. (<<>> \o << Str(value) >>) \o us = << Str(value) >> \o us
    <3>1. << Str(value) >> \in Seq({Str(value)})
      OBVIOUS
    <3>2. <<>> \o << Str(value) >> = << Str(value) >>
      BY <3>1, ConcatEmptySeq
    <3>3. QED
      BY <3>2
  <2> DEFINE l == Lex(p)
             q == g[stop + 1]
             e == m + 2
             c == l.tokens \o << Str(value) >>
             z == Len(u) + stop
  <2>3. l.err = Fine /\ l.marker = n /\ e + l.marker = stop /\ e + 1 = m + 3
    BY <1>5, <2>1
  <2>4. g[1] = EndOrLiteral(b, e, l, g)
    BY <1>23
  <2>5. SubSeq(b, e + 1, stop) = value
    BY <1>16, <2>3
  <2>6. q = [is |-> "line", tokens |-> us, consumed |-> z]
    BY <1>22
  <2>7. c = <<>> \o << Str(value) >>
    BY <1>5
  <2> HIDE DEF b, l, e, n, stop
  <2>8. g[1] = IF q.is # "line" THEN q ELSE [q EXCEPT !.tokens = c \o @]
    BY <2>1, <2>3, <2>4, <2>5 DEF EndOrLiteral
  <2> HIDE DEF q, c, z
  <2>9. g[1] = [is |-> "line", tokens |-> c \o us, consumed |-> z]
    BY <2>6, <2>8
  <2>10. QED
    BY <2>2, <2>7, <2>9 DEF z
<1>25. Len(u) + stop = Len(b)
  BY <1>2, <1>9, <1>10
<1>26. t[1] = Brace /\ t # <<>>
  <2>1. k # <<>> /\ k[1] = Brace
    BY <1>3, <1>4, <1>7, FirstOfConcat DEF k
  <2>2. QED
    BY <1>6, <1>8, <2>1, FirstOfConcat
<1>27. b # <<>> /\ b[1] = Brace
  BY <1>1, <1>9, <1>26, FirstOfConcat
<1>28. Brace \in AtomSpecials /\ Brace # LF
  BY KnownOctets
<1>29. IsLine(b, << Str(value) >> \o us)
  BY <1>10, <1>19, <1>24, <1>25, <1>27 DEF IsLine
<1>30. Follows(b)
  BY <1>27, <1>28 DEF Follows
<1>31. QED
  BY <1>9, <1>26, <1>29, <1>30 DEF t

\* A string in front of a line, quoted or a literal.
LEMMA StringLine ==
  ASSUME NEW value \in Seq(Octet), Len(value) <= MaxLiteral, Len(value) <= MaxSize,
         NEW u, NEW us, IsLine(u, us), Follows(u)
  PROVE  /\ IsLine(String(value) \o u, << Str(value) >> \o us)
         /\ Follows(String(value) \o u)
         /\ String(value) \in Seq(Octet)
<1>1. CASE Quotable(value)
  <2>1. ToSet(value) \cap Control = {}
    BY <1>1 DEF Quotable
  <2>2. Reads(Quoted(value), << Str(value) >>)
    BY <2>1, QuotedReads
  <2>3. IsLine(Quoted(value) \o u, << Str(value) >> \o us)
    BY <2>2, ReadLine
  <2>4. Quoted(value) \in Seq(Octet) /\ Quoted(value) # <<>>
    BY <2>2 DEF Reads
  <2>5. Quoted(value)[1] = Quote
    BY EmptySeq, QuotedLexed
  <2>6. (Quoted(value) \o u)[1] = Quote
    BY <2>4, <2>5, FirstOfConcat DEF IsLine
  <2>7. Follows(Quoted(value) \o u)
    BY <2>6, KnownOctets DEF Follows
  <2>8. String(value) = Quoted(value)
    BY <1>1 DEF String
  <2>9. QED
    BY <2>3, <2>4, <2>7, <2>8
<1>2. CASE ~ Quotable(value)
  <2>1. String(value) = Literal(value)
    BY <1>2 DEF String
  <2>2. QED
    BY <2>1, LiteralLine
<1>3. QED
  BY <1>1, <1>2

\* No quoted string is longer than a server must accept.
LEMMA QuotedFits ==
  ASSUME NEW value \in Seq(Octet)
  PROVE  String(value)[1] = Quote => Len(String(value)) <= MaxQuoted + 2
<1>1. CASE Quotable(value)
  <2> DEFINE n == Cardinality({i \in DOMAIN value : value[i] \in QuotedSpecials})
             l == Len(Escaped(value))
  <2>1. String(value) = Quoted(value)
    BY <1>1 DEF String
  <2>2. Len(Quoted(value)) = l + 2
    BY EmptySeq, QuotedLexed
  <2>3. l = Len(value) + n /\ l \in Nat
    BY EscapedLength
  <2>4. Len(value) + n <= MaxQuoted
    BY <1>1 DEF Quotable, Fits
  <2> HIDE DEF n, l
  <2>5. l <= MaxQuoted
    BY <2>3, <2>4
  <2>6. l + 2 <= MaxQuoted + 2
    BY <2>3, <2>5, Limits
  <2>7. QED
    BY <2>1, <2>2, <2>6
<1>2. CASE ~ Quotable(value)
  <2>1. String(value) = Marker(Len(value)) \o value
    BY <1>2 DEF String, Literal
  <2>2. Marker(Len(value)) = MarkerText(Len(value)) \o Crlf
    BY DEF Marker, MarkerText
  <2>3. /\ MarkerText(Len(value)) \in Seq(Octet) /\ MarkerText(Len(value))[1] = Brace
        /\ Len(MarkerText(Len(value))) = Len(Decimal(Len(value))) + 3
    <3>1. Len(value) \in Nat
      OBVIOUS
    <3>2. QED
      BY <3>1, MarkerParts
  <2> DEFINE m == MarkerText(Len(value))
             k == m \o Crlf
             d == Len(Decimal(Len(value)))
  <2>4. d \in Nat
    BY DecimalIsNumber
  <2> HIDE DEF m, d
  <2>5. m \in Seq(Octet) /\ m[1] = Brace /\ Len(m) = d + 3
    BY <2>3 DEF m, d
  <2>6. m # <<>>
    <3>1. Len(m) # 0
      BY <2>4, <2>5
    <3>2. QED
      BY <3>1, EmptySeq
  <2>7. Crlf \in Seq(Octet)
    BY CrlfLine DEF IsLine
  <2>8. k \in Seq(Octet) /\ k # <<>> /\ k[1] = Brace
    BY <2>5, <2>6, <2>7, FirstOfConcat
  <2>9. (k \o value)[1] = Brace
    BY <2>8, FirstOfConcat
  <2>10. String(value)[1] = Brace
    BY <2>1, <2>2, <2>9 DEF k, m
  <2>11. QED
    BY <2>10, KnownOctets
<1>3. QED
  BY <1>1, <1>2

-----------------------------------------------------------------------------
(* What each command is read as.                                           *)

LEMMA BlankLine ==
  ASSUME NEW u, NEW us, IsLine(u, us), Follows(u)
  PROVE  IsLine(<< " " >> \o u, us) /\ Follows(<< " " >> \o u)
<1>1. IsLine(<< " " >> \o u, <<>> \o us)
  BY BlankReads, ReadLine
<1>2. u \in Seq(Octet) /\ us \in Seq(Token)
  <2>1. u \in Seq(Octet) /\ ScanLine(u) = [is |-> "line", tokens |-> us, consumed |-> Len(u)]
    BY DEF IsLine
  <2>2. ScanLine(u) \in ScannedLines(u)
    BY <2>1, ScanLineType, ScanKinds
  <2>3. QED
    BY <2>1, <2>2 DEF ScannedLines
<1>3. <<>> \o us = us
  BY <1>2, ConcatEmptySeq
<1>4. (<< " " >> \o u)[1] = " "
  BY <1>2, KnownOctets, OneAhead
<1>5. QED
  BY <1>1, <1>3, <1>4, KnownOctets DEF Follows

\* The first word of a command.
Words == Ops \cup {"NOOP", "AUTHENTICATE"}

LEMMA WordReads ==
  ASSUME NEW w \in Words
  PROVE  w \in Octet /\ Reads(<< w >>, << Atom(<< w >>) >>)
<1>1. w \in Octet
  BY SerialiseAssumption DEF Words
<1>2. w \notin AtomSpecials
  BY DEF Words, Ops, BareOps, NameOps, AtomSpecials, QuotedSpecials, Control, CR, LF, Quote,
         Backslash, Brace
<1>3. << w >> \in Seq(Octet) /\ Len(<< w >>) = 1 /\ << w >>[1] = w
  BY <1>1, OneOctet
<1>4. << w >> # <<>>
  BY <1>3, EmptySeq
<1>5. \A i \in 1..Len(<< w >>) : << w >>[i] \notin AtomSpecials
  <2>1. \A i \in 1..1 : i = 1
    OBVIOUS
  <2>2. QED
    BY <1>2, <1>3, <2>1
<1>6. QED
  BY <1>1, <1>3, <1>4, <1>5, AtomReads

LEMMA WordLine ==
  ASSUME NEW w \in Words, NEW u, NEW us, IsLine(u, us), Follows(u)
  PROVE  IsLine(<< w, " " >> \o u, << Atom(<< w >>) >> \o us)
<1>1. w \in Octet /\ " " \in Octet /\ Reads(<< w >>, << Atom(<< w >>) >>)
  BY WordReads, KnownOctets
<1>2. << w, " " >> = << w >> \o << " " >> /\ << w >> \in Seq(Octet) /\ << " " >> \in Seq(Octet)
  BY <1>1, OneOctet, TwoOctets
<1>3. << w, " " >> \o u = << w >> \o (<< " " >> \o u)
  <2> DEFINE s == << w >>
             t == << " " >>
  <2>1. u \in Seq(Octet)
    BY DEF IsLine
  <2>2. s \in Seq(Octet)
    BY <1>2
  <2>3. t \in Seq(Octet)
    BY <1>2
  <2>4. << w, " " >> = s \o t
    BY <1>2
  <2> HIDE DEF s, t
  <2>5. (s \o t) \o u = s \o (t \o u)
    BY <2>1, <2>2, <2>3, OctetsAssociate
  <2>6. QED
    BY <2>4, <2>5 DEF s, t
<1>4. IsLine(<< " " >> \o u, us) /\ Follows(<< " " >> \o u)
  BY BlankLine
<1>5. IsLine(<< w >> \o (<< " " >> \o u), << Atom(<< w >>) >> \o us)
  BY <1>1, <1>4, ReadLine
<1>6. QED
  BY <1>3, <1>5

\* Octets and tokens put one after the other.
LEMMA FewTokens ==
  ASSUME NEW S, NEW x \in S, NEW y \in S, NEW z \in S
  PROVE  /\ << x >> \o <<>> = << x >>
         /\ << x >> \o (<< y >> \o <<>>) = << x, y >>
         /\ << x >> \o (<< y >> \o (<< z >> \o <<>>)) = << x, y, z >>
<1>1. \A t \in S : << t >> \in Seq(S) /\ << t >> \o <<>> = << t >>
  BY ConcatEmptySeq
<1>2. << x >> \o << y >> = << x, y >> /\ << y >> \o << z >> = << y, z >>
  BY TwoElements
<1>3. << y, z >> \in Seq(S) /\ Len(<< y, z >>) = 2
  BY TwoElements
<1>4. << x >> \o << y, z >> = << x, y, z >>
  <2> DEFINE s == << x >>
             t == << y, z >>
             u == << x, y, z >>
             w == s \o t
  <2>1. s \in Seq(S) /\ Len(s) = 1 /\ s[1] = x
    OBVIOUS
  <2>2. t[1] = y /\ t[2] = z
    OBVIOUS
  <2>3. u \in Seq(S) /\ Len(u) = 3 /\ u[1] = x /\ u[2] = y /\ u[3] = z
    OBVIOUS
  <2>4. t \in Seq(S) /\ Len(t) = 2
    BY <1>3
  <2> HIDE DEF s, t, u
  <2>5. w \in Seq(S) /\ Len(w) = 3 /\ w[1] = x /\ w[2] = y /\ w[3] = z
    BY <2>1, <2>2, <2>4, ConcatProperties, SMTT(60)
  <2> HIDE DEF w
  <2>6. \A i \in 1..Len(u) : u[i] = w[i]
    BY <2>3, <2>5
  <2>7. u = w
    BY <2>3, <2>5, <2>6, SeqEqual
  <2>8. QED
    BY <2>7 DEF s, t, u, w
<1>5. QED
  BY <1>1, <1>2, <1>3, <1>4

\* A command a caller may issue.
Issuable(c) ==
  /\ c.op \in Ops /\ c.name \in Seq(Octet) /\ c.to \in Seq(Octet)
  /\ c.op # "RAW" => \A n \in {Len(c.name), Len(c.to)} : n <= MaxLiteral /\ n <= MaxSize
  /\ c.op = "HAVESPACE" => c.to # <<>> /\ ToSet(c.to) \subseteq Digits
  /\ c.op = "RAW" =>
       ScanLine(Raw(c)) = [is |-> "line", tokens |-> c.means, consumed |-> Len(Raw(c))]

\* The two arguments of a command in front of the end of a line.
LEMMA ArgumentLine ==
  ASSUME NEW c, Issuable(c), c.op # "RAW", NEW u, NEW us, IsLine(u, us), Follows(u)
  PROVE  /\ IsLine(String(c.name) \o u, << Str(c.name) >> \o us) /\ Follows(String(c.name) \o u)
         /\ IsLine(String(c.to) \o u, << Str(c.to) >> \o us) /\ Follows(String(c.to) \o u)
         /\ IsLine(Literal(c.to) \o u, << Str(c.to) >> \o us) /\ Follows(Literal(c.to) \o u)
         /\ {String(c.name), String(c.to), Literal(c.to)} \subseteq Seq(Octet)
<1>1. /\ c.name \in Seq(Octet) /\ Len(c.name) <= MaxLiteral /\ Len(c.name) <= MaxSize
      /\ c.to \in Seq(Octet) /\ Len(c.to) <= MaxLiteral /\ Len(c.to) <= MaxSize
  BY DEF Issuable
<1>2. /\ IsLine(String(c.name) \o u, << Str(c.name) >> \o us) /\ Follows(String(c.name) \o u)
      /\ String(c.name) \in Seq(Octet)
  BY <1>1, StringLine
<1>3. /\ IsLine(String(c.to) \o u, << Str(c.to) >> \o us) /\ Follows(String(c.to) \o u)
      /\ String(c.to) \in Seq(Octet)
  BY <1>1, StringLine
<1>4. /\ IsLine(Literal(c.to) \o u, << Str(c.to) >> \o us) /\ Follows(Literal(c.to) \o u)
      /\ Literal(c.to) \in Seq(Octet)
  BY <1>1, LiteralLine
<1>5. QED
  BY <1>2, <1>3, <1>4

\* A word and one string.
LEMMA OneArgumentLine ==
  ASSUME NEW c, Issuable(c), c.op # "RAW", NEW w \in Words
  PROVE  /\ IsLine(<< w, " " >> \o String(c.name) \o Crlf, << Atom(<< w >>), Str(c.name) >>)
         /\ IsLine(<< w, " " >> \o Literal(c.to) \o Crlf, << Atom(<< w >>), Str(c.to) >>)
<1>1. IsLine(Crlf, <<>>) /\ Follows(Crlf) /\ Crlf \in Seq(Octet)
  BY CrlfLine DEF IsLine
<1>2. /\ IsLine(String(c.name) \o Crlf, << Str(c.name) >> \o <<>>) /\ Follows(String(c.name) \o Crlf)
      /\ IsLine(Literal(c.to) \o Crlf, << Str(c.to) >> \o <<>>) /\ Follows(Literal(c.to) \o Crlf)
      /\ {String(c.name), String(c.to), Literal(c.to)} \subseteq Seq(Octet)
  BY <1>1, ArgumentLine
<1>3. /\ IsLine(<< w, " " >> \o (String(c.name) \o Crlf), << Atom(<< w >>) >> \o (<< Str(c.name) >> \o <<>>))
      /\ IsLine(<< w, " " >> \o (Literal(c.to) \o Crlf), << Atom(<< w >>) >> \o (<< Str(c.to) >> \o <<>>))
  BY <1>2, WordLine
<1>4. << w, " " >> \in Seq(Octet)
  BY WordReads, KnownOctets, TwoOctets
<1>5. /\ (<< w, " " >> \o String(c.name)) \o Crlf = << w, " " >> \o (String(c.name) \o Crlf)
      /\ (<< w, " " >> \o Literal(c.to)) \o Crlf = << w, " " >> \o (Literal(c.to) \o Crlf)
  BY <1>1, <1>2, <1>4, OctetsAssociate
<1> DEFINE S == {Atom(<< w >>), Str(c.name), Str(c.to)}
<1>6. /\ << Atom(<< w >>) >> \o (<< Str(c.name) >> \o <<>>) = << Atom(<< w >>), Str(c.name) >>
      /\ << Atom(<< w >>) >> \o (<< Str(c.to) >> \o <<>>) = << Atom(<< w >>), Str(c.to) >>
  <2>1. Atom(<< w >>) \in S /\ Str(c.name) \in S /\ Str(c.to) \in S
    OBVIOUS
  <2> HIDE DEF S
  <2>2. QED
    BY <2>1, FewTokens
<1>7. QED
  BY <1>3, <1>5, <1>6

\* A word and two strings.
LEMMA TwoArgumentsLine ==
  ASSUME NEW c, Issuable(c), c.op # "RAW", NEW w \in Words,
         NEW second \in {String(c.to), Literal(c.to)}
  PROVE  IsLine(<< w, " " >> \o String(c.name) \o << " " >> \o second \o Crlf,
                << Atom(<< w >>), Str(c.name), Str(c.to) >>)
<1> DEFINE a == << w, " " >>
           b == String(c.name)
           d == << " " >>
           S == {Atom(<< w >>), Str(c.name), Str(c.to)}
<1>1. IsLine(Crlf, <<>>) /\ Follows(Crlf) /\ Crlf \in Seq(Octet)
  BY CrlfLine DEF IsLine
<1>2. /\ IsLine(second \o Crlf, << Str(c.to) >> \o <<>>) /\ Follows(second \o Crlf)
      /\ second \in Seq(Octet)
  BY <1>1, ArgumentLine
<1>3. /\ IsLine(d \o (second \o Crlf), << Str(c.to) >> \o <<>>)
      /\ Follows(d \o (second \o Crlf))
  BY <1>2, BlankLine
<1>4. /\ IsLine(b \o (d \o (second \o Crlf)), << Str(c.name) >> \o (<< Str(c.to) >> \o <<>>))
      /\ Follows(b \o (d \o (second \o Crlf))) /\ b \in Seq(Octet)
  BY <1>3, ArgumentLine
<1>5. IsLine(a \o (b \o (d \o (second \o Crlf))),
             << Atom(<< w >>) >> \o (<< Str(c.name) >> \o (<< Str(c.to) >> \o <<>>)))
  BY <1>4, WordLine
<1>6. a \in Seq(Octet) /\ d \in Seq(Octet)
  BY WordReads, KnownOctets, OneOctet, TwoOctets
<1>7. (((a \o b) \o d) \o second) \o Crlf = a \o (b \o (d \o (second \o Crlf)))
  <2>1. a \in Seq(Octet)
    BY <1>6
  <2>2. b \in Seq(Octet)
    BY <1>4
  <2>3. d \in Seq(Octet)
    BY <1>6
  <2>4. second \in Seq(Octet)
    BY <1>2
  <2>5. Crlf \in Seq(Octet)
    BY <1>1
  <2> DEFINE e == Crlf
             s == a \o b
             t == s \o d
             x == second \o e
             y == d \o x
  <2> HIDE DEF a, b, d, e
  <2>6. s \in Seq(Octet) /\ x \in Seq(Octet)
    BY <2>1, <2>2, <2>4, <2>5, ConcatProperties DEF e
  <2>7. s \o y = a \o (b \o y)
    <3> HIDE DEF x
    <3>1. y \in Seq(Octet)
      BY <2>3, <2>6, ConcatProperties
    <3> HIDE DEF y
    <3>2. QED
      BY <2>1, <2>2, <3>1, OctetsAssociate
  <2> HIDE DEF s, x
  <2>8. t \in Seq(Octet) /\ t \o x = s \o y
    BY <2>3, <2>6, ConcatProperties, OctetsAssociate
  <2> HIDE DEF t, y
  <2>9. (t \o second) \o e = t \o x
    BY <2>4, <2>5, <2>8, OctetsAssociate DEF x, e
  <2>10. QED
    BY <2>7, <2>8, <2>9 DEF s, t, x, y, e
<1>8. << Atom(<< w >>) >> \o (<< Str(c.name) >> \o (<< Str(c.to) >> \o <<>>)) =
        << Atom(<< w >>), Str(c.name), Str(c.to) >>
  <2>1. Atom(<< w >>) \in S /\ Str(c.name) \in S /\ Str(c.to) \in S
    OBVIOUS
  <2> HIDE DEF S
  <2>2. QED
    BY <2>1, FewTokens
<1>9. QED
  BY <1>5, <1>7, <1>8

\* A word, a string and a number.
LEMMA HaveSpaceLine ==
  ASSUME NEW c, Issuable(c), c.op = "HAVESPACE"
  PROVE  IsLine(HaveSpace(c), << Verb(c), Str(c.name), Atom(c.to) >>)
<1> DEFINE a == << "HAVESPACE", " " >>
           b == String(c.name)
           d == << " " >>
           n == c.to
           x == d \o n
           y == x \o Crlf
           S == {Verb(c), Str(c.name), Atom(c.to)}
<1>1. IsLine(Crlf, <<>>) /\ Follows(Crlf) /\ Crlf \in Seq(Octet)
  BY CrlfLine DEF IsLine
<1>2. n \in Seq(Octet) /\ n # <<>> /\ ToSet(n) \subseteq Digits
  BY DEF Issuable
<1>3. \A i \in 1..Len(n) : n[i] \notin AtomSpecials
  <2>1. \A i \in 1..Len(n) : n[i] \in ToSet(n)
    BY <1>2 DEF ToSet
  <2>2. QED
    BY <1>2, <2>1, DigitValue
<1>4. Reads(x, << Atom(n) >>)
  BY <1>2, <1>3, AtomReads
<1>5. d \in Seq(Octet) /\ d # <<>> /\ d[1] = " "
  BY KnownOctets, OneOctet
<1>6. x \in Seq(Octet) /\ x # <<>> /\ x[1] = " "
  BY <1>2, <1>5, FirstOfConcat
<1>7. y \in Seq(Octet) /\ y[1] = " "
  <2> HIDE DEF x
  <2>1. QED
    BY <1>1, <1>6, FirstOfConcat
<1>8. IsLine(y, << Atom(n) >> \o <<>>) /\ Follows(y)
  <2>1. IsLine(y, << Atom(n) >> \o <<>>)
    BY <1>1, <1>4, ReadLine
  <2>2. QED
    BY <1>7, <2>1, KnownOctets DEF Follows
<1>9. /\ IsLine(b \o y, << Str(c.name) >> \o (<< Atom(n) >> \o <<>>)) /\ Follows(b \o y)
      /\ b \in Seq(Octet)
  <2> HIDE DEF y
  <2>1. QED
    BY <1>8, ArgumentLine
<1>10. IsLine(a \o (b \o y),
              << Atom(<< "HAVESPACE" >>) >> \o (<< Str(c.name) >> \o (<< Atom(n) >> \o <<>>)))
  <2> HIDE DEF y, b
  <2>1. "HAVESPACE" \in Words
    BY DEF Words, Ops
  <2>2. QED
    BY <1>9, <2>1, WordLine
<1>11. a \in Seq(Octet)
  <2>1. "HAVESPACE" \in Octet /\ " " \in Octet
    BY SerialiseAssumption, KnownOctets DEF Ops
  <2>2. QED
    BY <2>1, TwoOctets
<1>12. HaveSpace(c) = (((a \o b) \o d) \o n) \o Crlf
  BY DEF HaveSpace
<1>13. (((a \o b) \o d) \o n) \o Crlf = a \o (b \o y)
  <2> DEFINE s == a \o b
             e == Crlf
  <2> HIDE DEF a, b, d, n, e
  <2>1. s \in Seq(Octet)
    BY <1>9, <1>11, ConcatProperties
  <2>2. s \o y = a \o (b \o y)
    <3> HIDE DEF y
    <3>1. QED
      BY <1>7, <1>9, <1>11, OctetsAssociate
  <2> HIDE DEF s
  <2>3. (s \o d) \o n = s \o x
    BY <1>2, <1>5, <2>1, OctetsAssociate
  <2> HIDE DEF x
  <2>4. (s \o x) \o e = s \o (x \o e)
    BY <1>1, <1>6, <2>1, OctetsAssociate DEF e
  <2>5. QED
    BY <2>2, <2>3, <2>4 DEF s, e
<1>14. << Atom(<< "HAVESPACE" >>) >> \o (<< Str(c.name) >> \o (<< Atom(n) >> \o <<>>)) =
         << Verb(c), Str(c.name), Atom(n) >>
  <2>1. Verb(c) \in S /\ Str(c.name) \in S /\ Atom(n) \in S
    OBVIOUS
  <2>2. Verb(c) = Atom(<< "HAVESPACE" >>)
    BY DEF Verb
  <2> HIDE DEF S, n
  <2>3. << Verb(c) >> \o (<< Str(c.name) >> \o (<< Atom(n) >> \o <<>>)) =
          << Verb(c), Str(c.name), Atom(n) >>
    BY <2>1, FewTokens
  <2>4. QED
    BY <2>2, <2>3
<1>15. QED
  BY <1>10, <1>12, <1>13, <1>14

\* The string that cancels an exchange.
LEMMA CancelLine == IsLine(Cancel, << Str(<< "*" >>) >>)
<1> DEFINE v == << "*" >>
<1>1. "*" \in Octet /\ "*" \notin QuotedSpecials /\ "*" \notin Control
  BY SerialiseAssumption DEF QuotedSpecials, Control, Quote, Backslash, CR, LF
<1>2. v \in Seq(Octet) /\ Len(v) = 1 /\ v[1] = "*"
  BY <1>1, OneOctet
<1>3. ToSet(v) \cap Control = {}
  <2>1. ToSet(v) = {"*"}
    BY DEF ToSet
  <2>2. QED
    BY <1>1, <2>1
<1>4. Escaped(v) = v
  <2>1. PICK f \in [1..(Len(v) + 1) -> Seq(Octet)] :
          /\ \A i \in 1..(Len(v) + 1) : f[i] = EscapedAt(v, i, f)
          /\ Escaped(v) = f[1]
    BY <1>2, EscapedLoop
  <2>2. 1 \in 1..(Len(v) + 1) /\ 2 \in 1..(Len(v) + 1) /\ ~ (1 > Len(v)) /\ 2 > Len(v)
    BY <1>2
  <2>3. f[2] = <<>>
    <3>1. f[2] = EscapedAt(v, 2, f)
      BY <2>1, <2>2
    <3>2. QED
      BY <2>2, <3>1 DEF EscapedAt
  <2>4. f[1] = << v[1] >> \o f[1 + 1]
    <3>1. f[1] = EscapedAt(v, 1, f)
      BY <2>1, <2>2
    <3>2. v[1] \notin QuotedSpecials
      BY <1>1, <1>2
    <3> HIDE DEF v
    <3>3. QED
      BY <2>2, <3>1, <3>2 DEF EscapedAt
  <2>5. << v[1] >> \o <<>> = << v[1] >>
    <3>1. << "*" >> \o <<>> = << "*" >>
      BY <1>2, ConcatEmptySeq
    <3>2. QED
      BY <1>2, <3>1
  <2>6. QED
    BY <1>2, <2>1, <2>3, <2>4, <2>5
<1>5. Quoted(v) = << Quote, "*", Quote >>
  <2> DEFINE q == Quote
             s == "*"
  <2>1. q \in Octet /\ s \in Octet
    BY <1>1, KnownOctets
  <2>2. Quoted(v) = (<< q >> \o << s >>) \o << q >>
    BY <1>4 DEF Quoted
  <2> HIDE DEF q, s
  <2>3. << q >> \in Seq(Octet) /\ << s >> \in Seq(Octet)
    BY <2>1, OneOctet
  <2>4. (<< q >> \o << s >>) \o << q >> = << q >> \o (<< s >> \o << q >>)
    BY <2>3, OctetsAssociate
  <2>5. << q >> \o <<>> = << q >> /\ << q >> \o (<< s >> \o (<< q >> \o <<>>)) = << q, s, q >>
    BY <2>1, FewTokens
  <2>6. QED
    BY <2>2, <2>4, <2>5 DEF q, s
<1>6. Reads(Quoted(v), << Str(v) >>)
  BY <1>2, <1>3, QuotedReads
<1>7. IsLine(Quoted(v) \o Crlf, << Str(v) >> \o <<>>)
  BY <1>6, CrlfLine, ReadLine
<1>8. << Str(v) >> \o <<>> = << Str(v) >>
  <2>1. Str(v) \in {Str(v)}
    OBVIOUS
  <2>2. QED
    BY <2>1, FewTokens
<1>9. QED
  BY <1>5, <1>7, <1>8 DEF Cancel

\* Whatever octets its arguments are made of, a command (From<Cmd> for
\* Vec<u8>) is one line, whole, of the tokens its caller means: escapes, sizes
\* in decimal and markers read back as what they stand for.
THEOREM CommandReadsBack ==
  ASSUME NEW c, Issuable(c)
  PROVE  IsLine(Octets(c), Meaning(c))
<1>1. CASE c.op \in BareOps
  <2>1. c.op \in Words
    BY <1>1 DEF Words, Ops
  <2>2. IsLine(<< c.op >> \o Crlf, << Verb(c) >> \o <<>>)
    BY <2>1, WordReads, CrlfLine, ReadLine DEF Verb
  <2>3. << Verb(c) >> \o <<>> = << Verb(c) >>
    <3>1. Verb(c) \in {Verb(c)}
      OBVIOUS
    <3>2. QED
      BY <3>1, FewTokens
  <2>4. Octets(c) = Bare(c) /\ Meaning(c) = << Verb(c) >>
    BY <1>1 DEF Octets, Meaning, BareOps, NameOps
  <2>5. QED
    BY <2>2, <2>3, <2>4 DEF Bare
<1>2. CASE c.op \in {"GETSCRIPT", "DELETESCRIPT", "SETACTIVE", "AUTHENTICATE"}
  <2>1. c.op \in Words /\ c.op # "RAW"
    BY <1>2 DEF Words, Ops, NameOps
  <2>2. IsLine(<< c.op, " " >> \o String(c.name) \o Crlf, << Verb(c), Str(c.name) >>)
    BY <2>1, OneArgumentLine DEF Verb
  <2>3. Octets(c) = << c.op, " " >> \o String(c.name) \o Crlf
    BY <1>2 DEF Octets, BareOps, GetScript, DeleteScript, SetActive, Authenticate
  <2>4. Meaning(c) = << Verb(c), Str(c.name) >>
    BY <1>2 DEF Meaning, BareOps, NameOps
  <2>5. QED
    BY <2>2, <2>3, <2>4
<1>3. CASE c.op = "NOOP tag"
  <2>1. "NOOP" \in Words /\ c.op # "RAW"
    BY <1>3 DEF Words
  <2>2. IsLine(<< "NOOP", " " >> \o String(c.name) \o Crlf, << Atom(<< "NOOP" >>), Str(c.name) >>)
    BY <2>1, OneArgumentLine
  <2>3. Octets(c) = NoopTag(c) /\ Meaning(c) = << Atom(<< "NOOP" >>), Str(c.name) >>
    BY <1>3 DEF Octets, Meaning, BareOps, NameOps
  <2>4. QED
    BY <2>2, <2>3 DEF NoopTag
<1>4. CASE c.op = "CHECKSCRIPT"
  <2>1. "CHECKSCRIPT" \in Words /\ c.op # "RAW"
    BY <1>4 DEF Words, Ops
  <2>2. IsLine(<< "CHECKSCRIPT", " " >> \o Literal(c.to) \o Crlf,
               << Atom(<< "CHECKSCRIPT" >>), Str(c.to) >>)
    BY <2>1, OneArgumentLine
  <2>3. Octets(c) = CheckScript(c) /\ Meaning(c) = << Verb(c), Str(c.to) >>
    BY <1>4 DEF Octets, Meaning, BareOps, NameOps
  <2>4. QED
    BY <1>4, <2>2, <2>3 DEF CheckScript, Verb
<1>5. CASE c.op = "PUTSCRIPT"
  <2>1. "PUTSCRIPT" \in Words /\ c.op # "RAW"
    BY <1>5 DEF Words, Ops
  <2>2. IsLine(<< "PUTSCRIPT", " " >> \o String(c.name) \o << " " >> \o Literal(c.to) \o Crlf,
               << Atom(<< "PUTSCRIPT" >>), Str(c.name), Str(c.to) >>)
    BY <2>1, TwoArgumentsLine
  <2>3. Octets(c) = PutScript(c) /\ Meaning(c) = << Verb(c), Str(c.name), Str(c.to) >>
    BY <1>5 DEF Octets, Meaning, BareOps, NameOps
  <2>4. QED
    BY <1>5, <2>2, <2>3 DEF PutScript, Verb
<1>6. CASE c.op = "RENAMESCRIPT"
  <2>1. "RENAMESCRIPT" \in Words /\ c.op # "RAW"
    BY <1>6 DEF Words, Ops
  <2>2. IsLine(<< "RENAMESCRIPT", " " >> \o String(c.name) \o << " " >> \o String(c.to) \o Crlf,
               << Atom(<< "RENAMESCRIPT" >>), Str(c.name), Str(c.to) >>)
    BY <2>1, TwoArgumentsLine
  <2>3. Octets(c) = RenameScript(c) /\ Meaning(c) = << Verb(c), Str(c.name), Str(c.to) >>
    BY <1>6 DEF Octets, Meaning, BareOps, NameOps
  <2>4. QED
    BY <1>6, <2>2, <2>3 DEF RenameScript, Verb
<1>7. CASE c.op = "AUTHENTICATE initial"
  <2>1. "AUTHENTICATE" \in Words /\ c.op # "RAW"
    BY <1>7 DEF Words
  <2>2. IsLine(<< "AUTHENTICATE", " " >> \o String(c.name) \o << " " >> \o String(c.to) \o Crlf,
               << Atom(<< "AUTHENTICATE" >>), Str(c.name), Str(c.to) >>)
    BY <2>1, TwoArgumentsLine
  <2>3. /\ Octets(c) = AuthenticateInitial(c)
        /\ Meaning(c) = << Atom(<< "AUTHENTICATE" >>), Str(c.name), Str(c.to) >>
    BY <1>7 DEF Octets, Meaning, BareOps, NameOps
  <2>4. QED
    BY <2>2, <2>3 DEF AuthenticateInitial
<1>8. CASE c.op = "HAVESPACE"
  <2>1. Octets(c) = HaveSpace(c) /\ Meaning(c) = << Verb(c), Str(c.name), Atom(c.to) >>
    BY <1>8 DEF Octets, Meaning, BareOps, NameOps
  <2>2. QED
    BY <1>8, <2>1, HaveSpaceLine
<1>9. CASE c.op = "RESPONSE"
  <2>1. c.op # "RAW"
    BY <1>9
  <2>2. IsLine(String(c.to) \o Crlf, << Str(c.to) >> \o <<>>)
    BY <2>1, CrlfLine, ArgumentLine
  <2>3. << Str(c.to) >> \o <<>> = << Str(c.to) >>
    <3>1. Str(c.to) \in {Str(c.to)}
      OBVIOUS
    <3>2. QED
      BY <3>1, FewTokens
  <2>4. Octets(c) = Response(c) /\ Meaning(c) = << Str(c.to) >>
    BY <1>9 DEF Octets, Meaning, BareOps, NameOps
  <2>5. QED
    BY <2>2, <2>3, <2>4 DEF Response
<1>10. CASE c.op = "CANCEL"
  <2>1. Octets(c) = Cancel /\ Meaning(c) = << Str(<< "*" >>) >>
    BY <1>10 DEF Octets, Meaning, BareOps, NameOps
  <2>2. QED
    BY <2>1, CancelLine
<1>11. CASE c.op = "RAW"
  <2>1. Octets(c) = Raw(c) /\ Meaning(c) = c.means
    BY <1>11 DEF Octets, Meaning, BareOps, NameOps
  <2>2. ScanLine(Raw(c)) = [is |-> "line", tokens |-> c.means, consumed |-> Len(Raw(c))]
    BY <1>11 DEF Issuable
  <2>3. Raw(c) \in Seq(Octet)
    <3>1. c.to \in Seq(Octet) /\ Crlf \in Seq(Octet)
      BY CrlfLine DEF IsLine, Issuable
    <3>2. QED
      BY <3>1, ConcatProperties DEF Raw
  <2>4. Len(Raw(c)) \in 1..Len(Raw(c))
    BY <2>2, <2>3, ScanLineType, ScanKinds DEF ScannedLines
  <2>5. Raw(c) # <<>>
    BY <2>4, EmptySeq
  <2>6. QED
    BY <2>1, <2>2, <2>3, <2>5 DEF IsLine
<1>12. c.op \in Ops
  BY DEF Issuable
<1>13. QED
  BY <1>1, <1>2, <1>3, <1>4, <1>5, <1>6, <1>7, <1>8, <1>9, <1>10, <1>11, <1>12 DEF Ops, NameOps

-----------------------------------------------------------------------------
(* The octets of several commands.                                         *)

FlattenAt(s, i, Of) == IF i = 1 THEN s[i] ELSE Of[i - 1] \o s[i]

LEMMA FlattenLoop ==
  ASSUME NEW s \in Seq(Seq(Octet)), Len(s) # 0
  PROVE  \E f \in [1..Len(s) -> Seq(Octet)] :
            /\ \A k \in 1..Len(s) : f[k] = FlattenAt(s, k, f)
            /\ FlattenSeq(s) = f[Len(s)]
<1> DEFINE D == 1..Len(s)
           V == Seq(Octet)
           F == [p \in D \X [D -> V] |-> FlattenAt(s, p[1], p[2])]
<1>1. 1 \in Int /\ Len(s) \in Int /\ V # {}
  <2>1. <<>> \in V
    OBVIOUS
  <2>2. Len(s) \in Int
    OBVIOUS
  <2> HIDE DEF F, V, D
  <2>3. QED
    BY <2>1, <2>2
<1>2. F \in [D \X [D -> V] -> V]
  <2>1. ASSUME NEW i \in D, NEW g \in [D -> V] PROVE FlattenAt(s, i, g) \in V
    <3>1. s[i] \in Seq(Octet)
      BY ElementOfSeq
    <3>2. CASE i = 1
      BY <3>1, <3>2 DEF FlattenAt
    <3>3. CASE i # 1
      <4>1. i - 1 \in D
        BY <3>3
      <4>2. g[i - 1] \in V
        BY <4>1
      <4>3. g[i - 1] \o s[i] \in V
        BY <3>1, <4>2, ConcatProperties
      <4>4. QED
        BY <3>3, <4>3 DEF FlattenAt
    <3>4. QED
      BY <3>2, <3>3
  <2>2. QED
    BY <2>1
<1>3. \A i \in D : \A g, h \in [D -> V] :
        (\A j \in 1..(i - 1) : g[j] = h[j]) => F[<<i, g>>] = F[<<i, h>>]
  <2>1. ASSUME NEW i \in D, NEW g \in [D -> V], NEW h \in [D -> V],
               \A j \in 1..(i - 1) : g[j] = h[j]
        PROVE  FlattenAt(s, i, g) = FlattenAt(s, i, h)
    <3>1. i # 1 => i - 1 \in 1..(i - 1)
      OBVIOUS
    <3>2. QED
      BY <2>1, <3>1 DEF FlattenAt
  <2>2. QED
    BY <2>1
<1>4. PICK f : IsLoop(f, F, 1, Len(s), V)
  <2> HIDE DEF F, V
  <2>1. IsForwardStep(F, 1, Len(s), V)
    BY <1>1, <1>2, <1>3 DEF IsForwardStep
  <2>2. QED
    BY <1>1, <2>1, ForwardRecursion
<1>5. f \in [D -> V] /\ \A k \in D : f[k] = FlattenAt(s, k, f)
  BY <1>4 DEF IsLoop
<1>6. ASSUME NEW g, g = [k \in D |-> FlattenAt(s, k, g)]
      PROVE  g = f
  <2> DEFINE T == {i \in D : g[i] = f[i]}
  <2>1. ASSUME NEW i \in D, \A j \in 1..(i - 1) : j \in T PROVE i \in T
    <3>1. i # 1 => i - 1 \in 1..(i - 1)
      OBVIOUS
    <3>2. FlattenAt(s, i, g) = FlattenAt(s, i, f)
      BY <2>1, <3>1 DEF FlattenAt
    <3>3. QED
      BY <1>5, <1>6, <3>2
  <2>2. \A i \in D : i \in T
    <3> HIDE DEF T
    <3>1. QED
      BY <1>1, <2>1, ForwardInduction
  <2>3. g = [i \in D |-> g[i]]
    BY <1>6
  <2>4. f = [i \in D |-> f[i]]
    BY <1>5
  <2>5. \A i \in D : g[i] = f[i]
    BY <2>2
  <2>6. QED
    BY <2>3, <2>4, <2>5
<1>7. f = [k \in D |-> FlattenAt(s, k, f)]
  BY <1>5
<1>8. FlattenSeq(s) = f[Len(s)]
  <2>1. FlattenSeq(s) = (CHOOSE g : g = [k \in D |-> FlattenAt(s, k, g)])[Len(s)]
    BY DEF FlattenSeq, FlattenAt
  <2>2. (CHOOSE g : g = [k \in D |-> FlattenAt(s, k, g)]) = f
    BY <1>6, <1>7
  <2>3. QED
    BY <2>1, <2>2
<1>9. QED
  BY <1>5, <1>8

\* One sequence more.
LEMMA FlattenMore ==
  ASSUME NEW s \in Seq(Seq(Octet)), NEW t \in Seq(Seq(Octet)), Len(t) = Len(s) + 1,
         \A i \in 1..Len(s) : t[i] = s[i]
  PROVE  /\ FlattenSeq(s) \in Seq(Octet)
         /\ FlattenSeq(t) = FlattenSeq(s) \o t[Len(t)]
<1> DEFINE n == Len(s)
<1>1. n \in Nat /\ Len(t) = n + 1 /\ Len(t) # 0 /\ 1 \in 1..Len(t) /\ Len(t) \in 1..Len(t)
  OBVIOUS
<1>2. PICK g \in [1..Len(t) -> Seq(Octet)] :
         /\ \A k \in 1..Len(t) : g[k] = FlattenAt(t, k, g)
         /\ FlattenSeq(t) = g[Len(t)]
  BY <1>1, FlattenLoop
<1>3. CASE n = 0
  <2>1. s = <<>>
    BY <1>3, EmptySeq
  <2>2. FlattenSeq(s) = <<>> /\ <<>> \in Seq(Octet)
    BY <1>3, <2>1, EmptySeq DEF FlattenSeq
  <2>3. g[1] = t[1]
    BY <1>1, <1>2 DEF FlattenAt
  <2>4. t[1] \in Seq(Octet)
    BY <1>1, ElementOfSeq
  <2>5. <<>> \o t[1] = t[1]
    BY <2>4, ConcatEmptySeq
  <2>6. Len(t) = 1
    BY <1>1, <1>3
  <2>7. QED
    BY <1>2, <2>2, <2>3, <2>5, <2>6
<1>4. CASE n # 0
  <2>1. PICK f \in [1..n -> Seq(Octet)] :
           /\ \A k \in 1..n : f[k] = FlattenAt(s, k, f)
           /\ FlattenSeq(s) = f[n]
    BY <1>4, FlattenLoop
  <2> DEFINE T == {i \in 1..n : g[i] = f[i]}
  <2>2. ASSUME NEW i \in 1..n, \A j \in 1..(i - 1) : j \in T PROVE i \in T
    <3>1. i # 1 => i - 1 \in 1..(i - 1)
      OBVIOUS
    <3>2. FlattenAt(t, i, g) = FlattenAt(s, i, f)
      BY <2>2, <3>1 DEF FlattenAt
    <3>3. i \in 1..Len(t)
      BY <1>1
    <3>4. QED
      BY <1>2, <2>1, <3>2, <3>3
  <2>3. \A i \in 1..n : i \in T
    <3>1. 1 \in Int /\ n \in Int
      BY <1>1
    <3> HIDE DEF T, n
    <3>2. QED
      BY <2>2, <3>1, ForwardInduction
  <2>4. n \in 1..n
    BY <1>1, <1>4
  <2>5. g[n] = f[n] /\ f[n] \in Seq(Octet)
    BY <2>3, <2>4
  <2>6. g[Len(t)] = g[n] \o t[Len(t)]
    <3>1. Len(t) # 1 /\ Len(t) - 1 = n
      BY <1>1, <1>4
    <3>2. g[Len(t)] = FlattenAt(t, Len(t), g)
      BY <1>1, <1>2
    <3>3. QED
      BY <3>1, <3>2 DEF FlattenAt
  <2>7. QED
    BY <1>2, <2>1, <2>5, <2>6
<1>5. QED
  BY <1>3, <1>4

\* The octets of the first commands.
Upto(w, k) == FlattenSeq([i \in 1..k |-> Octets(w[i])])

LEMMA UptoMore ==
  ASSUME NEW w, NEW k \in Nat, \A i \in 1..(k + 1) : Octets(w[i]) \in Seq(Octet)
  PROVE  Upto(w, k) \in Seq(Octet) /\ Upto(w, k + 1) = Upto(w, k) \o Octets(w[k + 1])
<1> DEFINE s == [i \in 1..k |-> Octets(w[i])]
           t == [i \in 1..(k + 1) |-> Octets(w[i])]
<1>1. s \in Seq(Seq(Octet)) /\ Len(s) = k /\ t \in Seq(Seq(Octet)) /\ Len(t) = k + 1
  <2>1. \A i \in 1..k : i \in 1..(k + 1)
    OBVIOUS
  <2>2. s \in [1..k -> Seq(Octet)] /\ t \in [1..(k + 1) -> Seq(Octet)]
    BY <2>1
  <2>3. DOMAIN s = 1..k /\ DOMAIN t = 1..(k + 1)
    OBVIOUS
  <2> HIDE DEF s, t
  <2>4. s \in Seq(Seq(Octet)) /\ t \in Seq(Seq(Octet))
    BY <2>2, SeqDef
  <2>5. Len(s) = k /\ Len(t) = k + 1
    BY <2>3, <2>4, LenProperties
  <2>6. QED
    BY <2>4, <2>5
<1>2. \A i \in 1..k : t[i] = s[i]
  OBVIOUS
<1>3. t[k + 1] = Octets(w[k + 1])
  OBVIOUS
<1> HIDE DEF s, t
<1>4. FlattenSeq(s) \in Seq(Octet) /\ FlattenSeq(t) = FlattenSeq(s) \o t[Len(t)]
  <2>1. s \in Seq(Seq(Octet))
    BY <1>1
  <2>2. t \in Seq(Seq(Octet))
    BY <1>1
  <2>3. Len(t) = Len(s) + 1
    BY <1>1
  <2>4. \A i \in 1..Len(s) : t[i] = s[i]
    BY <1>1, <1>2
  <2>5. QED
    BY <2>1, <2>2, <2>3, <2>4, FlattenMore
<1>5. QED
  BY <1>1, <1>3, <1>4 DEF Upto, s, t

LEMMA UptoNone == \A w : Upto(w, 0) = <<>>
<1> SUFFICES ASSUME NEW w PROVE Upto(w, 0) = <<>>
  OBVIOUS
<1> DEFINE s == [i \in 1..0 |-> Octets(w[i])]
<1>1. s = <<>>
  OBVIOUS
<1> HIDE DEF s
<1>2. FlattenSeq(s) = <<>>
  BY <1>1, EmptySeq DEF FlattenSeq
<1>3. QED
  BY <1>2 DEF Upto, s

LEMMA UptoSame ==
  ASSUME NEW v, NEW w, NEW k \in Nat, \A i \in 1..k : v[i] = w[i]
  PROVE  Upto(v, k) = Upto(w, k)
<1>1. [i \in 1..k |-> Octets(v[i])] = [i \in 1..k |-> Octets(w[i])]
  OBVIOUS
<1>2. QED
  BY <1>1 DEF Upto

\* The octets of some commands are the first ones of those of more.
LEMMA UptoBegins ==
  ASSUME NEW w, NEW n \in Nat, \A i \in 1..n : Octets(w[i]) \in Seq(Octet), NEW k \in 0..n
  PROVE  \E z \in Seq(Octet) : Upto(w, n) = Upto(w, k) \o z
<1> DEFINE T == {m \in k..n : Upto(w, m) \in Seq(Octet) /\ \E z \in Seq(Octet) : Upto(w, m) = Upto(w, k) \o z}
<1>1. k \in Nat /\ k \in Int /\ n \in Int /\ n \in k..n
  OBVIOUS
<1>2. Upto(w, k) \in Seq(Octet)
  <2>1. CASE k = 0
    BY <2>1, UptoNone, EmptySeq
  <2>2. CASE k # 0
    <3> DEFINE j == k - 1
    <3>1. j \in Nat /\ k = j + 1 /\ \A i \in 1..(j + 1) : Octets(w[i]) \in Seq(Octet)
      BY <2>2
    <3> HIDE DEF j
    <3>2. Upto(w, j) \in Seq(Octet) /\ Upto(w, j + 1) = Upto(w, j) \o Octets(w[j + 1])
      BY <3>1, UptoMore
    <3>3. Octets(w[j + 1]) \in Seq(Octet)
      BY <3>1
    <3>4. QED
      BY <3>1, <3>2, <3>3, ConcatProperties
  <2>3. QED
    BY <2>1, <2>2
<1>3. ASSUME NEW m \in k..n, \A j \in k..(m - 1) : j \in T PROVE m \in T
  <2>1. CASE m = k
    <3>1. Upto(w, k) \o <<>> = Upto(w, k) /\ <<>> \in Seq(Octet)
      BY <1>2, ConcatEmptySeq, EmptySeq
    <3>2. QED
      BY <1>2, <2>1, <3>1
  <2>2. CASE m # k
    <3> DEFINE j == m - 1
    <3>1. j \in k..(m - 1) /\ j \in Nat /\ m = j + 1
      BY <2>2
    <3>2. \A i \in 1..(j + 1) : Octets(w[i]) \in Seq(Octet)
      BY <3>1
    <3>3. j \in T
      BY <1>3, <3>1
    <3> HIDE DEF j
    <3>4. Upto(w, j) \in Seq(Octet) /\ Upto(w, j + 1) = Upto(w, j) \o Octets(w[j + 1])
      BY <3>1, <3>2, UptoMore
    <3>5. PICK z \in Seq(Octet) : Upto(w, j) = Upto(w, k) \o z
      BY <3>3
    <3> DEFINE c == Octets(w[j + 1])
               u == Upto(w, k)
               y == z \o c
    <3>6. c \in Seq(Octet)
      BY <3>1, <3>2
    <3>7. u \in Seq(Octet)
      BY <1>2
    <3>8. Upto(w, m) = (u \o z) \o c
      BY <3>1, <3>4, <3>5
    <3> HIDE DEF c, u
    <3>9. (u \o z) \o c = u \o y
      BY <3>6, <3>7, OctetsAssociate
    <3>10. y \in Seq(Octet)
      BY <3>6, ConcatProperties
    <3> HIDE DEF y
    <3>11. Upto(w, m) = u \o y /\ u \o y \in Seq(Octet)
      BY <3>7, <3>8, <3>9, <3>10, ConcatProperties
    <3>12. QED
      BY <3>10, <3>11 DEF u
  <2>3. QED
    BY <2>1, <2>2
<1>4. \A m \in k..n : m \in T
  <2> HIDE DEF T
  <2>1. QED
    BY <1>1, <1>3, ForwardInduction
<1>5. QED
  BY <1>1, <1>4

\* What is behind the first of two sequences is the second.
LEMMA RestIsSecond ==
  ASSUME NEW S, NEW s \in Seq(S), NEW t \in Seq(S)
  PROVE  Rest(s \o t, Len(s)) = t /\ Len(s) \in 0..Len(s \o t)
<1>1. Len(s) \in Nat /\ Len(t) \in Nat /\ Len(s \o t) = Len(s) + Len(t)
  BY Behind
<1>2. Len(s) \in 0..Len(s)
  BY <1>1
<1>3. Rest(s \o t, Len(s)) = Rest(s, Len(s)) \o t
  BY <1>2, RestOfLonger
<1>4. Rest(s, Len(s)) = <<>>
  <2>1. Rest(s, Len(s)) \in Seq(S) /\ Len(Rest(s, Len(s))) = Len(s) - Len(s)
    BY <1>2, RestElements
  <2>2. QED
    BY <1>1, <2>1, EmptySeq
<1>5. <<>> \o t = t
  BY ConcatEmptySeq
<1>6. QED
  BY <1>1, <1>3, <1>4, <1>5

-----------------------------------------------------------------------------
(* What the caller and the server share.                                   *)

\* What the server takes, a line or an error.
Takings == [is : {"line"}, tokens : Seq(Token), consumed : Nat] \cup {Bad(err) : err \in LexErrors}

\* The inductive form of SerialiseTypeOK: what is in flight is the end of
\* what was written.
SerialiseTypes ==
  /\ calls \in Seq(Issued) /\ written \in Seq(Issued) /\ written \o calls \in Callers
  /\ sent \in Seq(Octet) /\ held \in Seq(Octet) /\ lines \in Seq(Takings)
  /\ \E k \in 0..Len(Upto(written, Len(written))) :
       held \o sent = Rest(Upto(written, Len(written)), k)

\* A line as the server takes it from a command.
Taken(c) == [is |-> "line", tokens |-> Meaning(c), consumed |-> Len(Octets(c))]

\* The inductive form of UnderstoodAsMeant: what is in flight are the octets
\* of the commands written and not taken, whole; no read and no line of the
\* server ever cuts one anywhere else.
SerialiseInv ==
  /\ SerialiseTypes
  /\ Len(lines) <= Len(written)
  /\ \A i \in DOMAIN lines : lines[i] = Taken(written[i])
  /\ Upto(written, Len(written)) = Upto(written, Len(lines)) \o (held \o sent)

\* The octets of a command are octets.
LEMMA IssuedOctets ==
  ASSUME NEW c \in Issued
  PROVE  Octets(c) \in Seq(Octet)
<1>1. CASE c.op = "RAW"
  <2>1. Octets(c) = Raw(c)
    BY <1>1 DEF Octets, BareOps
  <2>2. c.to \in Seq(Octet) /\ Crlf \in Seq(Octet)
    BY SerialiseAssumption, CrlfLine DEF IsLine
  <2>3. Raw(c) \in Seq(Octet)
    BY <2>2, ConcatProperties DEF Raw
  <2>4. QED
    BY <2>1, <2>3
<1>2. CASE c.op # "RAW"
  <2>1. Issuable(c)
    BY <1>2, SerialiseAssumption DEF Issuable
  <2>2. QED
    BY <2>1, CommandReadsBack DEF IsLine
<1>3. QED
  BY <1>1, <1>2

\* A passthrough command given whole is one line as any other.
LEMMA IssuedLine ==
  ASSUME RawsAreWhole(Callers), NEW caller \in Callers, NEW i \in DOMAIN caller
  PROVE  ScanLine(Octets(caller[i])) = Taken(caller[i])
<1> DEFINE c == caller[i]
<1>1. caller \in Seq(Issued)
  BY SerialiseAssumption
<1>2. c \in Issued
  BY <1>1, ElementOfSeq
<1>3. c.op = "RAW" =>
        ScanLine(Raw(c)) = [is |-> "line", tokens |-> c.means, consumed |-> Len(Raw(c))]
  BY DEF RawsAreWhole
<1> HIDE DEF c
<1>4. Issuable(c)
  BY <1>2, <1>3, SerialiseAssumption DEF Issuable
<1>5. ScanLine(Octets(c)) = Taken(c)
  BY <1>4, CommandReadsBack DEF IsLine, Taken
<1>6. QED
  BY <1>5 DEF c

\* The commands written, and what each step makes of their octets.
LEMMA WrittenOctets ==
  ASSUME written \in Seq(Issued)
  PROVE  /\ Len(written) \in Nat /\ \A i \in 1..Len(written) : Octets(written[i]) \in Seq(Octet)
         /\ Upto(written, Len(written)) \in Seq(Octet)
<1>1. Len(written) \in Nat /\ \A i \in 1..Len(written) : Octets(written[i]) \in Seq(Octet)
  BY ElementOfSeq, IssuedOctets
<1> DEFINE n == Len(written)
<1> HIDE DEF n
<1>2. n \in Nat /\ \A i \in 1..n : Octets(written[i]) \in Seq(Octet)
  BY <1>1 DEF n
<1>3. 0 \in 0..n /\ Upto(written, 0) = <<>>
  BY <1>2, UptoNone
<1>4. PICK z \in Seq(Octet) : Upto(written, n) = Upto(written, 0) \o z
  BY <1>2, <1>3, UptoBegins
<1>5. Upto(written, n) = z
  BY <1>3, <1>4, ConcatEmptySeq
<1>6. QED
  BY <1>1, <1>5 DEF n

LEMMA InitSerialise ==
  ASSUME SerialiseInit
  PROVE  SerialiseTypes /\ SerialiseInv
<1>1. /\ calls \in Callers /\ calls \in Seq(Issued) /\ written = <<>> /\ sent = <<>> /\ held = <<>>
      /\ lines = <<>>
  BY SerialiseAssumption DEF SerialiseInit
<1>2. <<>> \o calls = calls /\ <<>> \o <<>> = <<>>
  BY <1>1, ConcatEmptySeq, EmptySeq
<1>3. Len(<<>>) = 0 /\ Upto(written, 0) = <<>> /\ \A S : <<>> \in Seq(S)
  BY EmptySeq, UptoNone
<1>4. Rest(<<>>, 0) = <<>>
  BY <1>3, RestOfAll
<1>5. SerialiseTypes
  <2>1. 0 \in 0..0
    OBVIOUS
  <2>2. Upto(written, Len(written)) = <<>>
    BY <1>1, <1>3
  <2>3. held \o sent = Rest(Upto(written, Len(written)), 0) /\ 0 \in 0..Len(Upto(written, Len(written)))
    BY <1>1, <1>2, <1>3, <1>4, <2>1, <2>2
  <2>4. QED
    BY <1>1, <1>2, <1>3, <2>3 DEF SerialiseTypes
<1>6. SerialiseInv
  <2>1. Len(lines) <= Len(written) /\ \A i \in DOMAIN lines : lines[i] = Taken(written[i])
    BY <1>1, <1>3
  <2>2. Upto(written, Len(written)) = Upto(written, Len(lines)) \o (held \o sent)
    BY <1>1, <1>2, <1>3
  <2>3. QED
    BY <1>5, <2>1, <2>2 DEF SerialiseInv
<1>7. QED
  BY <1>5, <1>6

\* One more command written is its octets behind those in flight.
LEMMA WriteOctets ==
  ASSUME SerialiseTypes, Write
  PROVE  /\ Head(calls) \in Issued /\ calls' \in Seq(Issued) /\ written' \in Seq(Issued)
         /\ written' \o calls' = written \o calls
         /\ Octets(Head(calls)) \in Seq(Octet)
         /\ Len(written') = Len(written) + 1 /\ \A i \in 1..Len(written) : written'[i] = written[i]
         /\ Upto(written', Len(written')) = Upto(written, Len(written)) \o Octets(Head(calls))
         /\ held' \o sent' = (held \o sent) \o Octets(Head(calls))
<1> DEFINE h == Head(calls)
           c == Octets(h)
           n == Len(written)
<1>1. /\ calls \in Seq(Issued) /\ calls # <<>> /\ written \in Seq(Issued)
      /\ sent \in Seq(Octet) /\ held \in Seq(Octet)
  BY DEF SerialiseTypes, Write
<1>2. calls' = Tail(calls) /\ written' = Append(written, h) /\ sent' = sent \o c /\ held' = held
  BY DEF Write, Written
<1>3. h \in Issued /\ Tail(calls) \in Seq(Issued) /\ << h >> \o Tail(calls) = calls
  <2>1. h \in Issued /\ Tail(calls) \in Seq(Issued)
    BY <1>1, HeadTailProperties
  <2> DEFINE s == << h >>
             t == Tail(calls)
             r == s \o t
  <2>2. s \in Seq(Issued) /\ Len(s) = 1 /\ s[1] = h
    BY <2>1
  <2>3. Len(t) = Len(calls) - 1 /\ \A i \in 1..Len(t) : t[i] = calls[i + 1]
    BY <1>1, HeadTailProperties
  <2>4. Len(calls) \in Nat /\ Len(calls) # 0 /\ h = calls[1]
    BY <1>1, EmptySeq
  <2>5. t \in Seq(Issued)
    BY <2>1
  <2> HIDE DEF h, s, t
  <2>6. r \in Seq(Issued) /\ Len(r) = 1 + Len(t) /\ r[1] = h /\ \A i \in 1..Len(t) : r[1 + i] = t[i]
    BY <2>2, <2>5, ConcatProperties
  <2> HIDE DEF r
  <2>7. ASSUME NEW i \in 1..Len(calls) PROVE r[i] = calls[i]
    <3>1. CASE i = 1
      BY <2>4, <2>6, <3>1
    <3>2. CASE i # 1
      <4>1. i - 1 \in 1..Len(t) /\ 1 + (i - 1) = i /\ (i - 1) + 1 = i
        BY <2>3, <2>4, <3>2
      <4>2. QED
        BY <2>3, <2>6, <4>1
    <3>3. QED
      BY <3>1, <3>2
  <2>8. Len(r) = Len(calls)
    BY <2>3, <2>4, <2>6
  <2>9. r = calls
    BY <1>1, <2>6, <2>7, <2>8, SeqEqual
  <2>10. QED
    BY <2>1, <2>9 DEF r, s, t
<1>4. written' = written \o << h >> /\ << h >> \in Seq(Issued)
  BY <1>1, <1>2, <1>3, AppendIsConcat
<1>5. written' \in Seq(Issued) /\ Len(written') = n + 1 /\ written'[n + 1] = h
      /\ \A i \in 1..n : written'[i] = written[i]
  BY <1>1, <1>2, <1>3, AppendProperties
<1>6. written' \o calls' = written \o calls
  <2>1. (written \o << h >>) \o Tail(calls) = written \o (<< h >> \o Tail(calls))
    BY <1>1, <1>3, <1>4, ConcatAssociative
  <2>2. QED
    BY <1>2, <1>3, <1>4, <2>1
<1>7. c \in Seq(Octet)
  BY <1>3, IssuedOctets
<1>8. Upto(written', Len(written')) = Upto(written, n) \o c
  <2> DEFINE w == written'
  <2>1. \A i \in 1..Len(w) : w[i] \in Issued
    BY <1>5, ElementOfSeq
  <2>2. n \in Nat /\ Len(w) = n + 1 /\ w[n + 1] = h /\ \A i \in 1..n : w[i] = written[i]
    BY <1>1, <1>5
  <2> HIDE DEF w, h, n
  <2>3. \A i \in 1..(n + 1) : Octets(w[i]) \in Seq(Octet)
    BY <2>1, <2>2, IssuedOctets
  <2>4. Upto(w, n + 1) = Upto(w, n) \o Octets(w[n + 1])
    BY <2>2, <2>3, UptoMore
  <2>5. Upto(w, n) = Upto(written, n)
    BY <2>2, UptoSame
  <2>6. QED
    BY <2>2, <2>4, <2>5 DEF w
<1>9. held' \o sent' = (held \o sent) \o c
  <2> HIDE DEF c
  <2>1. (held \o sent) \o c = held \o (sent \o c)
    BY <1>1, <1>7, OctetsAssociate
  <2>2. QED
    BY <1>2, <2>1
<1>10. QED
  BY <1>2, <1>3, <1>5, <1>6, <1>7, <1>8, <1>9

\* What is in flight stays the end of what was written.
LEMMA StaysTheEnd ==
  ASSUME SerialiseTypes, calls' = calls, written' = written,
         sent' \in Seq(Octet), held' \in Seq(Octet), lines' \in Seq(Takings),
         NEW j \in 0..Len(held \o sent), held' \o sent' = Rest(held \o sent, j)
  PROVE  SerialiseTypes'
<1> DEFINE u == Upto(written, Len(written))
<1>1. u \in Seq(Octet)
  BY WrittenOctets DEF SerialiseTypes
<1>2. PICK k \in 0..Len(u) : held \o sent = Rest(u, k)
  BY DEF SerialiseTypes
<1>3. Upto(written', Len(written')) = u
  OBVIOUS
<1> HIDE DEF u
<1>4. Len(Rest(u, k)) = Len(u) - k /\ Len(u) \in Nat
  BY <1>1, RestElements
<1>5. j \in 0..(Len(u) - k) /\ k + j \in 0..Len(u)
  BY <1>2, <1>4
<1>6. Rest(Rest(u, k), j) = Rest(u, k + j)
  BY <1>1, <1>5, RestOfRest
<1>7. held' \o sent' = Rest(u, k + j)
  BY <1>2, <1>6
<1>8. \E m \in 0..Len(Upto(written', Len(written'))) :
        held' \o sent' = Rest(Upto(written', Len(written')), m)
  BY <1>3, <1>5, <1>7
<1>9. calls' \in Seq(Issued) /\ written' \in Seq(Issued) /\ written' \o calls' \in Callers
  BY DEF SerialiseTypes
<1>10. QED
  BY <1>8, <1>9 DEF SerialiseTypes

LEMMA WriteTypes ==
  ASSUME SerialiseTypes, Write
  PROVE  SerialiseTypes'
<1> DEFINE c == Octets(Head(calls))
           u == Upto(written, Len(written))
           v == Upto(written', Len(written'))
           flying == held \o sent
<1>1. /\ calls' \in Seq(Issued) /\ written' \in Seq(Issued) /\ written' \o calls' = written \o calls
      /\ c \in Seq(Octet) /\ v = u \o c /\ held' \o sent' = flying \o c
  BY WriteOctets
<1>2. written \o calls \in Callers /\ sent \in Seq(Octet) /\ held \in Seq(Octet) /\ lines \in Seq(Takings)
  BY DEF SerialiseTypes
<1>3. held' = held /\ lines' = lines /\ sent' = sent \o c
  BY DEF Write, Written
<1>4. u \in Seq(Octet)
  BY WrittenOctets DEF SerialiseTypes
<1>5. PICK k \in 0..Len(u) : flying = Rest(u, k)
  BY DEF SerialiseTypes
<1> HIDE DEF c, u, v, flying
<1>6. sent' \in Seq(Octet)
  BY <1>1, <1>2, <1>3, ConcatProperties
<1>7. Rest(u \o c, k) = Rest(u, k) \o c
  BY <1>1, <1>4, RestOfLonger
<1>8. k \in 0..Len(v)
  <2>1. Len(u \o c) = Len(u) + Len(c) /\ Len(u) \in Nat /\ Len(c) \in Nat
    BY <1>1, <1>4, Behind
  <2>2. QED
    BY <1>1, <2>1
<1>9. held' \o sent' = Rest(v, k)
  BY <1>1, <1>5, <1>7
<1>10. \E m \in 0..Len(v) : held' \o sent' = Rest(v, m)
  BY <1>8, <1>9
<1>11. QED
  BY <1>1, <1>2, <1>3, <1>6, <1>10 DEF SerialiseTypes, v

\* A read of the server changes where the octets in flight are, not what
\* they are.
LEMMA ReadOctets ==
  ASSUME SerialiseTypes, ServerReads
  PROVE  sent' \in Seq(Octet) /\ held' \in Seq(Octet) /\ held' \o sent' = held \o sent
<1>1. sent \in Seq(Octet) /\ held \in Seq(Octet)
  BY DEF SerialiseTypes
<1>2. PICK n \in 1..Min({Len(sent), MaxServed}) :
        held' = held \o SubSeq(sent, 1, n) /\ sent' = SubSeq(sent, n + 1, Len(sent))
  BY DEF ServerReads
<1>3. n \in 0..Len(sent)
  <2> DEFINE S == {Len(sent), MaxServed}
  <2>1. Len(sent) \in Nat /\ MaxServed \in Nat
    BY <1>1, SerialiseAssumption
  <2>2. S \in SUBSET Int /\ S # {} /\ \A x \in S : 0 <= x
    BY <2>1
  <2>3. Len(sent) \in S
    OBVIOUS
  <2> HIDE DEF S
  <2>4. Min(S) \in S /\ \A x \in S : Min(S) <= x
    BY <2>2, MinIsLeast
  <2>5. Min(S) <= Len(sent) /\ Min(S) \in Int
    BY <2>2, <2>3, <2>4
  <2>6. n \in 1..Min(S)
    BY DEF S
  <2>7. QED
    BY <2>1, <2>5, <2>6
<1> DEFINE a == SubSeq(sent, 1, n)
           b == Rest(sent, n)
<1>4. a \in Seq(Octet) /\ a \o b = sent
  BY <1>1, <1>3, CutInTwo
<1>5. b \in Seq(Octet)
  BY <1>1, <1>3, RestElements
<1>6. held' = held \o a /\ sent' = b
  BY <1>2 DEF Rest
<1> HIDE DEF a, b
<1>7. (held \o a) \o b = held \o (a \o b)
  BY <1>1, <1>4, <1>5, OctetsAssociate, ZenonT(60)
<1>8. held \o a \in Seq(Octet)
  BY <1>1, <1>4, ConcatProperties
<1>9. QED
  BY <1>4, <1>5, <1>6, <1>7, <1>8

\* What the server takes is in front of what it leaves.
LEMMA TakeOctets ==
  ASSUME SerialiseTypes, ServerTakes
  PROVE  /\ ScanLine(held) # Incomplete /\ lines' \in Seq(Takings)
         /\ lines' = Append(lines, ScanLine(held)) /\ sent' = sent /\ held' \in Seq(Octet)
         /\ \E j \in 0..Len(held \o sent) :
              /\ held' \o sent' = Rest(held \o sent, j)
              /\ ScanLine(held).is = "line" => j = ScanLine(held).consumed
<1> DEFINE scanned == ScanLine(held)
<1>1. sent \in Seq(Octet) /\ held \in Seq(Octet) /\ lines \in Seq(Takings)
  BY DEF SerialiseTypes
<1>2. scanned \in ScanResults(held)
  BY <1>1, ScanLineType
<1>3. /\ scanned.is # "incomplete" /\ lines' = Append(lines, scanned) /\ sent' = sent
      /\ held' = IF scanned.is = "line" THEN SubSeq(held, scanned.consumed + 1, Len(held)) ELSE <<>>
  BY DEF ServerTakes
<1> HIDE DEF scanned
<1>4. scanned # Incomplete /\ scanned \in Takings
  <2>1. scanned # Incomplete
    BY <1>2, <1>3, ScanKinds
  <2>2. CASE scanned \in {Bad(err) : err \in LexErrors}
    BY <2>1, <2>2 DEF Takings
  <2>3. CASE scanned \in ScannedLines(held)
    <3>1. 1..Len(held) \subseteq Nat
      BY <1>1
    <3>2. QED
      BY <2>1, <2>3, <3>1 DEF ScannedLines, Takings
  <2>4. QED
    BY <1>2, <2>1, <2>2, <2>3 DEF ScanResults
<1>5. lines' \in Seq(Takings)
  BY <1>1, <1>3, <1>4, AppendProperties
<1>6. /\ held' \in Seq(Octet)
      /\ \E j \in 0..Len(held \o sent) :
           /\ held' \o sent' = Rest(held \o sent, j)
           /\ scanned.is = "line" => j = scanned.consumed
  <2>1. Len(held \o sent) = Len(held) + Len(sent) /\ Len(held) \in Nat /\ Len(sent) \in Nat
    BY <1>1, Behind
  <2>2. CASE scanned.is = "line"
    <3> DEFINE j == scanned.consumed
    <3>1. scanned \in ScannedLines(held)
      BY <1>2, <2>2, ScanKinds
    <3>2. j \in 1..Len(held)
      BY <3>1 DEF ScannedLines
    <3>3. held' = Rest(held, j)
      BY <1>3, <2>2 DEF Rest
    <3>4. scanned.is = "line" => j = scanned.consumed
      OBVIOUS
    <3> HIDE DEF j
    <3>5. j \in 0..Len(held) /\ j \in 0..Len(held \o sent)
      BY <2>1, <3>2
    <3>6. Rest(held \o sent, j) = Rest(held, j) \o sent /\ Rest(held, j) \in Seq(Octet)
      BY <1>1, <3>5, RestOfLonger, RestElements
    <3>7. QED
      BY <1>3, <3>3, <3>4, <3>5, <3>6
  <2>3. CASE scanned.is # "line"
    <3>1. held' = <<>>
      BY <1>3, <2>3
    <3>2. Rest(held \o sent, Len(held)) = sent /\ Len(held) \in 0..Len(held \o sent)
      BY <1>1, RestIsSecond
    <3>3. <<>> \o sent = sent /\ <<>> \in Seq(Octet)
      BY <1>1, ConcatEmptySeq, EmptySeq
    <3>4. held' \o sent' = Rest(held \o sent, Len(held))
      BY <1>3, <3>1, <3>2, <3>3
    <3>5. QED
      BY <2>3, <3>1, <3>2, <3>3, <3>4
  <2>4. QED
    BY <2>2, <2>3
<1>7. QED
  BY <1>3, <1>4, <1>5, <1>6 DEF scanned

LEMMA NextTypes ==
  ASSUME SerialiseTypes, [SerialiseNext]_serialiseVars
  PROVE  SerialiseTypes'
<1>1. CASE Write
  BY <1>1, WriteTypes
<1>2. CASE ServerReads
  <2> DEFINE flying == held \o sent
  <2>1. sent' \in Seq(Octet) /\ held' \in Seq(Octet) /\ held' \o sent' = flying
    BY <1>2, ReadOctets
  <2>2. calls' = calls /\ written' = written /\ lines' = lines /\ lines \in Seq(Takings)
    BY <1>2 DEF ServerReads, SerialiseTypes
  <2>3. flying \in Seq(Octet)
    BY ConcatProperties DEF SerialiseTypes
  <2> HIDE DEF flying
  <2>4. Rest(flying, 0) = flying /\ 0 \in 0..Len(flying)
    BY <2>3, RestOfAll
  <2>5. 0 \in 0..Len(held \o sent) /\ held' \o sent' = Rest(held \o sent, 0)
    BY <2>1, <2>4 DEF flying
  <2>6. QED
    BY <2>1, <2>2, <2>5, StaysTheEnd
<1>3. CASE ServerTakes
  <2>1. /\ lines' \in Seq(Takings) /\ sent' = sent /\ held' \in Seq(Octet)
        /\ \E j \in 0..Len(held \o sent) : held' \o sent' = Rest(held \o sent, j)
    BY <1>3, TakeOctets
  <2>2. calls' = calls /\ written' = written /\ sent' \in Seq(Octet)
    BY <1>3, <2>1 DEF ServerTakes, SerialiseTypes
  <2>3. QED
    BY <2>1, <2>2, StaysTheEnd
<1>4. CASE AllServed \/ UNCHANGED serialiseVars
  <2>1. UNCHANGED serialiseVars
    BY <1>4 DEF AllServed
  <2>2. QED
    BY <2>1 DEF SerialiseTypes, serialiseVars
<1>5. QED
  BY <1>1, <1>2, <1>3, <1>4 DEF SerialiseNext

LEMMA TypesAreTypeOK ==
  ASSUME SerialiseTypes
  PROVE  SerialiseTypeOK
<1> DEFINE u == Upto(written, Len(written))
<1>1. u \in Seq(Octet)
  BY WrittenOctets DEF SerialiseTypes
<1>2. PICK k \in 0..Len(u) : held \o sent = Rest(u, k)
  BY DEF SerialiseTypes
<1>3. u = FlattenSeq([i \in DOMAIN written |-> Octets(written[i])])
  <2>1. DOMAIN written = 1..Len(written)
    BY LenProperties DEF SerialiseTypes
  <2>2. QED
    BY <2>1 DEF Upto
<1> HIDE DEF u
<1>4. IsSuffix(held \o sent, u)
  BY <1>1, <1>2, RestIsSuffix
<1>5. ASSUME NEW i \in DOMAIN lines PROVE lines[i].is \in {"line", "error"}
  <2>1. lines[i] \in Takings
    BY <1>5, ElementOfSeq DEF SerialiseTypes
  <2>2. QED
    BY <2>1 DEF Takings, Bad
<1>6. written \o calls \in Callers
  BY DEF SerialiseTypes
<1>7. QED
  BY <1>3, <1>4, <1>5, <1>6 DEF SerialiseTypeOK

\* Whatever the callers issue and however the server reads: what was written
\* are the first commands of one caller, in order, and the two buffers hold
\* the end of their octets, no octet of them lost, doubled or out of place.
THEOREM SerialiseTypeCorrect == SerialiseSpec => []SerialiseTypeOK
<1>1. SerialiseInit => SerialiseTypes
  BY InitSerialise
<1>2. SerialiseTypes /\ [SerialiseNext]_serialiseVars => SerialiseTypes'
  BY NextTypes
<1>3. SerialiseTypes => SerialiseTypeOK
  BY TypesAreTypeOK
<1>4. QED
  BY <1>1, <1>2, <1>3, PTL DEF SerialiseSpec

-----------------------------------------------------------------------------
(* What the server takes is what the caller gave.                          *)

\* A command written is one line, and means what its caller means.
LEMMA WrittenLine ==
  ASSUME RawsAreWhole(Callers), SerialiseTypes, NEW i \in 1..Len(written)
  PROVE  ScanLine(Octets(written[i])) = Taken(written[i])
<1> DEFINE caller == written \o calls
<1>1. caller \in Callers /\ written \in Seq(Issued) /\ calls \in Seq(Issued)
  BY DEF SerialiseTypes
<1>2. caller \in Seq(Issued) /\ Len(caller) = Len(written) + Len(calls)
      /\ Len(written) \in Nat /\ Len(calls) \in Nat /\ caller[i] = written[i]
  BY <1>1, Behind
<1> HIDE DEF caller
<1>3. DOMAIN caller = 1..Len(caller)
  BY <1>2, LenProperties
<1>4. i \in DOMAIN caller
  BY <1>2, <1>3
<1>5. ScanLine(Octets(caller[i])) = Taken(caller[i])
  BY <1>1, <1>4, IssuedLine
<1>6. QED
  BY <1>2, <1>5

\* What is in flight begins with the first command the server has not taken.
LEMMA FirstInFlight ==
  ASSUME SerialiseInv, Len(lines) # Len(written)
  PROVE  /\ Len(lines) + 1 \in 1..Len(written) /\ Octets(written[Len(lines) + 1]) \in Seq(Octet)
         /\ \E z \in Seq(Octet) :
              /\ held \o sent = Octets(written[Len(lines) + 1]) \o z
              /\ Upto(written, Len(written)) = Upto(written, Len(lines) + 1) \o z
<1> DEFINE n == Len(written)
           k == Len(lines)
           flying == held \o sent
           w == written
<1>1. n \in Nat /\ \A i \in 1..n : Octets(w[i]) \in Seq(Octet)
  BY WrittenOctets DEF SerialiseInv, SerialiseTypes
<1>2. k \in Nat /\ k <= n /\ k # n
  BY DEF SerialiseInv, SerialiseTypes
<1>3. flying \in Seq(Octet)
  BY ConcatProperties DEF SerialiseInv, SerialiseTypes
<1>4. Upto(w, n) = Upto(w, k) \o flying
  BY DEF SerialiseInv
<1> HIDE DEF n, k, w, flying
<1>5. k + 1 \in 1..n /\ k + 1 \in 0..n /\ \A i \in 1..(k + 1) : Octets(w[i]) \in Seq(Octet)
  BY <1>1, <1>2
<1> DEFINE c == Octets(w[k + 1])
           u == Upto(w, k)
<1>6. c \in Seq(Octet)
  BY <1>5
<1>7. u \in Seq(Octet) /\ Upto(w, k + 1) = u \o c
  BY <1>2, <1>5, UptoMore
<1>8. PICK z \in Seq(Octet) : Upto(w, n) = Upto(w, k + 1) \o z
  BY <1>1, <1>5, UptoBegins
<1> HIDE DEF c, u
<1> DEFINE y == c \o z
<1>9. (u \o c) \o z = u \o y
  BY <1>6, <1>7, OctetsAssociate
<1>10. y \in Seq(Octet)
  BY <1>6, ConcatProperties
<1> HIDE DEF y
<1>11. u \o y = u \o flying
  BY <1>4, <1>7, <1>8, <1>9 DEF u
<1>12. Rest(u \o y, Len(u)) = y
  BY <1>7, <1>10, RestIsSecond
<1>13. Rest(u \o flying, Len(u)) = flying
  BY <1>3, <1>7, RestIsSecond
<1>14. flying = c \o z
  BY <1>11, <1>12, <1>13 DEF y
<1>15. QED
  BY <1>5, <1>6, <1>8, <1>14 DEF c, n, k, w, flying

\* When the server took all that was written, nothing is in flight.
LEMMA NothingInFlight ==
  ASSUME SerialiseInv, Len(lines) = Len(written)
  PROVE  held \o sent = <<>> /\ held = <<>> /\ sent = <<>>
<1> DEFINE u == Upto(written, Len(written))
           flying == held \o sent
<1>1. u \in Seq(Octet)
  BY WrittenOctets DEF SerialiseInv, SerialiseTypes
<1>2. sent \in Seq(Octet) /\ held \in Seq(Octet)
  BY DEF SerialiseInv, SerialiseTypes
<1>3. Len(flying) = Len(held) + Len(sent) /\ Len(held) \in Nat /\ Len(sent) \in Nat
      /\ flying \in Seq(Octet)
  BY <1>2, Behind
<1>4. u = u \o flying
  BY DEF SerialiseInv
<1> HIDE DEF u, flying
<1>5. Len(u \o flying) = Len(u) + Len(flying) /\ Len(u) \in Nat /\ Len(flying) \in Nat
  BY <1>1, <1>3, Behind
<1>6. Len(flying) = 0
  BY <1>4, <1>5
<1>7. Len(held) = 0 /\ Len(sent) = 0
  <2> DEFINE h == Len(held)
             s == Len(sent)
  <2>1. h \in Nat /\ s \in Nat
    BY <1>3
  <2>2. h + s = 0
    BY <1>3, <1>6
  <2> HIDE DEF h, s
  <2>3. h = 0 /\ s = 0
    BY <2>1, <2>2
  <2>4. QED
    BY <2>3 DEF h, s
<1>8. QED
  BY <1>2, <1>3, <1>6, <1>7, EmptySeq DEF flying

LEMMA NothingScanned == ScanLine(<<>>) = Incomplete
<1> DEFINE b == <<>>
<1>1. b \in Seq(Octet) /\ Len(b) = 0
  BY EmptySeq
<1> HIDE DEF b
<1>2. ScanLine(b) \in ScanResults(b)
  BY <1>1, ScanLineType
<1>3. PICK f \in [ScanIndices(b) -> ScanResults(b)] :
         /\ \A i \in ScanIndices(b) : f[i] = ScanAt(b, i, f)
         /\ ScanLine(b) = f[1]
  BY <1>1, ScanLoop
<1>4. 1 \in ScanIndices(b) /\ Eols(b, 1) = {}
  BY <1>1 DEF ScanIndices, Eols
<1>5. ScanAt(b, 1, f) = Incomplete
  BY <1>4 DEF ScanAt
<1>6. QED
  BY <1>3, <1>4, <1>5 DEF b

\* However much of it the server has read, if it finds something then it is
\* the first command it has not taken.
LEMMA FoundAsWritten ==
  ASSUME RawsAreWhole(Callers), SerialiseInv, ScanLine(held) # Incomplete
  PROVE  Len(lines) # Len(written) /\ ScanLine(held) = Taken(written[Len(lines) + 1])
<1>1. Len(lines) # Len(written)
  BY NothingInFlight, NothingScanned
<1> DEFINE i == Len(lines) + 1
           c == Octets(written[i])
           flying == held \o sent
<1>2. i \in 1..Len(written) /\ c \in Seq(Octet) /\ \E z \in Seq(Octet) : flying = c \o z
  BY <1>1, FirstInFlight
<1>3. PICK z \in Seq(Octet) : flying = c \o z
  BY <1>2
<1>4. ScanLine(c) = Taken(written[i])
  BY <1>2, WrittenLine DEF SerialiseInv
<1>5. held \in Seq(Octet) /\ sent \in Seq(Octet)
  BY DEF SerialiseInv, SerialiseTypes
<1>6. Begins(held, flying) /\ flying \in Seq(Octet)
  BY <1>5, BeginsLonger, ConcatProperties
<1> HIDE DEF c, flying, i
<1>7. Begins(c, c \o z)
  BY <1>2, BeginsLonger
<1>8. ScanLine(flying) = ScanLine(held)
  BY <1>5, <1>6, ScanStable
<1>9. Taken(written[i]) # Incomplete
  BY DEF Taken, Incomplete
<1>10. ScanLine(flying) = ScanLine(c)
  BY <1>2, <1>3, <1>4, <1>6, <1>7, <1>9, ScanStable
<1>11. QED
  BY <1>1, <1>4, <1>8, <1>10 DEF i

\* What is written goes behind what is in flight, whole.
LEMMA WriteInv ==
  ASSUME SerialiseInv, Write
  PROVE  SerialiseInv'
<1> DEFINE c == Octets(Head(calls))
           flying == held \o sent
           n == Len(written)
           k == Len(lines)
<1>1. SerialiseTypes
  BY DEF SerialiseInv
<1>2. /\ Len(written') = n + 1 /\ \A i \in 1..n : written'[i] = written[i]
      /\ Upto(written', Len(written')) = Upto(written, n) \o c
      /\ held' \o sent' = flying \o c /\ c \in Seq(Octet)
  BY <1>1, WriteOctets
<1>3. lines' = lines
  BY DEF Write
<1>4. n \in Nat /\ k \in Nat /\ k <= n /\ DOMAIN lines = 1..k
  BY LenProperties DEF SerialiseInv, SerialiseTypes
<1>5. \A i \in DOMAIN lines' : lines'[i] = Taken(written'[i])
  <2>1. \A i \in DOMAIN lines : lines[i] = Taken(written[i])
    BY DEF SerialiseInv
  <2>2. ASSUME NEW i \in DOMAIN lines PROVE lines'[i] = Taken(written'[i])
    <3>1. i \in 1..n
      BY <1>4, <2>2
    <3>2. lines[i] = Taken(written[i]) /\ written'[i] = written[i] /\ lines'[i] = lines[i]
      BY <1>2, <1>3, <2>1, <2>2, <3>1
    <3>3. Taken(written'[i]) = Taken(written[i])
      BY <3>2
    <3>4. QED
      BY <3>2, <3>3
  <2>3. QED
    BY <1>3, <2>2
<1>6. Upto(written', k) = Upto(written, k)
  <2> DEFINE w == written'
  <2>1. \A i \in 1..k : w[i] = written[i]
    BY <1>2, <1>4
  <2> HIDE DEF w
  <2>2. QED
    BY <1>4, <2>1, UptoSame DEF w
<1>7. Upto(written, n) = Upto(written, k) \o flying
  BY DEF SerialiseInv
<1>8. flying \in Seq(Octet)
  BY <1>1, ConcatProperties DEF SerialiseTypes
<1>9. Upto(written, k) \in Seq(Octet)
  <2>1. \A i \in 1..n : Octets(written[i]) \in Seq(Octet)
    BY <1>1, WrittenOctets DEF SerialiseTypes
  <2>2. CASE k = n
    BY <1>1, <2>2, WrittenOctets DEF SerialiseTypes
  <2>3. CASE k # n
    <3>1. \A i \in 1..(k + 1) : Octets(written[i]) \in Seq(Octet)
      BY <1>4, <2>1, <2>3
    <3> HIDE DEF k
    <3>2. QED
      BY <1>4, <3>1, UptoMore
  <2>4. QED
    BY <2>2, <2>3
<1> DEFINE u == Upto(written, k)
<1> HIDE DEF c, flying, u
<1>10. (u \o flying) \o c = u \o (flying \o c)
  BY <1>2, <1>8, <1>9, OctetsAssociate DEF u
<1>11. Upto(written', Len(written')) = Upto(written', k) \o (held' \o sent')
  BY <1>2, <1>6, <1>7, <1>10 DEF u
<1>12. SerialiseTypes'
  BY <1>1, WriteTypes
<1>13. Len(lines') <= Len(written')
  BY <1>2, <1>3, <1>4
<1>14. QED
  BY <1>3, <1>5, <1>11, <1>12, <1>13 DEF SerialiseInv

\* What the server takes is the first command in flight, and it leaves the rest.
LEMMA TakesInv ==
  ASSUME RawsAreWhole(Callers), SerialiseInv, ServerTakes
  PROVE  SerialiseInv'
<1> DEFINE n == Len(written)
           k == Len(lines)
           c == Octets(written[k + 1])
           flying == held \o sent
           flying2 == held' \o sent'
<1>1. SerialiseTypes /\ SerialiseTypes'
  BY NextTypes DEF SerialiseInv, SerialiseNext
<1>2. /\ ScanLine(held) # Incomplete /\ lines' = Append(lines, ScanLine(held))
      /\ \E j \in 0..Len(flying) :
           /\ flying2 = Rest(flying, j)
           /\ ScanLine(held).is = "line" => j = ScanLine(held).consumed
  BY <1>1, TakeOctets
<1>3. k # n /\ ScanLine(held) = Taken(written[k + 1])
  BY <1>2, FoundAsWritten
<1>4. flying2 = Rest(flying, Len(c))
  BY <1>2, <1>3 DEF Taken
<1>5. written' = written
  BY DEF ServerTakes
<1>6. /\ k + 1 \in 1..n /\ c \in Seq(Octet)
      /\ \E z \in Seq(Octet) : flying = c \o z /\ Upto(written, n) = Upto(written, k + 1) \o z
  BY <1>3, FirstInFlight
<1>7. PICK z \in Seq(Octet) : flying = c \o z /\ Upto(written, n) = Upto(written, k + 1) \o z
  BY <1>6
<1>8. flying2 = z
  <2> HIDE DEF c, flying, flying2
  <2>1. Rest(c \o z, Len(c)) = z
    BY <1>6, RestIsSecond
  <2>2. QED
    BY <1>4, <1>7, <2>1
<1>9. /\ k \in Nat /\ Len(lines') = k + 1 /\ lines'[k + 1] = ScanLine(held)
      /\ \A i \in 1..k : lines'[i] = lines[i]
  <2> DEFINE r == ScanLine(held)
  <2>1. r \in Takings
    <3>1. lines' \in Seq(Takings)
      BY <1>1, TakeOctets
    <3>2. r \in ScanResults(held)
      BY <1>1, ScanLineType DEF SerialiseTypes
    <3> DEFINE found == [is |-> "line", tokens |-> Meaning(written[k + 1]), consumed |-> Len(c)]
    <3>3. r = found
      BY <1>3 DEF Taken
    <3> HIDE DEF r, found
    <3>4. found.is = "line"
      BY DEF found
    <3>5. r \in ScannedLines(held)
      BY <3>2, <3>3, <3>4, ScanKinds
    <3>6. 1..Len(held) \subseteq Nat
      <4>1. held \in Seq(Octet)
        BY <1>1, Zenon DEF SerialiseTypes
      <4>2. Len(held) \in Nat
        BY <4>1
      <4>3. QED
        BY <4>2
    <3>7. \A q \in ScannedLines(held) : q \in Takings
      <4> SUFFICES ASSUME NEW q \in ScannedLines(held)
                   PROVE  q \in [is : {"line"}, tokens : Seq(Token), consumed : Nat]
        BY DEF Takings
      <4>1. QED
        BY <3>6 DEF ScannedLines
    <3>8. QED
      BY <3>5, <3>7
  <2>2. lines \in Seq(Takings) /\ lines' = Append(lines, r)
    BY <1>1, <1>2 DEF SerialiseTypes
  <2> HIDE DEF r
  <2>3. QED
    BY <2>1, <2>2, AppendProperties DEF r
<1>10. DOMAIN lines' = 1..(k + 1) /\ DOMAIN lines = 1..k
  <2>1. lines \in Seq(Takings) /\ lines' \in Seq(Takings)
    BY <1>1, TakeOctets DEF SerialiseTypes
  <2>2. QED
    BY <1>9, <2>1, LenProperties
<1>11. ASSUME NEW i \in DOMAIN lines' PROVE lines'[i] = Taken(written[i])
  <2>1. CASE i = k + 1
    BY <1>3, <1>9, <2>1
  <2>2. CASE i # k + 1
    <3>1. i \in 1..k
      BY <1>9, <1>10, <2>2
    <3>2. QED
      BY <1>9, <1>10, <3>1 DEF SerialiseInv
  <2>3. QED
    BY <2>1, <2>2
<1>12. Len(lines') <= n
  BY <1>6, <1>9
<1>13. Upto(written, n) = Upto(written, Len(lines')) \o flying2
  BY <1>7, <1>8, <1>9
<1>14. QED
  BY <1>1, <1>5, <1>11, <1>12, <1>13 DEF SerialiseInv

LEMMA NextInv ==
  ASSUME RawsAreWhole(Callers), SerialiseInv, [SerialiseNext]_serialiseVars
  PROVE  SerialiseInv'
<1>1. CASE Write
  BY <1>1, WriteInv
<1>2. CASE ServerReads
  <2>1. SerialiseTypes /\ SerialiseTypes'
    BY NextTypes DEF SerialiseInv
  <2>2. held' \o sent' = held \o sent
    BY <1>2, <2>1, ReadOctets
  <2>3. lines' = lines /\ written' = written
    BY <1>2 DEF ServerReads
  <2>4. QED
    BY <2>1, <2>2, <2>3 DEF SerialiseInv
<1>3. CASE ServerTakes
  BY <1>3, TakesInv
<1>4. CASE AllServed \/ UNCHANGED serialiseVars
  <2>1. UNCHANGED serialiseVars
    BY <1>4 DEF AllServed
  <2>2. QED
    BY <2>1 DEF SerialiseInv, SerialiseTypes, serialiseVars
<1>5. QED
  BY <1>1, <1>2, <1>3, <1>4 DEF SerialiseNext

LEMMA InvIsUnderstood ==
  ASSUME RawsAreWhole(Callers), SerialiseInv
  PROVE  UnderstoodAsMeant
<1>1. Len(lines) <= Len(written)
  BY DEF SerialiseInv
<1>2. \A i \in DOMAIN lines : lines[i].is = "line" /\ lines[i].tokens = Meaning(written[i])
  BY DEF SerialiseInv, Taken
<1>3. ASSUME sent = <<>>, ScanLine(held).is = "incomplete"
      PROVE  held = <<>> /\ Len(lines) = Len(written)
  <2>1. CASE Len(lines) = Len(written)
    BY <2>1, NothingInFlight
  <2>2. CASE Len(lines) # Len(written)
    <3> DEFINE i == Len(lines) + 1
               c == Octets(written[i])
    <3>1. i \in 1..Len(written) /\ c \in Seq(Octet) /\ \E z \in Seq(Octet) : held \o sent = c \o z
      BY <2>2, FirstInFlight
    <3>2. held \o <<>> = held /\ held \in Seq(Octet)
      BY ConcatEmptySeq DEF SerialiseInv, SerialiseTypes
    <3>3. PICK z \in Seq(Octet) : held = c \o z
      BY <1>3, <3>1, <3>2
    <3>4. ScanLine(c) = Taken(written[i])
      BY <3>1, WrittenLine DEF SerialiseInv
    <3> HIDE DEF c, i
    <3>5. Begins(c, c \o z)
      BY <3>1, BeginsLonger
    <3>6. Taken(written[i]) # Incomplete /\ Taken(written[i]).is = "line"
      BY DEF Taken, Incomplete
    <3>7. ScanLine(held) = ScanLine(c)
      BY <3>1, <3>2, <3>3, <3>4, <3>5, <3>6, ScanStable
    <3>8. QED
      BY <1>3, <3>4, <3>6, <3>7
  <2>3. QED
    BY <2>1, <2>2
<1>4. ASSUME NEW i \in DOMAIN written, NEW string \in {String(written[i].name), String(written[i].to)},
             string[1] = Quote
      PROVE  Len(string) <= MaxQuoted + 2
  <2>1. written[i] \in Issued
    BY ElementOfSeq DEF SerialiseInv, SerialiseTypes
  <2>2. written[i].name \in Seq(Octet) /\ written[i].to \in Seq(Octet)
    BY <2>1, SerialiseAssumption
  <2>3. QED
    BY <1>4, <2>2, QuotedFits
<1>5. QED
  BY <1>1, <1>2, <1>3, <1>4 DEF UnderstoodAsMeant

\* For every argument, every sequence of calls and every way the server's
\* reads cut the octets: each command is one line, its tokens are what its
\* caller meant, and when all is read nothing is left over or missing.
THEOREM Understood == RawsAreWhole(Callers) => (SerialiseSpec => []UnderstoodAsMeant)
<1> SUFFICES ASSUME RawsAreWhole(Callers) PROVE SerialiseSpec => []UnderstoodAsMeant
  OBVIOUS
<1>1. SerialiseInit => SerialiseInv
  BY InitSerialise
<1>2. SerialiseInv /\ [SerialiseNext]_serialiseVars => SerialiseInv'
  BY NextInv
<1>3. SerialiseInv => UnderstoodAsMeant
  BY InvIsUnderstood
<1>4. QED
  BY <1>1, <1>2, <1>3, PTL DEF SerialiseSpec
=============================================================================
