--------------------------- MODULE CommandsProofs ---------------------------
(***************************************************************************)
(* The commands of an open session, for every set of scripts, calls and    *)
(* bounds: their types, what a NOOP's tag proves, and that client and      *)
(* server implement ScriptStore.                                           *)
(***************************************************************************)
EXTENDS Commands, WireProofs, FiniteSetTheorems

-----------------------------------------------------------------------------
(* What is on the wire.                                                    *)

Words == Names \cup Bodies \cup Codes
Said == [kind : Statuses \cup {"data"}, val : Words, active : BOOLEAN, on : Nat, cut : Cuts]
Piece == [of : Said, last : BOOLEAN]

Answered == [status : Statuses, code : Codes, lines : SUBSET Entry]

\* A sequence made of all the elements of a set.
LEMMA OrderType ==
  ASSUME NEW S, IsFiniteSet(S), NEW e \in SetToSeqs(S)
  PROVE  e \in Seq(S) /\ S = {e[i] : i \in 1..Len(e)}
<1> DEFINE n == Cardinality(S)
<1>1. n \in Nat /\ IsFiniteSet(1..n) /\ Cardinality(1..n) = n
  <2>1. n \in Nat
    BY FS_CardinalityType
  <2>2. IsFiniteSet(1..n) /\ Cardinality(1..n) = IF 1 > n THEN 0 ELSE n - 1 + 1
    BY <2>1, FS_Interval
  <2>3. QED
    BY <2>1, <2>2
<1>2. e \in [1..n -> S] /\ \A i, j \in 1..n : i # j => e[i] # e[j]
  BY DEF SetToSeqs
<1>3. e \in Seq(S) /\ Len(e) = n
  BY <1>1, <1>2
<1>4. e \in Injection(1..n, S)
  BY <1>2 DEF Injection, IsInjective
<1>5. e \in Surjection(1..n, S)
  BY <1>1, <1>4, FS_Injection
<1>6. \A x \in S : \E i \in 1..n : e[i] = x
  BY <1>5 DEF Surjection
<1>7. QED
  BY <1>2, <1>3, <1>6

LEMMA LineOfType ==
  ASSUME NEW n \in Nat, NEW kind \in Statuses \cup {"data"}, NEW entry \in Entry, NEW cut \in Cuts
  PROVE  LineOf(n, kind, entry, cut) \in Said
BY DEF LineOf, Said, Entry, Words, Codes, FixedCodes

LEMMA PlainType ==
  ASSUME NEW v \in Words
  PROVE  Plain(v) \in Entry
BY DEF Plain, Entry, Words

\* What the lines of an answer are broken into.
Pieces(e) == [1..(Len(e) + 1) -> Cuts]

\* The lines of an answer, its completion the last.
LEMMA LinesOfType ==
  ASSUME NEW n \in Nat, NEW reply \in Answered, NEW e \in Seq(reply.lines), NEW cuts \in Pieces(e)
  PROVE  /\ LinesOf(n, e, reply, cuts) \in Seq(Said)
         /\ Len(LinesOf(n, e, reply, cuts)) = Len(e) + 1 /\ Len(e) \in Nat
         /\ \A i \in 1..Len(e) :
              e[i] \in Entry /\ LinesOf(n, e, reply, cuts)[i] = LineOf(n, "data", e[i], cuts[i])
         /\ LinesOf(n, e, reply, cuts)[Len(e) + 1]
              = LineOf(n, reply.status, Plain(reply.code), cuts[Len(e) + 1])
<1>1. /\ Len(e) \in Nat /\ \A i \in 1..Len(e) : e[i] \in Entry
      /\ \A i \in 1..(Len(e) + 1) : cuts[i] \in Cuts
  BY LenProperties, ElementOfSeq DEF Answered, Pieces
<1>2. reply.status \in Statuses /\ Plain(reply.code) \in Entry
  BY PlainType DEF Answered, Words
<1>3. \A i \in 1..(Len(e) + 1) : LineOf(n, reply.status, Plain(reply.code), cuts[i]) \in Said
  BY <1>1, <1>2, LineOfType
<1>0. ASSUME NEW i \in 1..Len(e) PROVE LineOf(n, "data", e[i], cuts[i]) \in Said
  <2>1. e[i] \in Entry /\ i \in 1..(Len(e) + 1)
    BY <1>1
  <2>2. cuts[i] \in Cuts
    BY <1>1, <2>1
  <2>3. QED
    BY <2>1, <2>2, LineOfType
<1> DEFINE at(i) == IF i <= Len(e) THEN LineOf(n, "data", e[i], cuts[i])
                    ELSE LineOf(n, reply.status, Plain(reply.code), cuts[i])
           lines == [i \in 1..(Len(e) + 1) |-> at(i)]
<1>4. \A i \in 1..(Len(e) + 1) : at(i) \in Said
  BY <1>0, <1>1, <1>3
<1>5. lines \in Seq(Said) /\ Len(lines) = Len(e) + 1
  <2> HIDE DEF at
  <2>1. lines \in [1..(Len(e) + 1) -> Said] /\ Len(e) + 1 \in Nat
    BY <1>1, <1>4
  <2>2. QED
    BY <2>1
<1>6. /\ \A i \in 1..Len(e) : lines[i] = LineOf(n, "data", e[i], cuts[i])
      /\ lines[Len(e) + 1] = LineOf(n, reply.status, Plain(reply.code), cuts[Len(e) + 1])
  BY <1>1
<1>7. lines = LinesOf(n, e, reply, cuts)
  BY DEF LinesOf
<1>8. QED
  BY <1>1, <1>5, <1>6, <1>7

\* The units of lines: the second of each is its last.
LEMMA FramesType ==
  ASSUME NEW lines \in Seq(Said)
  PROVE  /\ Frames(lines) \in Seq(Piece)
         /\ Len(Frames(lines)) = 2 * Len(lines) /\ Len(lines) \in Nat
         /\ \A k \in 1..Len(lines) :
              /\ Frames(lines)[2 * k] = [of |-> lines[k], last |-> TRUE]
              /\ Frames(lines)[2 * k - 1] = [of |-> lines[k], last |-> FALSE]
<1> DEFINE len == Len(lines)
           at(i) == Frame(lines[(i + 1) \div 2])[IF i % 2 = 1 THEN 1 ELSE 2]
<1>1. len \in Nat /\ \A k \in 1..len : lines[k] \in Said
  BY LenProperties, ElementOfSeq
<1> HIDE DEF len
<1>2. ASSUME NEW k \in 1..len
      PROVE  /\ at(2 * k) = [of |-> lines[k], last |-> TRUE]
             /\ at(2 * k - 1) = [of |-> lines[k], last |-> FALSE]
  <2>1. (2 * k + 1) \div 2 = k /\ (2 * k) % 2 = 0
    BY <1>1
  <2>2. (2 * k - 1 + 1) \div 2 = k /\ (2 * k - 1) % 2 = 1
    BY <1>1
  <2>3. at(2 * k) = Frame(lines[k])[2] /\ at(2 * k - 1) = Frame(lines[k])[1]
    BY <2>1, <2>2
  <2>4. /\ Frame(lines[k])[1] = [of |-> lines[k], last |-> FALSE]
        /\ Frame(lines[k])[2] = [of |-> lines[k], last |-> TRUE]
    BY DEF Frame
  <2> HIDE DEF at
  <2>5. QED
    BY <2>3, <2>4
<1>3. \A i \in 1..(2 * len) : \E k \in 1..len : i = 2 * k \/ i = 2 * k - 1
  <2>1. SUFFICES ASSUME NEW i \in 1..(2 * len) PROVE \E k \in 1..len : i = 2 * k \/ i = 2 * k - 1
    OBVIOUS
  <2>2. (i + 1) \div 2 \in 1..len /\ (i = 2 * ((i + 1) \div 2) \/ i = 2 * ((i + 1) \div 2) - 1)
    BY <1>1
  <2>3. QED
    BY <2>2
<1>5. Frames(lines) = [i \in 1..(2 * len) |-> at(i)]
  BY DEF Frames, len
<1> HIDE DEF at
<1>4. \A i \in 1..(2 * len) : at(i) \in Piece
  <2>1. \A k \in 1..len : at(2 * k) \in Piece /\ at(2 * k - 1) \in Piece
    <3>1. \A line \in Said : /\ [of |-> line, last |-> TRUE] \in Piece
                             /\ [of |-> line, last |-> FALSE] \in Piece
      BY DEF Piece
    <3>2. QED
      BY <1>1, <1>2, <3>1
  <2>2. TAKE i \in 1..(2 * len)
  <2>3. PICK k \in 1..len : i = 2 * k \/ i = 2 * k - 1
    BY <1>3
  <2>4. QED
    BY <2>1, <2>3
<1>6. Frames(lines) \in Seq(Piece) /\ Len(Frames(lines)) = 2 * len
  <2>1. Frames(lines) \in [1..(2 * len) -> Piece] /\ 2 * len \in Nat
    BY <1>1, <1>4, <1>5
  <2>2. QED
    BY <2>1
<1>7. \A k \in 1..len : 2 * k \in 1..(2 * len) /\ 2 * k - 1 \in 1..(2 * len)
  BY <1>1
<1>8. QED
  BY <1>1, <1>2, <1>5, <1>6, <1>7 DEF len

\* The data lines of the first response, and of an answer.
DataOf(b) == {LineAt(b, i) : i \in {j \in Ends(b) : j < FirstOf(Stops(b))}}
DataSaid(n, e, cuts) == {LineOf(n, "data", e[i], cuts[i]) : i \in 1..Len(e)}

\* Of the units of an answer, with something behind them, b was read: either
\* the completion is still to come, or the answer is there as it was sent and
\* what is behind it is left.
LEMMA AnswerRead ==
  ASSUME NEW n \in Nat, NEW reply \in Answered, NEW e \in Seq(reply.lines), NEW cuts \in Pieces(e),
         NEW b \in Seq(Piece), NEW m \in Seq(Piece), NEW z \in Seq(Piece),
         Then(b, m) = Then(Framed(n, e, reply, cuts), z)
  PROVE  \/ ~HasResponse(b)
         \/ /\ HasResponse(b)
            /\ Completion(b) = LineOf(n, reply.status, Plain(reply.code), cuts[Len(e) + 1])
            /\ DataOf(b) = DataSaid(n, e, cuts)
            /\ Trailing(b) \in Seq(Piece) /\ Then(Trailing(b), m) = z
<1> DEFINE lines == LinesOf(n, e, reply, cuts)
           f == Frames(lines)
           len == Len(e) + 1
<1>1. /\ lines \in Seq(Said) /\ Len(lines) = len /\ len \in Nat \ {0}
      /\ \A k \in 1..Len(e) : lines[k] = LineOf(n, "data", e[k], cuts[k])
      /\ lines[len] = LineOf(n, reply.status, Plain(reply.code), cuts[len])
  BY LinesOfType
<1> HIDE DEF lines
<1>2. \A k \in 1..len : lines[k].kind # "data" <=> k = len
  <2>1. \A k \in 1..len : k # len => k \in 1..Len(e)
    BY LinesOfType
  <2>2. lines[len].kind # "data"
    BY <1>1 DEF LineOf, Answered, Statuses
  <2>3. \A k \in 1..Len(e) : lines[k].kind = "data"
    <3>1. \A k \in 1..Len(e) : LineOf(n, "data", e[k], cuts[k]).kind = "data"
      BY DEF LineOf
    <3>2. QED
      BY <1>1, <3>1
  <2>4. QED
    BY <2>1, <2>2, <2>3
<1> HIDE DEF len
<1>3. /\ f \in Seq(Piece) /\ Len(f) = 2 * len
      /\ \A k \in 1..len : /\ f[2 * k] = [of |-> lines[k], last |-> TRUE]
                          /\ f[2 * k - 1] = [of |-> lines[k], last |-> FALSE]
  BY <1>1, FramesType
<1> HIDE DEF f
<1>4. Then(b, m) = Then(f, z)
  BY DEF Framed, f, lines
<1>5. /\ Len(b) \in Nat /\ DOMAIN b = 1..Len(b) /\ Len(z) \in Nat
      /\ \A i \in 1..Len(b) : i <= 2 * len => b[i] = f[i]
  <2> DEFINE s == Then(f, z)
  <2>1. /\ s \in Seq(Piece) /\ Len(z) \in Nat /\ Len(f) \in Nat
        /\ \A i \in 1..(Len(f) + Len(z)) : i <= Len(f) => s[i] = f[i]
    BY <1>3, ConcatProperties, LenProperties DEF Then
  <2>2. Len(s) = Len(f) + Len(z)
    BY <1>3, ConcatProperties DEF Then
  <2> HIDE DEF s
  <2>3. b \o m = s
    BY <1>4 DEF s, Then
  <2>4. /\ Len(b) \in Nat /\ Len(m) \in Nat /\ Len(s) = Len(b) + Len(m) /\ DOMAIN b = 1..Len(b)
        /\ \A i \in 1..Len(b) : b[i] = s[i]
    BY <2>1, <2>3, PrefixElements
  <2>5. \A i \in 1..Len(b) : i \in 1..(Len(f) + Len(z))
    BY <2>1, <2>2, <2>4
  <2>6. QED
    BY <1>3, <2>1, <2>4, <2>5
<1>6. \A i \in 1..(2 * len) : \E k \in 1..len : i = 2 * k \/ i = 2 * k - 1
  <2>1. SUFFICES ASSUME NEW i \in 1..(2 * len) PROVE \E k \in 1..len : i = 2 * k \/ i = 2 * k - 1
    OBVIOUS
  <2>2. (i + 1) \div 2 \in 1..len /\ (i = 2 * ((i + 1) \div 2) \/ i = 2 * ((i + 1) \div 2) - 1)
    BY <1>1
  <2>3. QED
    BY <2>2
<1>12. ASSUME NEW k \in 1..len, 2 * k <= Len(b)
       PROVE  Fragments(b, 2 * k) = {} /\ b[2 * k] = [of |-> lines[k], last |-> TRUE]
  <2>1. 2 * k \in 1..Len(b) /\ 2 * k - 1 \in 1..Len(b) /\ 2 * k <= 2 * len /\ 2 * k - 1 <= 2 * len
        /\ 2 * k # 1
    BY <1>1, <1>5, <1>12
  <2>2. b[2 * k] = [of |-> lines[k], last |-> TRUE] /\ b[2 * k - 1] = [of |-> lines[k], last |-> FALSE]
    BY <1>3, <1>5, <2>1
  <2>3. ~IsOrphan(b, 2 * k)
    BY <2>1, <2>2 DEF IsOrphan
  <2>4. ASSUME NEW j \in 1..(2 * k - 2), \A h \in j..(2 * k - 1) : ~b[h].last PROVE FALSE
    <3>1. k - 1 \in 1..len /\ 2 * k - 2 \in 1..Len(b) /\ 2 * k - 2 <= 2 * len
          /\ 2 * (k - 1) = 2 * k - 2 /\ 2 * k - 2 \in j..(2 * k - 1)
      BY <1>1, <1>5, <1>12, <2>4
    <3>2. b[2 * k - 2] = [of |-> lines[k - 1], last |-> TRUE]
      BY <1>3, <1>5, <3>1
    <3>3. QED
      BY <2>4, <3>1, <3>2
  <2>5. QED
    BY <2>2, <2>3, <2>4 DEF Fragments
<1>13. ASSUME NEW i \in 1..Len(b), i <= 2 * len, b[i].last PROVE \E k \in 1..len : i = 2 * k
  <2>3. i \in 1..(2 * len)
    BY <1>1, <1>13
  <2>4. PICK k \in 1..len : i = 2 * k \/ i = 2 * k - 1
    BY <1>6, <2>3
  <2>5. ASSUME i = 2 * k - 1 PROVE FALSE
    <3>1. f[i] = [of |-> lines[k], last |-> FALSE] /\ b[i] = f[i]
      BY <1>3, <1>5, <1>13, <2>5
    <3>2. QED
      BY <1>13, <3>1
  <2>6. QED
    BY <2>4, <2>5
<1>7. ASSUME NEW k \in 1..len, 2 * k <= Len(b)
      PROVE  /\ 2 * k \in Ends(b)
             /\ LineAt(b, 2 * k) = lines[k]
             /\ LineAt(b, 2 * k).kind # "data" <=> k = len
  <2>1. ASSUME NEW j \in 1..(2 * k), b[j].last PROVE ~Opens(b, j)
    <3>1. j \in 1..Len(b) /\ j <= 2 * len
      BY <1>1, <1>5, <1>7
    <3>2. PICK h \in 1..len : j = 2 * h
      BY <1>13, <2>1, <3>1
    <3>3. Fragments(b, j) = {}
      <4>1. 2 * h <= Len(b)
        BY <1>5, <3>1, <3>2
      <4>2. Fragments(b, 2 * h) = {}
        BY <1>12, <4>1
      <4>3. QED
        BY <3>2, <4>2
    <3>4. QED
      BY <3>3 DEF Opens
  <2>2. 2 * k \in Ends(b)
    <3>1. 2 * k \in DOMAIN b /\ b[2 * k].last
      <4>1. b[2 * k] = [of |-> lines[k], last |-> TRUE]
        BY <1>7, <1>12
      <4>2. 2 * k \in 1..Len(b)
        BY <1>1, <1>5, <1>7
      <4>3. QED
        BY <1>5, <4>1, <4>2
    <3>2. QED
      BY <2>1, <3>1 DEF Ends
  <2>3. LineAt(b, 2 * k) = lines[k]
    <3>1. Fragments(b, 2 * k) = {} /\ b[2 * k] = [of |-> lines[k], last |-> TRUE]
      BY <1>7, <1>12
    <3>2. b[2 * k].of = lines[k]
      BY <3>1
    <3>3. QED
      BY <3>1, <3>2 DEF LineAt
  <2>4. QED
    BY <1>2, <2>2, <2>3
<1>8. \A i \in Ends(b) : i <= 2 * len => \E k \in 1..len : i = 2 * k
  <2>1. \A i \in Ends(b) : i \in 1..Len(b) /\ b[i].last
    BY <1>5 DEF Ends
  <2>2. QED
    BY <1>13, <2>1
<1>9. CASE Len(b) < 2 * len
  <2>1. ASSUME NEW i \in Stops(b) PROVE FALSE
    <3>1. i \in Ends(b) /\ i \in 1..Len(b) /\ LineAt(b, i).kind # "data" /\ i <= 2 * len
      BY <1>1, <1>5, <1>9 DEF Stops, Ends
    <3>2. PICK k \in 1..len : i = 2 * k
      BY <1>8, <3>1
    <3>3. k # len /\ 2 * k <= Len(b)
      BY <1>1, <1>5, <1>9, <3>1, <3>2
    <3>4. QED
      BY <1>7, <3>1, <3>2, <3>3
  <2>2. QED
    BY <2>1 DEF HasResponse
<1>10. CASE ~(Len(b) < 2 * len)
  <2>1. len \in 1..len /\ 2 * len <= Len(b) /\ \A k \in 1..len : 2 * k <= Len(b)
    BY <1>1, <1>5, <1>10
  <2>2. 2 * len \in Stops(b) /\ Stops(b) \in SUBSET Nat
    <3>1. 2 * len \in Stops(b)
      BY <1>7, <2>1 DEF Stops
    <3>2. QED
      BY <1>5, <3>1 DEF Stops, Ends
  <2>3. \A i \in Stops(b) : 2 * len <= i
    <3>1. SUFFICES ASSUME NEW i \in Stops(b), ~(2 * len <= i) PROVE FALSE
      OBVIOUS
    <3>2. i \in Ends(b) /\ LineAt(b, i).kind # "data" /\ i \in Nat /\ i <= 2 * len /\ i # 2 * len
      BY <1>1, <2>2, <3>1 DEF Stops
    <3>3. PICK k \in 1..len : i = 2 * k
      BY <1>8, <3>2
    <3>4. k # len
      BY <3>2, <3>3
    <3>5. QED
      BY <1>7, <2>1, <3>2, <3>3, <3>4
  <2>4. FirstOf(Stops(b)) = 2 * len
    BY <2>2, <2>3, FirstOfKnown
  <2>5. Completion(b) = LineOf(n, reply.status, Plain(reply.code), cuts[Len(e) + 1])
    <3>1. Completion(b) = lines[len]
      BY <1>7, <2>1, <2>4 DEF Completion
    <3>2. QED
      BY <1>1, <3>1 DEF len
  <2>6. {LineAt(b, i) : i \in {j \in Ends(b) : j < FirstOf(Stops(b))}}
          = {LineOf(n, "data", e[i], cuts[i]) : i \in 1..Len(e)}
    <3>1. {j \in Ends(b) : j < 2 * len} = {2 * k : k \in 1..Len(e)}
      <4>1. Len(e) \in Nat /\ len = Len(e) + 1
        BY LinesOfType DEF len
      <4>2. ASSUME NEW k \in 1..Len(e) PROVE 2 * k \in Ends(b) /\ 2 * k < 2 * len
        BY <1>7, <2>1, <4>1, <4>2
      <4>3. ASSUME NEW j \in Ends(b), j < 2 * len PROVE \E k \in 1..Len(e) : j = 2 * k
        <5>1. j \in Nat /\ j <= 2 * len
          BY <1>1, <1>5, <4>3 DEF Ends
        <5>2. PICK k \in 1..len : j = 2 * k
          BY <1>8, <5>1
        <5>3. k \in 1..Len(e)
          BY <4>1, <4>3, <5>2
        <5>4. QED
          BY <5>2, <5>3
      <4>4. QED
        BY <4>2, <4>3
    <3>2. \A k \in 1..Len(e) : LineAt(b, 2 * k) = LineOf(n, "data", e[k], cuts[k])
      <4>1. \A k \in 1..Len(e) : k \in 1..len
        BY LinesOfType DEF len
      <4>2. QED
        BY <1>1, <1>7, <2>1, <4>1
    <3>3. {LineAt(b, i) : i \in {2 * k : k \in 1..Len(e)}} = {LineAt(b, 2 * k) : k \in 1..Len(e)}
      OBVIOUS
    <3>4. {LineAt(b, 2 * k) : k \in 1..Len(e)} = {LineOf(n, "data", e[k], cuts[k]) : k \in 1..Len(e)}
      BY <3>2
    <3>5. QED
      BY <2>4, <3>1, <3>3, <3>4
  <2>7. Trailing(b) \in Seq(Piece) /\ Then(Trailing(b), m) = z
    <3>1. Len(f) <= Len(b) /\ Len(f) = 2 * len
      BY <1>3, <2>1
    <3>2. SubSeq(b, Len(f) + 1, Len(b)) \in Seq(Piece) /\ Then(SubSeq(b, Len(f) + 1, Len(b)), m) = z
      BY <1>3, <1>4, <3>1, PrefixTaken
    <3>3. QED
      BY <2>4, <3>1, <3>2 DEF Trailing
  <2>8. HasResponse(b)
    BY <2>2 DEF HasResponse
  <2>9. QED
    BY <2>5, <2>6, <2>7, <2>8 DEF DataOf, DataSaid
<1>11. QED
  BY <1>9, <1>10

\* What a line is read as: itself, or what one that was broken reads as.
LEMMA LineAtSaid ==
  ASSUME NEW b \in Seq(Piece), NEW i \in Ends(b)
  PROVE  /\ LineAt(b, i).kind \in Kinds
         /\ LineAt(b, i) = b[i].of \/ LineAt(b, i).val \in {c.val : c \in Cuts}
<1>1. i \in DOMAIN b /\ b[i].last /\ ~Opens(b, i)
  <2>1. i \in DOMAIN b /\ b[i].last /\ \A j \in 1..i : b[j].last => ~Opens(b, j)
    BY DEF Ends
  <2>2. i \in 1..i
    BY <2>1, LenProperties
  <2>3. QED
    BY <2>1, <2>2
<1>2. \A j \in DOMAIN b : b[j].of \in Said
  <2>1. \A j \in DOMAIN b : b[j] \in Piece
    BY ElementOfSeq, LenProperties
  <2>2. QED
    BY <2>1 DEF Piece
<1>3. CASE Fragments(b, i) = {}
  <2>1. LineAt(b, i) = b[i].of /\ b[i].of \in Said
    BY <1>1, <1>2, <1>3 DEF LineAt
  <2>2. QED
    BY <2>1 DEF Said, Kinds
<1>4. CASE Fragments(b, i) # {}
  <2> DEFINE j == FirstOf(Fragments(b, i))
             cut == b[j].of.cut
  <2>1. j \in Fragments(b, i) /\ j \in DOMAIN b
    BY <1>1, <1>4, FragmentsInDomain, FirstOfIsLeast
  <2>2. cut \in Cuts /\ cut.kind # "open"
    BY <1>1, <1>2, <2>1 DEF Said, Opens
  <2>3. LineAt(b, i) = [b[i].of EXCEPT !.kind = cut.kind, !.val = cut.val]
    BY <1>4 DEF LineAt
  <2>4. b[i].of \in Said
    BY <1>1, <1>2
  <2> HIDE DEF j, cut
  <2>5. LineAt(b, i).kind = cut.kind /\ LineAt(b, i).val = cut.val
    BY <2>3, <2>4 DEF Said
  <2>6. QED
    BY <2>2, <2>5, CutsAssumption
<1>5. QED
  BY <1>3, <1>4

\* What a server says when it gives up, or what is left of it: a BYE without a
\* code, the text of which is a string on one line.
Byes == {u \in Piece : u.of.kind = "bye" /\ u.of.val = "none" /\ u.of.cut \in Texts}
Farewells == {z \in Seq(Byes) : \A i \in DOMAIN z : z[i].last => i = Len(z)}

LEMMA FarewellsArePieces ==
  ASSUME NEW z \in Farewells
  PROVE  z \in Seq(Piece)
BY SeqMonotonic DEF Byes, Farewells

LEMMA NoFarewell == <<>> \in Farewells
BY EmptySeq DEF Farewells

\* On either side of a cut there is a part of a farewell.
LEMMA FarewellParts ==
  ASSUME NEW b \in Seq(Piece), NEW m \in Seq(Piece), Then(b, m) \in Farewells
  PROVE  b \in Farewells /\ m \in Farewells
<1> DEFINE s == Then(b, m)
<1>1. b \in Seq(Byes) /\ m \in Seq(Byes)
  BY ThenParts DEF Farewells
<1>2. /\ Len(b) \in Nat /\ Len(m) \in Nat /\ Len(s) = Len(b) + Len(m)
      /\ DOMAIN b = 1..Len(b) /\ DOMAIN m = 1..Len(m)
      /\ \A i \in 1..(Len(b) + Len(m)) : s[i] = IF i <= Len(b) THEN b[i] ELSE m[i - Len(b)]
  BY LenProperties, ConcatProperties DEF Then
<1>3. \A i \in 1..Len(s) : s[i].last => i = Len(s)
  <2>1. s \in Farewells
    OBVIOUS
  <2> HIDE DEF s
  <2>2. QED
    BY <2>1, LenProperties DEF Farewells
<1> HIDE DEF s
<1>4. ASSUME NEW i \in 1..Len(b), b[i].last PROVE i = Len(b)
  <2>1. i \in 1..Len(s) /\ s[i] = b[i]
    BY <1>2
  <2>2. s[i].last
    BY <1>4, <2>1
  <2>3. i = Len(s)
    BY <1>3, <2>1, <2>2
  <2> HIDE <1>4
  <2>4. Len(b) \in Nat /\ Len(m) \in Nat /\ Len(s) = Len(b) + Len(m) /\ i \in 1..Len(b)
    BY <1>2
  <2>5. QED
    BY <2>3, <2>4
<1>5. ASSUME NEW i \in 1..Len(m), m[i].last PROVE i = Len(m)
  <2>1. Len(b) + i \in 1..Len(s) /\ ~(Len(b) + i <= Len(b)) /\ Len(b) + i - Len(b) = i
    BY <1>2
  <2>2. s[Len(b) + i] = m[i]
    <3>1. s[Len(b) + i] = m[Len(b) + i - Len(b)]
      BY <1>2, <2>1
    <3>2. QED
      BY <2>1, <3>1
  <2>3. s[Len(b) + i].last
    BY <1>5, <2>2
  <2>4. Len(b) + i = Len(s)
    BY <1>3, <2>1, <2>3
  <2>5. Len(b) \in Nat /\ Len(m) \in Nat /\ Len(s) = Len(b) + Len(m) /\ i \in 1..Len(m)
    BY <1>2
  <2>6. QED
    BY <2>4, <2>5
<1>6. QED
  <2>1. \A i \in DOMAIN b : b[i].last => i = Len(b)
    BY <1>2, <1>4
  <2>2. \A i \in DOMAIN m : m[i].last => i = Len(m)
    BY <1>2, <1>5
  <2>3. QED
    BY <1>1, <2>1, <2>2 DEF Farewells

\* A line of a farewell is the BYE, or a string or unreadable.
LEMMA ByesLine ==
  ASSUME NEW z \in Seq(Byes), NEW i \in DOMAIN z
  PROVE  /\ LineAt(z, i).kind \in {"bye", "bad", "data"}
         /\ LineAt(z, i).kind = "bye" => LineAt(z, i) \in Said /\ LineAt(z, i).val = "none"
<1>1. \A j \in DOMAIN z : z[j] \in Byes
  BY ElementOfSeq, LenProperties
<1>2. \A j \in DOMAIN z : /\ z[j].of \in Said /\ z[j].of.kind = "bye" /\ z[j].of.val = "none"
                          /\ z[j].of.cut.kind \in {"bad", "data"}
  BY <1>1 DEF Byes, Piece, Texts
<1>3. CASE Fragments(z, i) = {}
  BY <1>2, <1>3 DEF LineAt
<1>4. CASE Fragments(z, i) # {}
  <2> DEFINE j == FirstOf(Fragments(z, i))
             cut == z[j].of.cut
  <2>1. j \in DOMAIN z
    BY <1>4, FragmentsInDomain, FirstOfIsLeast
  <2>2. LineAt(z, i) = [z[i].of EXCEPT !.kind = cut.kind, !.val = cut.val]
    BY <1>4 DEF LineAt
  <2>3. cut.kind \in {"bad", "data"} /\ z[i].of \in Said
    BY <1>2, <2>1
  <2> HIDE DEF j, cut
  <2>4. LineAt(z, i).kind = cut.kind
    BY <2>2, <2>3 DEF Said
  <2>5. QED
    BY <2>3, <2>4
<1>5. QED
  BY <1>3, <1>4

\* What is read of a farewell is one line at most: a response without data.
LEMMA FarewellRead ==
  ASSUME NEW b \in Seq(Piece), NEW m \in Seq(Piece), Then(b, m) \in Farewells
  PROVE  /\ m \in Farewells
         /\ HasResponse(b) =>
              /\ Completion(b).kind \in {"bye", "bad"}
              /\ Completion(b).kind = "bye" => Completion(b) \in Said /\ Completion(b).val = "none"
              /\ {j \in Ends(b) : j < FirstOf(Stops(b))} = {}
<1>1. b \in Farewells /\ b \in Seq(Byes) /\ m \in Farewells
  BY FarewellParts DEF Farewells
<1>2. SUFFICES ASSUME HasResponse(b)
      PROVE  /\ Completion(b).kind \in {"bye", "bad"}
             /\ Completion(b).kind = "bye" => Completion(b) \in Said /\ Completion(b).val = "none"
             /\ {j \in Ends(b) : j < FirstOf(Stops(b))} = {}
  BY <1>1
<1>3. /\ FirstOf(Stops(b)) \in Stops(b) /\ Stops(b) \subseteq Ends(b)
      /\ FirstOf(Stops(b)) \in DOMAIN b
      /\ Ends(b) \in SUBSET Nat
  BY <1>2, EndsInDomain, FirstOfIsLeast DEF HasResponse
<1>4. \A j \in Ends(b) : j = Len(b)
  BY <1>1 DEF Ends, Farewells
<1>5. {j \in Ends(b) : j < FirstOf(Stops(b))} = {}
  BY <1>3, <1>4
<1>6. Completion(b).kind # "data"
  BY <1>3 DEF Completion, Stops
<1>7. QED
  BY <1>1, <1>3, <1>5, <1>6, ByesLine DEF Completion

-----------------------------------------------------------------------------
(* What commands do to the scripts, and what they are answered.            *)

LEMMA AppliedType ==
  ASSUME NEW s \in Store, NEW c \in Call, Allowed(s, c)
  PROVE  Applied(s, c) \in Store
<1>1. /\ s = [scripts |-> s.scripts, active |-> s.active]
      /\ s.scripts \in [Names -> Bodies \cup {Missing}] /\ s.active \in Names \cup {NoName}
      /\ s.active # NoName => s.scripts[s.active] # Missing
  BY DEF Store
<1>2. NoName \notin Names /\ Missing \notin Bodies
  BY NamesAssumption
<1>3. ASSUME NEW code \in FixedCodes \ {"QUOTA"} PROVE code \notin Reasons(s, c)
  BY <1>3 DEF Allowed
<1>4. CASE c.op = "put"
  <2>1. c.name \in Names /\ c.to \in Bodies
    BY <1>4 DEF Call
  <2>2. Applied(s, c) = [s EXCEPT !.scripts[c.name] = c.to]
    BY <1>4 DEF Applied
  <2>3. QED
    BY <1>1, <1>2, <2>1, <2>2 DEF Store
<1>5. CASE c.op = "activate"
  <2>1. c.name \in Names \cup {NoName}
    BY <1>5 DEF Call
  <2>2. Applied(s, c) = [s EXCEPT !.active = c.name]
    BY <1>5 DEF Applied
  <2>3. c.name # NoName => Stored(s, c.name)
    <3>1. "NONEXISTENT" \in FixedCodes \ {"QUOTA"} /\ "NONEXISTENT" \in Codes
      BY DEF FixedCodes, Codes
    <3>2. QED
      BY <1>3, <1>5, <3>1 DEF Reasons
  <2>4. QED
    BY <1>1, <1>2, <2>1, <2>2, <2>3 DEF Store, Stored
<1>6. CASE c.op = "delete"
  <2>1. c.name \in Names
    BY <1>6 DEF Call
  <2>2. Applied(s, c) = [s EXCEPT !.scripts[c.name] = Missing]
    BY <1>6 DEF Applied
  <2>3. c.name # s.active
    <3>1. "ACTIVE" \in FixedCodes \ {"QUOTA"} /\ "ACTIVE" \in Codes
      BY DEF FixedCodes, Codes
    <3>2. QED
      BY <1>3, <1>6, <3>1 DEF Reasons
  <2>4. QED
    BY <1>1, <1>2, <2>1, <2>2, <2>3 DEF Store
<1>7. CASE c.op = "rename"
  <2>1. c.name \in Names /\ c.to \in Names
    BY <1>7 DEF Call
  <2> DEFINE scripts == [s.scripts EXCEPT ![c.to] = s.scripts[c.name], ![c.name] = Missing]
             active == IF s.active = c.name THEN c.to ELSE s.active
  <2>2. Applied(s, c) = [scripts |-> scripts, active |-> active]
    BY <1>7 DEF Applied
  <2>3. Stored(s, c.name) /\ ~Stored(s, c.to)
    <3>1. /\ "NONEXISTENT" \in FixedCodes \ {"QUOTA"} /\ "NONEXISTENT" \in Codes
          /\ "ALREADYEXISTS" \in FixedCodes \ {"QUOTA"} /\ "ALREADYEXISTS" \in Codes
      BY DEF FixedCodes, Codes
    <3>2. c.name # NoName
      BY <1>2, <2>1
    <3>3. QED
      BY <1>3, <1>7, <3>1, <3>2 DEF Reasons
  <2>4. c.name # c.to /\ s.scripts[c.name] # Missing /\ s.scripts[c.to] = Missing
    BY <2>1, <2>3 DEF Stored
  <2>5. scripts \in [Names -> Bodies \cup {Missing}] /\ active \in Names \cup {NoName}
    BY <1>1, <2>1
  <2>6. active # NoName => scripts[active] # Missing
    <3>1. CASE s.active = c.name
      BY <1>1, <2>1, <2>4, <3>1
    <3>2. CASE s.active # c.name
      BY <1>1, <2>1, <2>4, <3>2
    <3>3. QED
      BY <3>1, <3>2
  <2> HIDE DEF scripts, active
  <2>7. QED
    BY <2>2, <2>5, <2>6 DEF Store
<1>8. CASE c.op \notin {"put", "activate", "delete", "rename"}
  BY <1>8 DEF Applied
<1>9. QED
  BY <1>4, <1>5, <1>6, <1>7, <1>8

LEMMA RepliesType ==
  ASSUME NEW s \in Store, NEW c \in Call, Allowed(s, c), NEW reply \in Replies(s, c)
  PROVE  reply \in Answered /\ IsFiniteSet(reply.lines)
<1>1. "none" \in Codes /\ "QUOTA" \in Codes /\ "WARNINGS" \in Codes /\ Tags \subseteq Codes
  BY DEF Codes, FixedCodes
<1>2. OkCodes(c) \subseteq Codes
  <2>1. c.op = "noop" => c.name \in Tags \cup {NoName}
    BY DEF Call
  <2>2. QED
    BY <1>1, <2>1 DEF OkCodes
<1>3. Answer(s, c) \subseteq Entry /\ IsFiniteSet(Answer(s, c))
  <2>1. CASE c.op = "list"
    <3> DEFINE entry(n) == [val |-> n, active |-> n = s.active]
               stored == {n \in Names : Stored(s, n)}
    <3>1. Answer(s, c) = {entry(n) : n \in stored}
      BY <2>1 DEF Answer
    <3>2. \A n \in Names : entry(n) \in Entry
      BY DEF Entry
    <3>3. IsFiniteSet(stored)
      BY NamesAssumption, FS_Subset
    <3> HIDE DEF stored, entry
    <3>4. IsFiniteSet({entry(n) : n \in stored})
      <4> DEFINE T == {entry(n) : n \in stored}
                 f == [n \in stored |-> entry(n)]
      <4>1. f \in Surjection(stored, T)
        BY DEF Surjection
      <4> HIDE DEF f, T
      <4>2. IsFiniteSet(T)
        BY <3>3, <4>1, FS_Surjection
      <4>3. QED
        BY <4>2 DEF T
    <3>5. stored \subseteq Names
      BY DEF stored
    <3>6. QED
      BY <3>1, <3>2, <3>4, <3>5
  <2>2. CASE c.op = "get"
    <3>1. c.name \in Names /\ c.name # NoName
      BY <2>2, NamesAssumption DEF Call
    <3>2. "NONEXISTENT" \notin Reasons(s, c) /\ "NONEXISTENT" \in Codes
      BY DEF Allowed, Codes, FixedCodes
    <3>3. s.scripts[c.name] # Missing
      BY <2>2, <3>1, <3>2 DEF Reasons, Stored
    <3>4. s.scripts[c.name] \in Bodies
      BY <3>1, <3>3 DEF Store
    <3>5. Answer(s, c) = {Plain(s.scripts[c.name])}
      BY <2>2 DEF Answer
    <3>6. Plain(s.scripts[c.name]) \in Entry
      BY <3>4, PlainType DEF Words
    <3>7. QED
      BY <3>5, <3>6, FS_Singleton
  <2>3. CASE c.op \notin {"list", "get"}
    BY <2>3, FS_EmptySet DEF Answer
  <2>4. QED
    BY <2>1, <2>2, <2>3
<1>4. QED
  BY <1>1, <1>2, <1>3, FS_EmptySet DEF Replies, Answered, Statuses

LEMMA RefusalsType ==
  ASSUME NEW s, NEW c, NEW reply \in Refusals(s, c)
  PROVE  reply \in Answered /\ reply.lines = {} /\ IsFiniteSet(reply.lines)
BY FS_EmptySet DEF Refusals, Answered, Statuses, Reasons, Codes, FixedCodes

-----------------------------------------------------------------------------
(* The types of everything, for a stream used again after failures too.    *)

Reply == [status : Statuses \cup {"none"}, code : Codes, lines : SUBSET Entry]
Outcomes == {"none", "io", "missingscript"} \cup Failures \cup Statuses

WireTypes ==
  /\ arg \in [some : BOOLEAN, data : Seq(Piece)]
  /\ out # "Run" => arg.data = <<>>
  /\ buf \in Seq(Piece) /\ net \in Seq(Piece)

CallTypes ==
  /\ out \in {"Run", "WantsRead", "WantsWrite", "Complete", "Broken"}
  /\ out = "WantsWrite" => msg = [n |-> calls, call |-> call] /\ calls # 0
  /\ call \in Calls /\ calls \in 0..MaxCalls
  /\ told.outcome \in Outcomes
  /\ ~Idle => told = Untold

\* A command is with the server once at most: about to be written, in its
\* inbox, or left on a stream that was given up.
ServerTypes ==
  /\ inbox \in Seq([n : 1..calls, call : Calls])
  /\ store \in Store /\ served \in [n : 0..calls, reply : Reply]
  /\ open \in BOOLEAN /\ logged \in BOOLEAN
  /\ late \in Seq(Calls)
  /\ Len(late) + Len(inbox) + (IF out = "WantsWrite" THEN 1 ELSE 0) <= calls

StateInv == WireTypes /\ CallTypes /\ ServerTypes

LEMMA NoneIsTyped == None \in [some : BOOLEAN, data : Seq(Piece)]
BY EmptySeq DEF None

LEMMA CallsAreCalls == Calls \subseteq Call
BY CallsAssumption

LEMMA InitState == Init => StateInv
<1> SUFFICES ASSUME Init PROVE StateInv
  OBVIOUS
<1>1. WireTypes
  BY NoneIsTyped, EmptySeq DEF Init, WireTypes, None
<1>2. CallTypes
  BY CallsAssumption DEF Init, CallTypes, Untold, Outcomes, Idle
<1>3. NoReply \in Reply
  BY DEF NoReply, Reply, Codes, FixedCodes
<1>4. ServerTypes
  BY <1>3, EmptySeq DEF Init, ServerTypes, Unserved
<1>5. QED
  BY <1>1, <1>2, <1>4 DEF StateInv

\* A new call takes what is left of an old stream with it.
LEMMA IssueState ==
  ASSUME StateInv, NEW c \in Calls, Issue(c)
  PROVE  StateInv'
<1>1. calls \in 0..MaxCalls /\ calls' = calls + 1 /\ calls' \in 0..MaxCalls /\ calls' # 0
      /\ MaxCalls \in Nat /\ calls \in Nat
  BY CallsAssumption DEF Issue, StateInv, CallTypes
<1>2. WireTypes'
  <2>1. net' \in Seq(Piece)
    BY EmptySeq DEF Issue, OnThisStream, OnNewStream, StateInv, WireTypes
  <2>2. arg' = None /\ buf' = <<>>
    BY DEF Issue, WantsWrite
  <2>3. QED
    BY <2>1, <2>2, NoneIsTyped, EmptySeq DEF WireTypes, None
<1>3. CallTypes'
  BY <1>1 DEF Issue, WantsWrite, CallTypes, Untold, Outcomes
<1>4. out' = "WantsWrite" /\ UNCHANGED << store, served >>
  BY DEF Issue, WantsWrite
<1>5. out # "WantsWrite"
  BY DEF Issue, Idle
<1>6. /\ inbox \in Seq([n : 1..calls, call : Calls]) /\ late \in Seq(Calls)
      /\ Len(late) \in Nat /\ Len(inbox) \in Nat /\ Len(late) + Len(inbox) <= calls
  BY <1>5, LenProperties DEF StateInv, ServerTypes
<1>7. store' \in Store /\ served' \in [n : 0..calls', reply : Reply]
  <2>1. served \in [n : 0..calls, reply : Reply] /\ 0..calls \subseteq 0..calls'
    BY <1>1 DEF StateInv, ServerTypes
  <2>2. QED
    BY <1>4, <2>1 DEF StateInv, ServerTypes
<1>8. CASE OnThisStream
  <2>1. inbox' = inbox /\ late' = late /\ open' = open /\ logged' = logged
    BY <1>8 DEF OnThisStream
  <2>2. [n : 1..calls, call : Calls] \subseteq [n : 1..calls', call : Calls]
    BY <1>1
  <2>3. inbox' \in Seq([n : 1..calls', call : Calls])
    BY <1>6, <2>1, <2>2, SeqMonotonic
  <2>4. Len(late') + Len(inbox') + 1 <= calls'
    BY <1>1, <1>6, <2>1
  <2>5. ServerTypes'
    BY <1>4, <1>6, <1>7, <2>1, <2>3, <2>4 DEF ServerTypes, StateInv
  <2>6. QED
    BY <1>2, <1>3, <2>5 DEF StateInv
<1>9. CASE OnNewStream
  <2> DEFINE left == [i \in DOMAIN inbox |-> inbox[i].call]
  <2>1. inbox' = <<>> /\ late' = late \o left /\ open' = TRUE /\ logged' = TRUE
    BY <1>9 DEF OnNewStream
  <2>2. left \in Seq(Calls) /\ Len(left) = Len(inbox)
    <3>1. \A i \in 1..Len(inbox) : inbox[i].call \in Calls
      <4>1. \A i \in 1..Len(inbox) : inbox[i] \in [n : 1..calls, call : Calls]
        BY <1>6, ElementOfSeq
      <4>2. QED
        BY <4>1
    <3>2. DOMAIN inbox = 1..Len(inbox)
      BY <1>6, LenProperties
    <3>3. left \in [1..Len(inbox) -> Calls]
      BY <3>1, <3>2
    <3>4. QED
      BY <1>6, <3>3
  <2> HIDE DEF left
  <2>3. late' \in Seq(Calls) /\ Len(late') = Len(late) + Len(inbox)
    <3>1. Then(late, left) \in Seq(Calls) /\ Len(Then(late, left)) = Len(late) + Len(left)
      BY <1>6, <2>2, ConcatProperties DEF Then
    <3>2. late' = Then(late, left)
      BY <2>1 DEF Then
    <3>3. QED
      BY <2>2, <3>1, <3>2
  <2>4. inbox' \in Seq([n : 1..calls', call : Calls]) /\ Len(inbox') = 0
    BY <2>1, EmptySeq
  <2>5. Len(late') + Len(inbox') + 1 <= calls'
    BY <1>1, <1>6, <2>3, <2>4
  <2>6. ServerTypes'
    BY <1>4, <1>7, <2>1, <2>3, <2>4, <2>5 DEF ServerTypes
  <2>7. QED
    BY <1>2, <1>3, <2>6 DEF StateInv
<1>10. QED
  BY <1>8, <1>9 DEF Issue

\* What the calls of resume have in common.
LEMMA ResumeLeaves ==
  ASSUME StateInv, Resume
  PROVE  /\ out = "Run" /\ arg' = None /\ Received \in Seq(Piece)
         /\ UNCHANGED << wireVars, scriptServerVars, call, calls, tags >>
         /\ \/ ReadMore /\ out' = "WantsRead" /\ buf' = Received /\ UNCHANGED << told, dropped >>
            \/ Fails /\ out' = "Complete" /\ buf' = Received /\ told'.outcome \in {"eof", "toolarge", "parse"}
            \/ /\ out' = "Complete" /\ buf' = <<>> /\ Responded /\ HasResponse(Received)
               /\ Rejected \/ RawReturned \/ Accepted
               /\ told'.outcome \in Statuses \cup {"missingscript"}
<1>1. Received \in Seq(Piece)
  BY ConcatProperties DEF StateInv, WireTypes, Received
<1>2. CASE ReadMore /\ UNCHANGED told
  BY <1>1, <1>2 DEF Resume, ReadMore, Yield
<1>3. CASE Fails
  BY <1>1, <1>3 DEF Resume, Fails, ReadFail, Complete
<1>4. CASE Rejected \/ RawReturned \/ Accepted
  <2>1. Responded /\ out' = "Complete" /\ buf' = <<>> /\ arg' = None
    BY <1>4 DEF Rejected, RawReturned, Accepted, ListAccepted, GetAccepted, MissingScript,
                PutAccepted, CheckAccepted, NoopAccepted, ActivateAccepted, DeleteAccepted,
                RenameAccepted, HaveSpaceAccepted, UnauthenticateAccepted, LogoutAccepted,
                Return, Complete, NewBuffer
  <2>2. HasResponse(Received) /\ End.kind # "bad"
    BY <2>1 DEF Responded, Reading, End
  <2>3. End.kind \in Statuses
    <3>1. FirstOf(Stops(Received)) \in Stops(Received)
      BY <1>1, <2>2, EndsInDomain, FirstOfIsLeast DEF HasResponse
    <3>2. FirstOf(Stops(Received)) \in Ends(Received) /\ End.kind # "data"
      BY <3>1 DEF Stops, End, Completion
    <3>3. End.kind \in Kinds
      BY <1>1, <3>2, LineAtSaid DEF End, Completion
    <3>4. QED
      BY <2>2, <3>2, <3>3 DEF Kinds
  <2>4. told'.outcome \in {End.kind, "ok", "missingscript"}
    BY <1>4 DEF Rejected, RawReturned, Accepted, ListAccepted, GetAccepted, MissingScript,
                PutAccepted, CheckAccepted, NoopAccepted, ActivateAccepted, DeleteAccepted,
                RenameAccepted, HaveSpaceAccepted, UnauthenticateAccepted, LogoutAccepted, Return
  <2>5. told'.outcome \in Statuses \cup {"missingscript"}
    BY <2>3, <2>4 DEF Statuses
  <2>6. QED
    BY <1>1, <1>4, <2>1, <2>2, <2>5 DEF Resume
<1>5. QED
  BY <1>2, <1>3, <1>4 DEF Resume

LEMMA ResumeState ==
  ASSUME StateInv, Resume
  PROVE  StateInv'
<1>1. /\ out = "Run" /\ arg' = None /\ Received \in Seq(Piece) /\ out' \in {"WantsRead", "Complete"}
      /\ UNCHANGED << wireVars, scriptServerVars, call, calls, tags >>
      /\ buf' \in {Received, <<>>}
      /\ \/ out' = "WantsRead" /\ UNCHANGED told
         \/ out' = "Complete" /\ told'.outcome \in Outcomes
  <2>1. {"eof", "toolarge", "parse", "missingscript"} \cup Statuses \subseteq Outcomes
    BY DEF Outcomes, Failures
  <2>2. QED
    BY <2>1, ResumeLeaves
<1>2. WireTypes'
  BY <1>1, NoneIsTyped, EmptySeq DEF StateInv, WireTypes, wireVars, None
<1>3. CallTypes'
  BY <1>1 DEF StateInv, CallTypes, Idle
<1>4. ServerTypes'
  BY <1>1 DEF StateInv, ServerTypes, wireVars, scriptServerVars
<1>5. QED
  BY <1>2, <1>3, <1>4 DEF StateInv

\* Nothing is lost between the connection and the coroutine.
LEMMA PumpReadTakes ==
  ASSUME WireTypes, PumpRead
  PROVE  /\ arg' \in [some : BOOLEAN, data : Seq(Piece)] /\ net' \in Seq(Piece)
         /\ Then(Received, net)' = Then(Received, net)
<1>1. PICK k \in 1..Len(net) : /\ arg' = Some(SubSeq(net, 1, k))
                               /\ net' = SubSeq(net, k + 1, Len(net))
  BY DEF PumpRead
<1>2. net \in Seq(Piece) /\ Len(net) \in Nat /\ k \in 0..Len(net) /\ k \in Nat
  BY LenProperties DEF WireTypes
<1> DEFINE head == SubSeq(net, 1, k)
           rest == SubSeq(net, k + 1, Len(net))
<1>3. head \in Seq(Piece)
  <2>1. \A i \in 1..k : net[i] \in Piece
    BY <1>2, ElementOfSeq
  <2>2. QED
    BY <1>2, <2>1, SubSeqProperties
<1>4. rest \in Seq(Piece)
  BY <1>2, SuffixIn
<1>5. Then(head, rest) = net
  <2>1. 1 \in 1..(Len(net) + 1) /\ k \in (1 - 1)..Len(net) /\ Len(net) \in k..Len(net)
    BY <1>2
  <2>2. head \o rest = SubSeq(net, 1, Len(net))
    BY <1>2, <2>1, ConcatAdjacentSubSeq
  <2>3. QED
    BY <1>2, <2>2, SubSeqFull DEF Then
<1>6. arg.data = <<>> /\ buf \in Seq(Piece) /\ buf' = buf
  BY DEF WireTypes, PumpRead
<1> HIDE DEF head, rest
<1>7. arg'.data = head /\ net' = rest /\ arg' \in [some : BOOLEAN, data : Seq(Piece)]
  BY <1>1, <1>3 DEF Some, head, rest
<1>8. Received = Then(buf, <<>>) /\ Received' = Then(buf, head)
  BY <1>6, <1>7 DEF Received, Then
<1>9. Then(Received, net) = Then(buf, net)
  BY <1>6, <1>8, ThenNothing
<1>10. Then(Received, net)' = Then(Then(buf, head), rest)
  BY <1>7, <1>8
<1>11. Then(Then(buf, head), rest) = Then(buf, Then(head, rest))
  BY <1>3, <1>4, <1>6, ThenThen
<1>12. QED
  BY <1>4, <1>5, <1>7, <1>9, <1>10, <1>11

LEMMA PumpState ==
  ASSUME StateInv, PumpWorks \/ PumpBreaks
  PROVE  StateInv'
<1>1. CASE PumpRead /\ UNCHANGED << scriptServerVars, callVars >>
  <2>1. WireTypes'
    BY <1>1, PumpReadTakes DEF StateInv, WireTypes, PumpRead
  <2>2. QED
    BY <1>1, <2>1 DEF StateInv, CallTypes, ServerTypes, PumpRead, Idle, scriptServerVars, callVars
<1>2. CASE PumpEof(~open) /\ UNCHANGED << scriptServerVars, callVars >>
  <2>1. WireTypes'
    BY <1>2, EmptySeq DEF StateInv, WireTypes, PumpEof, Eof, Some, wireVars
  <2>2. QED
    BY <1>2, <2>1 DEF StateInv, CallTypes, ServerTypes, PumpEof, Idle, scriptServerVars, callVars, wireVars
<1>3. CASE PumpWrite /\ UNCHANGED << scriptServerVars, callVars >>
  <2>1. WireTypes' /\ CallTypes'
    BY <1>3, NoneIsTyped, EmptySeq
       DEF StateInv, WireTypes, CallTypes, PumpWrite, Idle, scriptServerVars, callVars, None
  <2>2. /\ msg \in [n : 1..calls, call : Calls] /\ inbox \in Seq([n : 1..calls, call : Calls])
        /\ Len(late) + Len(inbox) + 1 <= calls
    BY <1>3 DEF StateInv, CallTypes, ServerTypes, PumpWrite
  <2>3. inbox' \in Seq([n : 1..calls, call : Calls]) /\ Len(inbox') = Len(inbox) + 1
    BY <1>3, <2>2, AppendProperties DEF PumpWrite
  <2>4. Len(late) \in Nat /\ Len(inbox) \in Nat
    BY <2>2, LenProperties DEF StateInv, ServerTypes
  <2>5. ServerTypes'
    BY <1>3, <2>2, <2>3, <2>4 DEF StateInv, ServerTypes, PumpWrite, scriptServerVars, callVars
  <2>6. QED
    BY <2>1, <2>5 DEF StateInv
<1>4. CASE PumpBreaks
  <2>1. /\ out' = "Broken" /\ out # "Run" /\ told'.outcome = "io"
        /\ UNCHANGED << arg, buf, net, inbox, call, calls, scriptServerVars >>
    BY <1>4 DEF PumpBreaks, PumpFail, Yields, wireVars
  <2>2. Len(late) \in Nat /\ Len(inbox) \in Nat /\ calls \in Nat
    BY LenProperties DEF StateInv, ServerTypes, CallTypes
  <2>3. QED
    BY <2>1, <2>2 DEF StateInv, WireTypes, CallTypes, ServerTypes, Idle, Outcomes, scriptServerVars
<1>5. QED
  BY <1>1, <1>2, <1>3, <1>4 DEF PumpWorks

LEMMA FramedType ==
  ASSUME NEW n \in Nat, NEW reply \in Answered, NEW e \in Seq(reply.lines), NEW cuts \in Pieces(e)
  PROVE  Framed(n, e, reply, cuts) \in Seq(Piece)
BY LinesOfType, FramesType DEF Framed

\* The command at the head of the inbox is served, or refused, and answered.
Serves(c, reply) ==
  \/ /\ Permitted(c) /\ Allowed(store, c) /\ reply \in Replies(store, c)
     /\ store' = Applied(store, c)
  \/ reply \in Refusals(store, c) /\ store' = store

LEMMA ServerServes ==
  ASSUME StateInv, ServerAnswers
  PROVE  /\ inbox # <<>> /\ open /\ inbox' = Tail(inbox) /\ UNCHANGED late
         /\ open' \in BOOLEAN /\ logged' \in BOOLEAN /\ store' \in Store
         /\ Head(inbox) \in [n : 1..calls, call : Calls]
         /\ \E reply \in Answered : \E e \in Seq(reply.lines) : \E cuts \in Pieces(e) :
              /\ reply.lines = {e[i] : i \in 1..Len(e)}
              /\ Serves(Head(inbox).call, reply)
              /\ served' = [n |-> Head(inbox).n, reply |-> reply]
              /\ net' = Then(net, Framed(Head(inbox).n, e, reply, cuts))
<1> DEFINE m == Head(inbox)
           c == m.call
<1>1. inbox # <<>> /\ open /\ inbox \in Seq([n : 1..calls, call : Calls]) /\ store \in Store
  BY DEF ServerAnswers, ServerAccept, ServerRefuse, StateInv, ServerTypes
<1>2. m \in [n : 1..calls, call : Calls] /\ c \in Call /\ logged \in BOOLEAN
  <2>1. m \in [n : 1..calls, call : Calls]
    BY <1>1, HeadTailProperties
  <2>2. QED
    BY <2>1, CallsAreCalls DEF StateInv, ServerTypes
<1> HIDE DEF m
<1>3. PICK reply : AnswerWith(reply) /\ Serves(c, reply)
  BY <1>1 DEF ServerAnswers, ServerAccept, ServerRefuse, Serves, m
<1>4. reply \in Answered /\ IsFiniteSet(reply.lines) /\ store' \in Store
  BY <1>1, <1>2, <1>3, RepliesType, RefusalsType, AppliedType DEF Serves
<1>5a. PICK e \in SetToSeqs(reply.lines) : \E cuts \in [1..(Len(e) + 1) -> CutsOf(reply.status)] :
        net' = net \o Framed(m.n, e, reply, cuts)
  BY <1>3 DEF AnswerWith, m
<1>5. PICK cuts \in [1..(Len(e) + 1) -> CutsOf(reply.status)] :
        net' = net \o Framed(m.n, e, reply, cuts)
  BY <1>5a
<1>10. cuts \in Pieces(e)
  <2>1. CutsOf(reply.status) \subseteq Cuts
    BY DEF CutsOf, Texts
  <2>2. QED
    BY <1>5, <2>1 DEF Pieces
<1>6. e \in Seq(reply.lines) /\ reply.lines = {e[i] : i \in 1..Len(e)}
  BY <1>4, OrderType
<1>7. /\ inbox' = Tail(inbox) /\ UNCHANGED late /\ served' = [n |-> m.n, reply |-> reply]
      /\ open' \in BOOLEAN /\ logged' \in BOOLEAN
  BY <1>2, <1>3 DEF AnswerWith, m
<1>8. net' = Then(net, Framed(m.n, e, reply, cuts))
  BY <1>5 DEF Then
<1>9. QED
  BY <1>1, <1>2, <1>3, <1>4, <1>6, <1>7, <1>8, <1>10 DEF m

\* A farewell is a whole BYE, said once.
LEMMA FarewellType ==
  ASSUME NEW cut \in Texts
  PROVE  Frame(LineOf(0, "bye", Plain("none"), cut)) \in Farewells
<1> DEFINE line == LineOf(0, "bye", Plain("none"), cut)
<1>1. line \in Said
  BY PlainType, LineOfType DEF Words, Codes, FixedCodes, Statuses, Texts
<1>2. line.kind = "bye" /\ line.val = "none" /\ line.cut \in Texts
  BY DEF LineOf, Plain
<1> HIDE DEF line
<1>3. [of |-> line, last |-> FALSE] \in Piece /\ [of |-> line, last |-> TRUE] \in Piece
  BY <1>1 DEF Piece
<1>4. [of |-> line, last |-> FALSE] \in Byes /\ [of |-> line, last |-> TRUE] \in Byes
  BY <1>2, <1>3 DEF Byes
<1>5. Frame(line) \in Farewells
  <2>1. Frame(line) \in Seq(Byes) /\ Len(Frame(line)) = 2 /\ ~Frame(line)[1].last
    BY <1>4 DEF Frame
  <2>2. \A i \in DOMAIN Frame(line) : i = 1 \/ i = 2
    BY DEF Frame
  <2>3. QED
    BY <2>1, <2>2 DEF Farewells
<1>6. QED
  BY <1>5 DEF line

LEMMA ServerLeaves ==
  ASSUME StateInv, Peer
  PROVE  /\ UNCHANGED << out, result, msg, arg, buf, dropped, sock, sent >>
         /\ \/ ServerAnswers
            \/ /\ open /\ open' = FALSE /\ UNCHANGED << store, served, logged, late, inbox >>
               /\ \/ net' = net
                  \/ \E cut \in Texts :
                       net' = Then(net, Frame(LineOf(0, "bye", Plain("none"), cut)))
            \/ /\ ~open /\ inbox # <<>> /\ inbox' = <<>>
               /\ UNCHANGED << store, served, open, logged, late, net >>
            \/ ServerLate
<1>1. CASE ServerGiveUp
  <2>1. \/ net' = net
        \/ \E cut \in Texts : net' = Then(net, Frame(LineOf(0, "bye", Plain("none"), cut)))
    BY <1>1 DEF ServerGiveUp, CutsOf, Then
  <2>2. open /\ open' = FALSE /\ UNCHANGED << store, served, logged, late, inbox >>
    BY <1>1 DEF ServerGiveUp
  <2>3. QED
    BY <2>1, <2>2 DEF Peer, coroutineVars
<1>2. CASE ServerDiscard
  BY <1>2 DEF Peer, coroutineVars, ServerDiscard
<1>3. CASE ServerAnswers \/ ServerLate
  BY <1>3 DEF Peer, coroutineVars
<1>4. QED
  BY <1>1, <1>2, <1>3 DEF Peer

LEMMA LateType ==
  ASSUME StateInv, ServerLate
  PROVE  /\ UNCHANGED << served, open, logged, net, inbox >> /\ store' \in Store
         /\ late' \in Seq(Calls) /\ Len(late') <= Len(late)
         /\ \E i \in 1..Len(late) :
              /\ late' = RemoveAt(late, i) /\ late[i] \in Call
              /\ \/ UNCHANGED store
                 \/ Allowed(store, late[i]) /\ store' = Applied(store, late[i])
<1>1. late \in Seq(Calls) /\ Len(late) \in Nat /\ DOMAIN late = 1..Len(late) /\ store \in Store
  BY LenProperties DEF StateInv, ServerTypes
<1>2. PICK i \in 1..Len(late) : /\ late' = RemoveAt(late, i)
                                /\ \/ UNCHANGED store
                                   \/ Allowed(store, late[i]) /\ store' = Applied(store, late[i])
  BY <1>1 DEF ServerLate
<1>3. late[i] \in Call
  BY <1>1, ElementOfSeq, CallsAreCalls
<1>4. store' \in Store
  BY <1>1, <1>2, <1>3, AppliedType
<1>5. late' \in Seq(Calls) /\ Len(late') <= Len(late)
  <2> DEFINE head == SubSeq(late, 1, i - 1)
             tail == SubSeq(late, i + 1, Len(late))
  <2>1. \A j \in 1..Len(late) : late[j] \in Calls
    BY <1>1, ElementOfSeq
  <2>2. head \in Seq(Calls) /\ Len(head) = IF 1 <= i - 1 THEN (i - 1) - 1 + 1 ELSE 0
    <3>1. i - 1 \in Int /\ \A j \in 1..(i - 1) : late[j] \in Calls
      BY <1>1, <2>1
    <3>2. QED
      BY <3>1, SubSeqProperties
  <2>3. tail \in Seq(Calls) /\ Len(tail) = Len(late) - i
    BY <1>1, SuffixIn, SuffixElements
  <2> HIDE DEF head, tail
  <2>4. Then(head, tail) \in Seq(Calls) /\ Len(Then(head, tail)) = Len(head) + Len(tail)
    BY <2>2, <2>3, ConcatProperties DEF Then
  <2>5. late' = Then(head, tail)
    BY <1>2 DEF RemoveAt, Then, head, tail
  <2>6. QED
    BY <1>1, <2>2, <2>3, <2>4, <2>5
<1>6. QED
  BY <1>2, <1>3, <1>4, <1>5 DEF ServerLate

LEMMA PeerState ==
  ASSUME StateInv, Peer, UNCHANGED callVars
  PROVE  StateInv'
<1>1. /\ UNCHANGED << out, result, msg, arg, buf, dropped, sock, sent, call, calls, told, tags >>
      /\ CallTypes'
  BY ServerLeaves DEF callVars, StateInv, CallTypes, Idle
<1>2. /\ net \in Seq(Piece) /\ inbox \in Seq([n : 1..calls, call : Calls])
      /\ Len(late) \in Nat /\ Len(inbox) \in Nat /\ calls \in Nat
  BY LenProperties DEF StateInv, WireTypes, ServerTypes, CallTypes
<1>3. ASSUME net' \in Seq(Piece) PROVE WireTypes'
  BY <1>1, <1>3 DEF StateInv, WireTypes
<1>4. CASE ServerAnswers
  <2>1. /\ inbox # <<>> /\ inbox' = Tail(inbox) /\ UNCHANGED late
        /\ open' \in BOOLEAN /\ logged' \in BOOLEAN /\ store' \in Store
        /\ Head(inbox) \in [n : 1..calls, call : Calls]
    BY <1>4, ServerServes
  <2>2. PICK reply \in Answered : \E e \in Seq(reply.lines) : \E cuts \in Pieces(e) :
              /\ served' = [n |-> Head(inbox).n, reply |-> reply]
              /\ net' = Then(net, Framed(Head(inbox).n, e, reply, cuts))
    BY <1>4, ServerServes
  <2>3a. PICK e \in Seq(reply.lines) : \E cuts \in Pieces(e) :
              /\ served' = [n |-> Head(inbox).n, reply |-> reply]
              /\ net' = Then(net, Framed(Head(inbox).n, e, reply, cuts))
    BY <2>2
  <2>3. PICK cuts \in Pieces(e) :
              /\ served' = [n |-> Head(inbox).n, reply |-> reply]
              /\ net' = Then(net, Framed(Head(inbox).n, e, reply, cuts))
    BY <2>3a
  <2>4. Head(inbox).n \in 1..calls /\ Head(inbox).n \in Nat
    BY <1>2, <2>1
  <2>5. net' \in Seq(Piece)
    BY <1>2, <2>3, <2>4, FramedType, ThenType
  <2>6. inbox' \in Seq([n : 1..calls, call : Calls]) /\ Len(inbox') = Len(inbox) - 1
    BY <1>2, <2>1, HeadTailProperties
  <2>7. reply \in Reply
    BY DEF Answered, Reply
  <2>8. served' \in [n : 0..calls, reply : Reply]
    BY <2>3, <2>4, <2>7
  <2>9. Len(late') + Len(inbox') + (IF out = "WantsWrite" THEN 1 ELSE 0) <= calls
    <3>1. Len(late) + Len(inbox) + (IF out = "WantsWrite" THEN 1 ELSE 0) <= calls
      BY DEF StateInv, ServerTypes
    <3>2. QED
      BY <1>2, <2>1, <2>6, <3>1
  <2>10. ServerTypes'
    BY <1>1, <2>1, <2>6, <2>8, <2>9 DEF ServerTypes, StateInv
  <2>11. QED
    BY <1>1, <1>3, <2>5, <2>10 DEF StateInv
<1>5. CASE open /\ open' = FALSE /\ UNCHANGED << store, served, logged, late, inbox >>
           /\ \/ net' = net
              \/ \E cut \in Texts : net' = Then(net, Frame(LineOf(0, "bye", Plain("none"), cut)))
  <2>1. net' \in Seq(Piece)
    BY <1>2, <1>5, FarewellType, FarewellsArePieces, ThenType
  <2>2. open' \in BOOLEAN
    BY <1>5
  <2>3. QED
    BY <1>1, <1>3, <1>5, <2>1, <2>2 DEF StateInv, ServerTypes
<1>6. CASE inbox' = <<>> /\ UNCHANGED << store, served, open, logged, late, net >>
  <2>1. inbox' \in Seq([n : 1..calls, call : Calls]) /\ Len(inbox') = 0
    BY <1>6, EmptySeq
  <2>2. QED
    BY <1>1, <1>2, <1>3, <1>6, <2>1 DEF StateInv, ServerTypes
<1>7. CASE ServerLate
  <2>1. /\ UNCHANGED << served, open, logged, net, inbox >> /\ store' \in Store
        /\ late' \in Seq(Calls) /\ Len(late') <= Len(late)
    BY <1>7, LateType
  <2>2. Len(late') \in Nat
    BY <2>1, LenProperties
  <2>3. QED
    BY <1>1, <1>2, <1>3, <2>1, <2>2 DEF StateInv, ServerTypes
<1>8. QED
  BY <1>4, <1>5, <1>6, <1>7, ServerLeaves

LEMMA StutterState ==
  ASSUME StateInv, UNCHANGED vars
  PROVE  StateInv'
BY DEF StateInv, WireTypes, CallTypes, ServerTypes, Idle, vars, exchangeVars, coroutineVars, wireVars,
       scriptServerVars, callVars

LEMMA CommandsState == Spec => []StateInv
<1>1. StateInv /\ [Next]_vars => StateInv'
  BY IssueState, ResumeState, PumpState, PeerState, StutterState DEF Next, Finished
<1>2. QED
  BY <1>1, InitState, PTL DEF Spec

-----------------------------------------------------------------------------
(* A stream replaced when a call failed: at most one command and one reply *)
(* are under way on it, the reply to the call that waits.                  *)

\* All that was sent and is not acted on.
Stream == Then(Received, net)

\* Nothing is under way but the farewell of a server that gave up.
Quiet(units) == units \in Farewells /\ (open => units = <<>>)

\* What of an answer depends on the command.
Fits(c, reply) ==
  reply.status = "ok" =>
    /\ c.op = "noop" => reply.code \in OkCodes(c)
    /\ c.op = "get" => \E v : reply.lines = {Plain(v)}

\* The command is with the server, or was lost with it.
Owed ==
  /\ served.n # calls /\ Quiet(Stream)
  /\ \/ inbox = << [n |-> calls, call |-> call] >>
     \/ ~open /\ inbox = <<>>

\* The command was served, and its answer is what the next response is.
Unread ==
  /\ served.n = calls /\ inbox = <<>>
  /\ served.reply \in Answered /\ Fits(call, served.reply)
  /\ \E e \in Seq(served.reply.lines) : \E cuts \in Pieces(e), z \in Farewells :
       /\ served.reply.lines = {e[i] : i \in 1..Len(e)}
       /\ Stream = Then(Framed(calls, e, served.reply, cuts), z)
       /\ open => z = <<>>

StepInv ==
  /\ out = "WantsWrite" => served.n # calls /\ inbox = <<>> /\ buf = <<>> /\ Quiet(net)
  /\ out \in {"Run", "WantsRead"} => Owed \/ Unread
  /\ Idle => inbox = <<>> \/ Len(inbox) = 1
  /\ Idle /\ told.outcome \in {"none", "ok", "no"} => inbox = <<>> /\ Quiet(net)
  /\ told.values \subseteq Entry

\* What a caller is told of an answer.
Told(c, reply) ==
  [outcome |-> reply.status,
   values |->
     IF c.raw THEN reply.lines \cup {Plain(reply.code)}
     ELSE IF reply.status # "ok" THEN {Plain(reply.code)}
     ELSE CASE c.op \in {"list", "get"} -> reply.lines
            [] c.op \in {"put", "check"} -> {Plain(reply.code)} \cap {Plain("WARNINGS")}
            [] c.op = "noop" -> {Plain(reply.code)} \ {Plain("none")}
            [] OTHER -> {}]

LEMMA ToldType ==
  ASSUME NEW c, NEW reply \in Answered
  PROVE  Told(c, reply).outcome = reply.status /\ Told(c, reply).values \subseteq Entry
<1>1. reply.lines \subseteq Entry /\ Plain(reply.code) \in Entry
  BY PlainType DEF Answered, Words
<1>2. QED
  BY <1>1 DEF Told

\* The entries of an answer's lines are those it was made of.
LEMMA EntriesBack ==
  ASSUME NEW n, NEW entry \in Entry, NEW kind, NEW cut
  PROVE  EntryOf(LineOf(n, kind, entry, cut)) = entry
BY DEF EntryOf, LineOf, Entry

\* Each command reads of its answer what is meant for it.
LEMMA AnswerTold ==
  ASSUME StateInv, Unread, Responded, Rejected \/ RawReturned \/ Accepted
  PROVE  /\ told' = Told(call, served.reply)
         /\ Quiet(net)
<1> DEFINE reply == served.reply
<1>1. /\ Received \in Seq(Piece) /\ net \in Seq(Piece) /\ calls \in Nat
      /\ HasResponse(Received) /\ call \in Call
  BY ConcatProperties, CallsAreCalls
     DEF StateInv, WireTypes, CallTypes, Received, Responded, Reading
<1>2a. PICK e \in Seq(reply.lines) : \E cuts \in Pieces(e), z \in Farewells :
       /\ reply.lines = {e[i] : i \in 1..Len(e)}
       /\ Then(Received, net) = Then(Framed(calls, e, reply, cuts), z)
       /\ open => z = <<>>
  BY DEF Unread, Stream
<1>2. PICK cuts \in Pieces(e), z \in Farewells :
       /\ reply.lines = {e[i] : i \in 1..Len(e)}
       /\ Then(Received, net) = Then(Framed(calls, e, reply, cuts), z)
       /\ open => z = <<>>
  BY <1>2a
<1>3. reply \in Answered /\ Fits(call, reply)
  BY DEF Unread
<1> HIDE DEF reply
<1>4. z \in Seq(Piece)
  BY FarewellsArePieces
<1>5. /\ End = LineOf(calls, reply.status, Plain(reply.code), cuts[Len(e) + 1])
      /\ DataLines = {LineOf(calls, "data", e[i], cuts[i]) : i \in 1..Len(e)}
      /\ Trailing(Received) \in Seq(Piece) /\ Then(Trailing(Received), net) = z
  <2> DEFINE b == Received
  <2>1. /\ b \in Seq(Piece) /\ net \in Seq(Piece) /\ HasResponse(b) /\ calls \in Nat
        /\ Then(b, net) = Then(Framed(calls, e, reply, cuts), z)
    BY <1>1, <1>2
  <2> HIDE DEF b
  <2>2. /\ Completion(b) = LineOf(calls, reply.status, Plain(reply.code), cuts[Len(e) + 1])
        /\ DataOf(b) = DataSaid(calls, e, cuts)
        /\ Trailing(b) \in Seq(Piece) /\ Then(Trailing(b), net) = z
    BY <1>3, <1>4, <2>1, AnswerRead
  <2>3. QED
    BY <2>2 DEF End, DataLines, DataOf, DataSaid, b
<1>6. Quiet(net)
  <2>1. net \in Farewells
    BY <1>1, <1>5, FarewellParts
  <2>2. z = <<>> => net = <<>>
    BY <1>1, <1>5, ThenIsNothing
  <2>3. QED
    BY <1>2, <2>1, <2>2 DEF Quiet
<1>7. /\ \A i \in 1..Len(e) : e[i] \in Entry
      /\ Plain(reply.code) \in Entry
      /\ End.kind = reply.status /\ End.val = reply.code /\ EntryOf(End) = Plain(reply.code)
  <2>1. \A i \in 1..Len(e) : e[i] \in Entry
    BY <1>3, ElementOfSeq DEF Answered
  <2>2. Plain(reply.code) \in Entry
    BY <1>3, PlainType DEF Answered, Words
  <2>3. EntryOf(End) = Plain(reply.code)
    BY <1>5, <2>2, EntriesBack
  <2>4. End.kind = reply.status /\ End.val = reply.code
    BY <1>5 DEF LineOf, Plain
  <2>5. QED
    BY <2>1, <2>2, <2>3, <2>4
<1>8. {EntryOf(l) : l \in DataLines} = reply.lines
  <2>1. \A i \in 1..Len(e) : EntryOf(LineOf(calls, "data", e[i], cuts[i])) = e[i]
    BY <1>7, EntriesBack
  <2>2. {EntryOf(l) : l \in DataLines}
          = {EntryOf(LineOf(calls, "data", e[i], cuts[i])) : i \in 1..Len(e)}
    BY <1>5
  <2>3. QED
    BY <1>2, <2>1, <2>2
<1>9. CASE Rejected
  <2>1. ~call.raw /\ reply.status # "ok" /\ told' = [outcome |-> reply.status, values |-> {Plain(reply.code)}]
    BY <1>7, <1>9 DEF Rejected, Return, IsOk
  <2>2. QED
    BY <1>6, <2>1 DEF Told, reply
<1>10. CASE RawReturned
  <2>1. call.raw /\ told' = [outcome |-> reply.status, values |-> {EntryOf(l) : l \in DataLines \cup {End}}]
    BY <1>7, <1>10 DEF RawReturned, Return
  <2>2. {EntryOf(l) : l \in DataLines \cup {End}} = {EntryOf(l) : l \in DataLines} \cup {EntryOf(End)}
    OBVIOUS
  <2>3. QED
    BY <1>6, <1>7, <1>8, <2>1, <2>2 DEF Told, reply
<1>11. CASE Accepted
  <2>1. reply.status = "ok" /\ ~call.raw
    BY <1>7, <1>11
       DEF Accepted, ListAccepted, GetAccepted, MissingScript, PutAccepted, CheckAccepted, NoopAccepted,
           ActivateAccepted, DeleteAccepted, RenameAccepted, HaveSpaceAccepted, UnauthenticateAccepted,
           LogoutAccepted, Accepts, IsOk
  <2>2. CASE ListAccepted
    <3>1. call.op = "list" /\ told' = [outcome |-> "ok", values |-> {EntryOf(l) : l \in DataLines}]
      BY <2>2 DEF ListAccepted, Accepts, Return
    <3>2. QED
      BY <1>6, <1>8, <2>1, <3>1 DEF Told, reply
  <2>3. CASE GetAccepted \/ MissingScript
    <3>1. call.op = "get"
      BY <2>3 DEF GetAccepted, MissingScript, Accepts
    <3>2. PICK v : reply.lines = {Plain(v)}
      BY <1>3, <2>1, <3>1 DEF Fits
    <3>3. \A l \in DataLines : EntryOf(l) = Plain(v)
      BY <1>8, <3>2
    <3>4. \A l \in DataLines : l.val = v
      BY <3>3 DEF EntryOf, Plain
    <3>5. DataLines # {}
      BY <1>8, <3>2
    <3>6. LineAt(Received, FirstOf(Ends(Received))) \in DataLines
      <4>1. Ends(Received) \in SUBSET Nat /\ Stops(Received) \in SUBSET Nat
        BY <1>1, EndsInDomain
      <4>2. PICK i \in Ends(Received) : i < FirstOf(Stops(Received))
        BY <3>5 DEF DataLines
      <4>3. FirstOf(Ends(Received)) \in Ends(Received) /\ FirstOf(Ends(Received)) <= i
        BY <4>1, <4>2, FirstOfIsLeast
      <4>4. FirstOf(Stops(Received)) \in Nat
        BY <1>1, <4>1, FirstOfIsLeast DEF HasResponse
      <4>5. FirstOf(Ends(Received)) < FirstOf(Stops(Received))
        BY <4>1, <4>2, <4>3, <4>4
      <4>6. QED
        BY <4>3, <4>5 DEF DataLines
    <3>7. told' = [outcome |-> "ok", values |-> {Plain(v)}]
      BY <2>3, <3>4, <3>5, <3>6 DEF GetAccepted, MissingScript, Return
    <3>8. QED
      BY <1>6, <2>1, <3>1, <3>2, <3>7 DEF Told, reply
  <2>4. CASE PutAccepted \/ CheckAccepted
    <3>1. call.op \in {"put", "check"} /\ told' = [outcome |-> "ok", values |-> Warnings]
      BY <2>4 DEF PutAccepted, CheckAccepted, Accepts, Return
    <3>2. Warnings = {Plain(reply.code)} \cap {Plain("WARNINGS")}
      BY <1>7 DEF Warnings, Plain
    <3>3. QED
      BY <1>6, <2>1, <3>1, <3>2 DEF Told, reply
  <2>5. CASE NoopAccepted
    <3>1. call.op = "noop" /\ told' = [outcome |-> "ok", values |-> {Plain(v) : v \in {reply.code} \cap Tags}]
      BY <1>7, <2>5 DEF NoopAccepted, Accepts, Return
    <3>2. reply.code \in Tags \cup {"none"} /\ "none" \notin Tags
      BY <1>1, <1>3, <2>1, <3>1, NamesAssumption DEF Fits, OkCodes, Call, FixedCodes
    <3>3. {Plain(v) : v \in {reply.code} \cap Tags} = {Plain(reply.code)} \ {Plain("none")}
      BY <3>2 DEF Plain
    <3>4. QED
      BY <1>6, <2>1, <3>1, <3>3 DEF Told, reply
  <2>6. CASE \/ ActivateAccepted \/ DeleteAccepted \/ RenameAccepted \/ HaveSpaceAccepted
             \/ UnauthenticateAccepted \/ LogoutAccepted
    <3>1. /\ call.op \in {"activate", "delete", "rename", "havespace", "unauthenticate", "logout"}
          /\ told' = [outcome |-> "ok", values |-> {}]
      BY <2>6 DEF ActivateAccepted, DeleteAccepted, RenameAccepted, HaveSpaceAccepted,
                  UnauthenticateAccepted, LogoutAccepted, Accepts, Return
    <3>2. QED
      BY <1>6, <2>1, <3>1 DEF Told, reply
  <2>7. QED
    BY <1>11, <2>2, <2>3, <2>4, <2>5, <2>6 DEF Accepted
<1>12. QED
  BY <1>9, <1>10, <1>11

LEMMA StreamTypes ==
  ASSUME StateInv
  PROVE  Received \in Seq(Piece) /\ net \in Seq(Piece) /\ Stream \in Seq(Piece)
<1>1. Received \in Seq(Piece) /\ net \in Seq(Piece)
  BY ConcatProperties DEF StateInv, WireTypes, Received
<1>2. QED
  BY <1>1, ThenType DEF Stream

LEMMA QuietNothing == Quiet(<<>>)
BY NoFarewell DEF Quiet

LEMMA InitStep == Init => StepInv
BY QuietNothing DEF Init, StepInv, Idle, Untold

LEMMA IssueStep ==
  ASSUME ~Reuse, StateInv, StepInv, NEW c \in Calls, Issue(c)
  PROVE  StepInv'
<1>1. /\ Idle /\ out' = "WantsWrite" /\ buf' = <<>> /\ told' = Untold
      /\ served' = served /\ calls' = calls + 1
  BY DEF Issue, WantsWrite
<1>2. served.n \in 0..calls /\ calls \in Nat
  BY DEF StateInv, ServerTypes, CallTypes
<1>3. served'.n # calls'
  BY <1>1, <1>2
<1>4. CASE OnThisStream
  <2>1. inbox = <<>> /\ Quiet(net)
    BY <1>1, <1>4 DEF OnThisStream, Usable, StepInv
  <2>2. inbox' = <<>> /\ Quiet(net)'
    BY <1>4, <2>1 DEF OnThisStream, Quiet
  <2>3. QED
    BY <1>1, <1>3, <2>2 DEF StepInv, Idle, Untold
<1>5. CASE OnNewStream
  <2>1. inbox' = <<>> /\ net' = <<>>
    BY <1>5 DEF OnNewStream
  <2>2. Quiet(net)'
    BY <2>1, NoFarewell DEF Quiet
  <2>3. QED
    BY <1>1, <1>3, <2>1, <2>2 DEF StepInv, Idle, Untold
<1>6. QED
  BY <1>4, <1>5 DEF Issue

\* A goodbye read in the place of an answer is an error, and a call's last.
LEMMA FarewellTold ==
  ASSUME StateInv, Owed, Responded, Rejected \/ RawReturned \/ Accepted
  PROVE  told'.outcome = "bye" /\ told'.values \subseteq Entry
<1>1. Received \in Seq(Piece) /\ net \in Seq(Piece) /\ Then(Received, net) \in Farewells
  BY StreamTypes DEF Owed, Quiet, Stream
<1>2. HasResponse(Received) /\ End.kind # "bad"
  BY DEF Responded, Reading, End
<1>3. /\ End.kind = "bye" /\ End \in Said /\ End.val = "none"
      /\ {j \in Ends(Received) : j < FirstOf(Stops(Received))} = {}
  BY <1>1, <1>2, FarewellRead DEF End
<1>4. DataLines = {}
  BY <1>3 DEF DataLines
<1>5. Plain(End.val) \in Entry
  BY <1>3, PlainType DEF Words, Codes, FixedCodes
<1>6. EntryOf(End) \in Entry
  BY <1>3 DEF EntryOf, Said, Entry, Words
<1>7. CASE Rejected
  BY <1>3, <1>5, <1>7 DEF Rejected, Return
<1>8. CASE RawReturned
  <2>1. told' = [outcome |-> "bye", values |-> {EntryOf(l) : l \in DataLines \cup {End}}]
    BY <1>3, <1>8 DEF RawReturned, Return
  <2>2. {EntryOf(l) : l \in DataLines \cup {End}} = {EntryOf(End)}
    BY <1>4
  <2>3. QED
    BY <1>6, <2>1, <2>2
<1>9. CASE Accepted
  BY <1>3, <1>9
     DEF Accepted, ListAccepted, GetAccepted, MissingScript, PutAccepted, CheckAccepted, NoopAccepted,
         ActivateAccepted, DeleteAccepted, RenameAccepted, HaveSpaceAccepted, UnauthenticateAccepted,
         LogoutAccepted, Accepts, IsOk
<1>10. QED
  BY <1>7, <1>8, <1>9

LEMMA ResumeStep ==
  ASSUME StateInv, StepInv, Resume
  PROVE  StepInv'
<1>1. /\ out = "Run" /\ arg' = None /\ Received \in Seq(Piece) /\ (Owed \/ Unread)
      /\ UNCHANGED << wireVars, scriptServerVars, call, calls, tags >>
      /\ \/ ReadMore /\ out' = "WantsRead" /\ buf' = Received /\ UNCHANGED << told, dropped >>
         \/ Fails /\ out' = "Complete" /\ buf' = Received /\ told'.outcome \in {"eof", "toolarge", "parse"}
         \/ /\ out' = "Complete" /\ buf' = <<>> /\ Responded /\ HasResponse(Received)
            /\ Rejected \/ RawReturned \/ Accepted
            /\ told'.outcome \in Statuses \cup {"missingscript"}
  BY ResumeLeaves DEF StepInv
<1>2. inbox = <<>> \/ Len(inbox) = 1
  BY <1>1 DEF Owed, Unread
<1>3. CASE out' = "WantsRead" /\ buf' = Received /\ UNCHANGED told
  <2>1. StateInv'
    BY ResumeState
  <2>2. Received' = Received
    BY <1>1, <1>3, ConcatEmptySeq DEF Received, None
  <2>3. Stream' = Stream
    BY <1>1, <2>2 DEF Stream, wireVars
  <2>4. (Owed => Owed') /\ (Unread => Unread')
    BY <1>1, <2>3 DEF Owed, Unread, Quiet, wireVars, scriptServerVars
  <2>5. QED
    BY <1>1, <1>3, <2>4 DEF StepInv, Idle
<1>4. CASE Fails /\ out' = "Complete" /\ told'.outcome \in {"eof", "toolarge", "parse"}
  <2>1. told'.values = {}
    BY <1>4 DEF Fails
  <2>2. QED
    BY <1>1, <1>2, <1>4, <2>1 DEF StepInv, Idle, wireVars
<1>5. CASE out' = "Complete" /\ Responded /\ (Rejected \/ RawReturned \/ Accepted)
  <2>1. Rejected \/ RawReturned \/ Accepted
    BY <1>5
  <2>2. CASE Owed
    <3>1. told'.outcome = "bye" /\ told'.values \subseteq Entry
      BY <1>5, <2>1, <2>2, FarewellTold DEF StepInv
    <3>2. QED
      BY <1>1, <1>2, <1>5, <3>1 DEF StepInv, Idle, wireVars
  <2>3. CASE Unread
    <3>1. told' = Told(call, served.reply) /\ Quiet(net) /\ inbox = <<>>
      BY <1>5, <2>1, <2>3, AnswerTold DEF Unread
    <3>2. told'.values \subseteq Entry
      BY <2>3, <3>1, ToldType DEF Unread
    <3>3. Quiet(net)' /\ inbox' = <<>>
      BY <1>1, <3>1 DEF Quiet, wireVars, scriptServerVars
    <3>4. QED
      BY <1>5, <3>2, <3>3 DEF StepInv, Idle
  <2>4. QED
    BY <1>1, <2>2, <2>3
<1>6. QED
  BY <1>1, <1>3, <1>4, <1>5

LEMMA PumpStep ==
  ASSUME StateInv, StepInv, PumpWorks \/ PumpBreaks
  PROVE  StepInv'
<1>1. CASE PumpRead /\ UNCHANGED << scriptServerVars, callVars >>
  <2>1. Stream' = Stream
    BY <1>1, PumpReadTakes DEF StateInv, Stream
  <2>2. out = "WantsRead" /\ out' = "Run" /\ UNCHANGED << inbox, served, open, call, calls, told >>
    BY <1>1 DEF PumpRead, scriptServerVars, callVars
  <2>3. (Owed => Owed') /\ (Unread => Unread')
    BY <2>1, <2>2 DEF Owed, Unread, Quiet
  <2>4. QED
    BY <2>2, <2>3 DEF StepInv, Idle
<1>2. CASE PumpEof(~open) /\ UNCHANGED << scriptServerVars, callVars >>
  <2>1. /\ out = "WantsRead" /\ out' = "Run" /\ UNCHANGED << inbox, net, buf, served, open, call, calls, told >>
        /\ arg'.data = <<>> /\ arg.data = <<>>
    BY <1>2 DEF PumpEof, Eof, Some, scriptServerVars, callVars, wireVars, StateInv, WireTypes
  <2>2. Stream' = Stream
    BY <2>1 DEF Stream, Received
  <2>3. (Owed => Owed') /\ (Unread => Unread')
    BY <2>1, <2>2 DEF Owed, Unread, Quiet
  <2>4. QED
    BY <2>1, <2>3 DEF StepInv, Idle
<1>3. CASE PumpWrite /\ UNCHANGED << scriptServerVars, callVars >>
  <2>1. /\ out = "WantsWrite" /\ out' = "Run" /\ UNCHANGED << net, buf, served, open, call, calls, told >>
        /\ arg'.data = <<>> /\ inbox' = Append(inbox, msg)
    BY <1>3 DEF PumpWrite, None, scriptServerVars, callVars
  <2>2. /\ served.n # calls /\ inbox = <<>> /\ buf = <<>> /\ Quiet(net) /\ net \in Seq(Piece)
        /\ msg = [n |-> calls, call |-> call]
    BY <2>1 DEF StepInv, StateInv, CallTypes, WireTypes
  <2>3. inbox' = << [n |-> calls, call |-> call] >>
    BY <2>1, <2>2
  <2>4. Received' = <<>>
    <3>1. <<>> \o <<>> = <<>>
      BY ConcatEmptySeq, EmptySeq
    <3>2. QED
      BY <2>1, <2>2, <3>1 DEF Received
  <2>5. Stream' = net
    BY <2>1, <2>2, <2>4, ThenNothing DEF Stream
  <2>6. Owed'
    BY <2>1, <2>2, <2>3, <2>5 DEF Owed, Quiet
  <2>7. QED
    BY <2>1, <2>6 DEF StepInv, Idle
<1>4. CASE PumpBreaks
  <2>1. /\ out' = "Broken" /\ told'.outcome = "io" /\ told'.values = {} /\ UNCHANGED inbox
        /\ out \in {"WantsRead", "WantsWrite"}
    BY <1>4 DEF PumpBreaks, PumpFail, Yields, wireVars, StateInv, CallTypes
  <2>2. inbox = <<>> \/ Len(inbox) = 1
    BY <2>1 DEF StepInv, Owed, Unread
  <2>3. QED
    BY <2>1, <2>2 DEF StepInv, Idle
<1>5. QED
  BY <1>1, <1>2, <1>3, <1>4 DEF PumpWorks


\* Only what is meant for the command is an answer to it.
LEMMA ServesFits ==
  ASSUME NEW c, NEW reply, Serves(c, reply)
  PROVE  Fits(c, reply)
BY DEF Serves, Fits, Replies, Refusals, Answer

\* What the server says comes after all it said before.
LEMMA StreamGrows ==
  ASSUME StateInv, UNCHANGED << buf, arg >>, NEW z \in Seq(Piece), net' = Then(net, z)
  PROVE  Stream' = Then(Stream, z)
<1>1. Received \in Seq(Piece) /\ net \in Seq(Piece)
  BY StreamTypes
<1>2. Received' = Received
  BY DEF Received
<1>3. Then(Received, Then(net, z)) = Then(Then(Received, net), z)
  BY <1>1, ThenThen
<1>4. QED
  BY <1>2, <1>3 DEF Stream

LEMMA PeerStep ==
  ASSUME StateInv, StepInv, Peer, UNCHANGED callVars
  PROVE  StepInv'
<1>1. /\ UNCHANGED << out, arg, buf, call, calls, told >>
      /\ net \in Seq(Piece) /\ Stream \in Seq(Piece)
  BY ServerLeaves, StreamTypes DEF callVars
<1>2. inbox = <<>> \/ Len(inbox) = 1
  BY DEF StepInv, Owed, Unread, Idle, StateInv, CallTypes
<1>3. CASE ServerAnswers
  <2>1. /\ inbox # <<>> /\ open /\ inbox' = Tail(inbox)
        /\ inbox \in Seq([n : 1..calls, call : Calls])
    BY <1>3, ServerServes DEF StateInv, ServerTypes
  <2>2. inbox' = <<>>
    BY <1>2, <2>1
  <2>3. out # "WantsWrite" /\ ~(Idle /\ told.outcome \in {"none", "ok", "no"})
    BY <2>1 DEF StepInv
  <2>4. ASSUME out \in {"Run", "WantsRead"}
        PROVE  Unread'
    <3>1. Owed
      BY <2>1, <2>4 DEF StepInv, Unread
    <3>2. Stream = <<>> /\ inbox = << [n |-> calls, call |-> call] >>
      BY <2>1, <3>1 DEF Owed, Quiet
    <3>3. Head(inbox).n = calls /\ Head(inbox).call = call
      BY <3>2
    <3>4. PICK reply \in Answered : \E e \in Seq(reply.lines) : \E cuts \in Pieces(e) :
              /\ reply.lines = {e[i] : i \in 1..Len(e)}
              /\ Serves(call, reply)
              /\ served' = [n |-> calls, reply |-> reply]
              /\ net' = Then(net, Framed(calls, e, reply, cuts))
      BY <1>3, <3>3, ServerServes
    <3>5a. PICK e \in Seq(reply.lines) : \E cuts \in Pieces(e) :
              /\ reply.lines = {e[i] : i \in 1..Len(e)}
              /\ Serves(call, reply)
              /\ served' = [n |-> calls, reply |-> reply]
              /\ net' = Then(net, Framed(calls, e, reply, cuts))
      BY <3>4
    <3>5. PICK cuts \in Pieces(e) :
              /\ reply.lines = {e[i] : i \in 1..Len(e)}
              /\ Serves(call, reply)
              /\ served' = [n |-> calls, reply |-> reply]
              /\ net' = Then(net, Framed(calls, e, reply, cuts))
      BY <3>5a
    <3>6. Framed(calls, e, reply, cuts) \in Seq(Piece)
      BY FramedType DEF StateInv, CallTypes
    <3> DEFINE f == Framed(calls, e, reply, cuts)
    <3>7. f \in Seq(Piece) /\ net' = Then(net, f)
      BY <3>5, <3>6
    <3> HIDE DEF f
    <3>8. Stream' = f
      BY <1>1, <3>2, <3>7, StreamGrows, ThenNothing
    <3>9. Fits(call, reply)
      BY <3>5, ServesFits
    <3>10. f = Then(f, <<>>) /\ <<>> \in Farewells
      BY <3>7, ThenNothing, NoFarewell
    <3>11. served'.n = calls' /\ served'.reply = reply
      BY <1>1, <3>5
    <3>12. Stream' = Then(Framed(calls', e, served'.reply, cuts), <<>>)
      BY <1>1, <3>8, <3>10, <3>11 DEF f
    <3>13. QED
      BY <1>1, <2>2, <3>5, <3>9, <3>10, <3>11, <3>12 DEF Unread
  <2>5. QED
    BY <1>1, <2>2, <2>3, <2>4 DEF StepInv, Idle
<1>4. ASSUME NEW z \in Farewells, net' = Then(net, z) \/ (net' = net /\ z = <<>>),
             open, open' = FALSE, UNCHANGED << served, inbox >>
      PROVE  StepInv'
  <2>1. z \in Seq(Piece)
    BY FarewellsArePieces
  <2>2. net' = Then(net, z)
    BY <1>1, <1>4, ThenNothing
  <2>3. Stream' = Then(Stream, z)
    BY <1>1, <2>1, <2>2, StreamGrows
  <2>4. Quiet(net) => Quiet(net)'
    BY <1>4, <2>1, <2>2, ThenNothing DEF Quiet
  <2>5. Quiet(Stream) => Quiet(Stream)'
    BY <1>4, <2>1, <2>3, ThenNothing DEF Quiet
  <2>6. Owed => Owed'
    BY <1>1, <1>4, <2>5 DEF Owed
  <2>7. ASSUME Unread
        PROVE  Unread'
    <3>1a. PICK e \in Seq(served.reply.lines) : \E cuts \in Pieces(e) :
              /\ served.reply.lines = {e[i] : i \in 1..Len(e)}
              /\ Stream = Then(Framed(calls, e, served.reply, cuts), <<>>)
      BY <1>4, <2>7 DEF Unread
    <3>1. PICK cuts \in Pieces(e) :
              /\ served.reply.lines = {e[i] : i \in 1..Len(e)}
              /\ Stream = Then(Framed(calls, e, served.reply, cuts), <<>>)
      BY <3>1a
    <3>2. Framed(calls, e, served.reply, cuts) \in Seq(Piece)
      <4>1. calls \in Nat /\ served.reply \in Answered
        BY <2>7 DEF Unread, StateInv, CallTypes
      <4>2. QED
        BY <4>1, FramedType
    <3>3. Stream' = Then(Framed(calls, e, served.reply, cuts), z)
      BY <2>3, <3>1, <3>2, ThenNothing
    <3>4. QED
      BY <1>1, <1>4, <2>7, <3>1, <3>3 DEF Unread
  <2>8. QED
    BY <1>1, <1>4, <2>4, <2>6, <2>7 DEF StepInv, Idle
<1>5. CASE ~open /\ inbox # <<>> /\ inbox' = <<>> /\ UNCHANGED << served, open, net >>
  <2>1. Stream' = Stream
    BY <1>1, <1>5 DEF Stream, Received
  <2>2. Owed => Owed'
    BY <1>1, <1>5, <2>1 DEF Owed, Quiet
  <2>3. ~Unread
    BY <1>5 DEF Unread
  <2>4. QED
    BY <1>1, <1>5, <2>2, <2>3 DEF StepInv, Idle, Quiet
<1>6. CASE UNCHANGED << served, open, net, inbox >>
  <2>1. Stream' = Stream
    BY <1>1, <1>6 DEF Stream, Received
  <2>2. (Owed => Owed') /\ (Unread => Unread')
    BY <1>1, <1>6, <2>1 DEF Owed, Unread, Quiet
  <2>3. QED
    BY <1>1, <1>6, <2>2 DEF StepInv, Idle, Quiet
<1>7. /\ <<>> \in Farewells
      /\ \A cut \in Texts : Frame(LineOf(0, "bye", Plain("none"), cut)) \in Farewells
  BY NoFarewell, FarewellType
<1>8. QED
  BY <1>3, <1>4, <1>5, <1>6, <1>7, ServerLeaves, LateType

LEMMA StutterStep ==
  ASSUME StateInv, StepInv, UNCHANGED vars
  PROVE  StepInv'
<1>1. /\ UNCHANGED << out, told, calls, call, served, open, net, inbox, buf, arg >>
  BY DEF vars, exchangeVars, coroutineVars, wireVars, scriptServerVars, callVars
<1>2. Stream' = Stream
  BY <1>1 DEF Stream, Received
<1>3. (Owed => Owed') /\ (Unread => Unread')
  BY <1>1, <1>2 DEF Owed, Unread, Quiet
<1>4. QED
  BY <1>1, <1>3 DEF StepInv, Idle, Quiet

LEMMA CommandsStep == ASSUME ~Reuse PROVE Spec => []StepInv
<1>1. StateInv /\ StepInv /\ [Next]_vars => StepInv'
  BY IssueStep, ResumeStep, PumpStep, PeerStep, StutterStep DEF Next, Finished
<1>2. QED
  BY <1>1, InitStep, CommandsState, PTL DEF Spec

\* Every variable of a client that replaces its stream when a call failed stays
\* in its type, and every value it is told is a whole name, body or code.
THEOREM CommandsTypeOK == ASSUME ~Reuse PROVE Spec => []TypeOK
<1>1. StateInv /\ StepInv => TypeOK
  <2>1. ASSUME StateInv
        PROVE  /\ Len(late) \in Nat /\ Len(inbox) \in Nat
               /\ DOMAIN inbox = 1..Len(inbox)
    BY <2>1, LenProperties DEF StateInv, ServerTypes
  <2>2. ASSUME StateInv
        PROVE  \A i \in DOMAIN inbox : inbox[i] \in [n : 1..calls, call : Calls]
    BY <2>1, <2>2, ElementOfSeq DEF StateInv, ServerTypes
  <2>3. ASSUME StateInv
        PROVE  Len(late) <= MaxCalls
    BY <2>1, <2>3, CallsAssumption DEF StateInv, ServerTypes, CallTypes
  <2>4. ASSUME StateInv
        PROVE  \A i \in DOMAIN inbox : inbox[i].n \in 1..calls /\ inbox[i].call \in Calls
    BY <2>2, <2>4
  <2>5. ASSUME StateInv
        PROVE  served.n \in 0..MaxCalls /\ served.reply.lines \subseteq Entry
    BY <2>5, CallsAssumption DEF StateInv, ServerTypes, CallTypes, Reply
  <2>6. ASSUME StateInv
        PROVE  /\ out \in Outs \ {"WantsConnect", "WantsTlsUpgrade"}
               /\ told.outcome \in {"none", "io", "missingscript"} \cup Failures \cup Statuses
    BY <2>6 DEF StateInv, CallTypes, Outs, Yields, Outcomes
  <2>7. QED
    BY <2>3, <2>4, <2>5, <2>6 DEF TypeOK, StepInv, StateInv, ServerTypes
<1>2. QED
  BY <1>1, CommandsState, CommandsStep, PTL


-----------------------------------------------------------------------------
(* The refinement: every step is one the abstract store takes, or none.     *)

LEMMA RemoveParts ==
  ASSUME NEW s, NEW i
  PROVE  RemoveAt(s, i) = Then(SubSeq(s, 1, i - 1), SubSeq(s, i + 1, Len(s)))
BY DEF RemoveAt, Then

\* Removing an element leaves what comes behind the sequence behind it.
LEMMA RemoveBefore ==
  ASSUME NEW S, NEW a \in Seq(S), NEW z \in Seq(S), NEW i \in 1..Len(a)
  PROVE  /\ i \in DOMAIN Then(a, z) /\ Then(a, z)[i] = a[i]
         /\ RemoveAt(Then(a, z), i) = Then(RemoveAt(a, i), z)
<1> DEFINE s == Then(a, z)
           f == SubSeq(a, 1, i)
           rest == SubSeq(a, i + 1, Len(a))
           head == SubSeq(a, 1, i - 1)
<1>1. /\ Len(a) \in Nat /\ Len(z) \in Nat /\ i \in Nat /\ i <= Len(a)
      /\ s \in Seq(S) /\ Len(s) = Len(a) + Len(z) /\ DOMAIN s = 1..Len(s)
      /\ \A j \in 1..Len(a) : s[j] = a[j]
  <2>1. Len(a) \in Nat /\ Len(z) \in Nat
    BY LenProperties
  <2>2. /\ s \in Seq(S) /\ Len(s) = Len(a) + Len(z)
        /\ \A j \in 1..(Len(a) + Len(z)) : s[j] = IF j <= Len(a) THEN a[j] ELSE z[j - Len(a)]
    BY ConcatProperties DEF Then
  <2> HIDE DEF s
  <2>3. DOMAIN s = 1..Len(s)
    BY <2>2, LenProperties
  <2>4. \A j \in 1..Len(a) : j \in 1..(Len(a) + Len(z)) /\ j <= Len(a)
    BY <2>1
  <2>5. QED
    BY <2>1, <2>2, <2>3, <2>4
<1>2. /\ \A j \in 1..Len(a) : a[j] \in S
      /\ f \in Seq(S) /\ Len(f) = i
      /\ rest \in Seq(S)
      /\ head \in Seq(S) /\ Len(head) = i - 1 /\ \A j \in 1..(i - 1) : head[j] = a[j]
  <2>1. \A j \in 1..Len(a) : a[j] \in S
    BY ElementOfSeq
  <2>2. f \in Seq(S) /\ Len(f) = i
    BY <1>1, <2>1, SubSeqProperties
  <2>3. rest \in Seq(S)
    BY <1>1, <2>1, SubSeqProperties
  <2>4. head \in Seq(S) /\ Len(head) = IF 1 <= i - 1 THEN (i - 1) - 1 + 1 ELSE 0
    BY <1>1, <2>1, SubSeqProperties
  <2>5. \A j \in 1..(i - 1) : head[j] = a[j]
    <3>1. \A j \in 1..((i - 1) - 1 + 1) : head[j] = a[1 + j - 1]
      BY <1>1, <2>1, SubSeqProperties
    <3> HIDE DEF head
    <3>2. QED
      BY <1>1, <3>1
  <2>6. QED
    BY <1>1, <2>1, <2>2, <2>3, <2>4, <2>5
<1>3. a = Then(f, rest)
  BY <1>1, ConcatAdjacentSubSeq, SubSeqFull DEF Then
<1> HIDE DEF f, rest, head
<1>4. s = Then(f, Then(rest, z)) /\ Then(rest, z) \in Seq(S)
  BY <1>2, <1>3, ThenThen, ThenType DEF s
<1> HIDE DEF s
<1>5. SubSeq(s, i + 1, Len(s)) = Then(rest, z)
  <2>1. Then(s, <<>>) = Then(f, Then(rest, z)) /\ <<>> \in Seq(S) /\ Len(f) <= Len(s)
    BY <1>1, <1>2, <1>4, ThenNothing, EmptySeq
  <2> DEFINE behind == Then(rest, z)
             none == <<>>
  <2>2. /\ s \in Seq(S) /\ f \in Seq(S) /\ none \in Seq(S) /\ behind \in Seq(S)
        /\ Then(s, none) = Then(f, behind) /\ Len(f) <= Len(s)
    BY <1>1, <1>2, <1>4, <2>1
  <2> HIDE DEF behind, none
  <2>3. /\ SubSeq(s, Len(f) + 1, Len(s)) \in Seq(S)
        /\ Then(SubSeq(s, Len(f) + 1, Len(s)), none) = behind
    BY <2>2, PrefixTaken
  <2>4. QED
    BY <1>2, <2>3, ThenNothing DEF behind, none
<1>6. SubSeq(s, 1, i - 1) = head
  <2> DEFINE cut == SubSeq(s, 1, i - 1)
  <2>1. i - 1 \in Int /\ \A j \in 1..(i - 1) : s[j] \in S /\ s[j] = a[j]
    <3>1. i - 1 \in Int /\ \A j \in 1..(i - 1) : j \in 1..Len(a)
      BY <1>1
    <3>2. QED
      BY <1>1, <1>2, <3>1
  <2>2. /\ cut \in Seq(S) /\ Len(cut) = IF 1 <= i - 1 THEN (i - 1) - 1 + 1 ELSE 0
        /\ \A j \in 1..((i - 1) - 1 + 1) : cut[j] = s[1 + j - 1]
    BY <2>1, SubSeqProperties
  <2> HIDE DEF cut
  <2>3. Len(cut) = i - 1 /\ \A j \in 1..(i - 1) : cut[j] = s[j]
    BY <1>1, <2>2
  <2>4. Len(cut) = Len(head) /\ \A j \in 1..Len(cut) : cut[j] = head[j]
    BY <1>2, <2>1, <2>3
  <2>5. cut = head
    BY <1>2, <2>2, <2>4, SeqEqual
  <2>6. QED
    BY <2>5 DEF cut
<1>7. RemoveAt(s, i) = Then(head, Then(rest, z))
  BY <1>5, <1>6, RemoveParts
<1>8. RemoveAt(a, i) = Then(head, rest)
  BY RemoveParts DEF head, rest
<1>9. RemoveAt(s, i) = Then(RemoveAt(a, i), z)
  BY <1>2, <1>7, <1>8, ThenThen
<1>10. i \in DOMAIN s /\ s[i] = a[i]
  BY <1>1
<1>11. QED
  BY <1>9, <1>10 DEF s

LEMMA RemoveLast ==
  ASSUME NEW S, NEW a \in Seq(S), NEW x \in S
  PROVE  LET i == Len(a) + 1 IN
         /\ i \in DOMAIN Then(a, << x >>) /\ Then(a, << x >>)[i] = x
         /\ RemoveAt(Then(a, << x >>), i) = a
<1> DEFINE s == Then(a, << x >>)
<1>1. Len(a) \in Nat /\ << x >> \in Seq(S) /\ Len(<< x >>) = 1
  BY LenProperties
<1>2. /\ s \in Seq(S) /\ Len(s) = Len(a) + 1
      /\ \A j \in 1..(Len(a) + 1) : s[j] = IF j <= Len(a) THEN a[j] ELSE << x >>[j - Len(a)]
  BY <1>1, ConcatProperties DEF Then
<1> HIDE DEF s
<1>3. DOMAIN s = 1..(Len(a) + 1) /\ s[Len(a) + 1] = x
  <2>1. DOMAIN s = 1..(Len(a) + 1)
    BY <1>2, LenProperties
  <2>2. Len(a) + 1 \in 1..(Len(a) + 1) /\ ~(Len(a) + 1 <= Len(a)) /\ Len(a) + 1 - Len(a) = 1
    BY <1>1
  <2>3. s[Len(a) + 1] = << x >>[1]
    BY <1>2, <2>2
  <2>4. QED
    BY <2>1, <2>3
<1>4. SubSeq(s, Len(a) + 2, Len(s)) = <<>>
  BY <1>1, <1>2, SubSeqEmpty
<1>5. SubSeq(s, 1, Len(a)) = a
  <2> DEFINE cut == SubSeq(s, 1, Len(a))
  <2>1. \A j \in 1..Len(a) : s[j] \in S /\ s[j] = a[j]
    <3>1. \A j \in 1..Len(a) : j \in 1..(Len(a) + 1) /\ j <= Len(a)
      BY <1>1
    <3>2. QED
      BY <1>2, <3>1, ElementOfSeq
  <2>2. /\ cut \in Seq(S) /\ Len(cut) = (IF 1 <= Len(a) THEN Len(a) - 1 + 1 ELSE 0)
        /\ \A j \in 1..(Len(a) - 1 + 1) : cut[j] = s[1 + j - 1]
    BY <1>1, <2>1, SubSeqProperties
  <2> HIDE DEF cut
  <2>3. Len(cut) = Len(a)
    BY <1>1, <2>2
  <2>4. \A j \in 1..Len(a) : j \in 1..(Len(a) - 1 + 1) /\ 1 + j - 1 = j
    BY <1>1
  <2>5. \A j \in 1..Len(a) : cut[j] = a[j]
    BY <2>1, <2>2, <2>4
  <2>6. cut = a
    BY <2>2, <2>3, <2>5, SeqEqual
  <2>7. QED
    BY <2>6 DEF cut
<1>6. Len(a) + 1 - 1 = Len(a) /\ Len(a) + 1 + 1 = Len(a) + 2
  BY <1>1
<1>7. RemoveAt(s, Len(a) + 1) = Then(a, <<>>)
  <2>1. RemoveAt(s, Len(a) + 1) = Then(SubSeq(s, 1, Len(a) + 1 - 1), SubSeq(s, Len(a) + 1 + 1, Len(s)))
    BY RemoveParts
  <2>2. QED
    BY <1>4, <1>5, <1>6, <2>1
<1>8. Len(a) + 1 \in DOMAIN s /\ RemoveAt(s, Len(a) + 1) = a
  BY <1>1, <1>3, <1>7, ThenNothing
<1>9. QED
  BY <1>3, <1>8 DEF s

\* The two sides speak of the same scripts.
LEMMA SameScripts ==
  /\ StoreOf!Store = Store /\ StoreOf!NoReply = NoReply /\ StoreOf!Untold = Untold
  /\ \A s, c : StoreOf!Allowed(s, c) <=> Allowed(s, c)
  /\ \A s, c : StoreOf!Applied(s, c) = Applied(s, c)
  /\ \A s, c : StoreOf!Replies(s, c) = Replies(s, c)
  /\ \A s, c : StoreOf!Refusals(s, c) = Refusals(s, c)
<1>1. StoreOf!NoReply = NoReply /\ StoreOf!Untold = Untold
  BY DEF StoreOf!NoReply, NoReply, StoreOf!Untold, Untold
<1>2. StoreOf!Store = Store
  BY DEF StoreOf!Store, Store, StoreOf!NoName, NoName, StoreOf!Missing, Missing
<1>3. StoreOf!Codes = Codes
  BY DEF StoreOf!Codes, Codes, StoreOf!FixedCodes, FixedCodes
<1>4. \A s, c : StoreOf!Reasons(s, c) = Reasons(s, c)
  BY <1>3 DEF StoreOf!Reasons, Reasons, StoreOf!Stored, Stored, StoreOf!NoName, NoName,
              StoreOf!Missing, Missing
<1>5. \A s, c : StoreOf!Allowed(s, c) <=> Allowed(s, c)
  BY <1>4 DEF StoreOf!Allowed, Allowed
<1>6. \A s, c : StoreOf!Applied(s, c) = Applied(s, c)
  BY DEF StoreOf!Applied, Applied, StoreOf!Missing, Missing
<1>7. \A s, c : StoreOf!Answer(s, c) = Answer(s, c)
  BY DEF StoreOf!Answer, Answer, StoreOf!Stored, Stored, StoreOf!Missing, Missing,
         StoreOf!Plain, Plain
<1>8. \A s, c : StoreOf!OkCodes(c) = OkCodes(c)
  BY DEF StoreOf!OkCodes, OkCodes, StoreOf!NoName, NoName
<1>9. \A s, c : StoreOf!Replies(s, c) = Replies(s, c)
  BY <1>7, <1>8 DEF StoreOf!Replies, Replies
<1>10. \A s, c : StoreOf!Refusals(s, c) = Refusals(s, c)
  BY <1>4 DEF StoreOf!Refusals, Refusals
<1>11. QED
  BY <1>1, <1>2, <1>5, <1>6, <1>9, <1>10

\* What the abstract store is told is what Told says.
LEMMA SameValues ==
  ASSUME Phase = "served"
  PROVE  [outcome |-> served.reply.status, values |-> StoreOf!Values] = Told(call, served.reply)
BY DEF StoreOf!Values, Told, StoreOf!Plain, Plain

\* The commands left in an inbox.
CallsOf(box) == [i \in DOMAIN box |-> box[i].call]

LEMMA CallsOfBox ==
  /\ CallsOf(<<>>) = <<>>
  /\ \A m : CallsOf(<< m >>) = << m.call >>
BY DEF CallsOf

\* The commands given up on that may still be served.
GivenUp == Then(late, IF Idle THEN CallsOf(inbox) ELSE <<>>)

Shown == IF Phase = "served" THEN served.reply ELSE NoReply

LEMMA GivenUpBusy ==
  ASSUME StateInv, ~Idle
  PROVE  GivenUp = late
BY ThenNothing DEF GivenUp, StateInv, ServerTypes

\* A call that ends without an answer of its own.
LEMMA EndIsLose ==
  ASSUME StateInv, StepInv, StateInv', ~Idle, out' \in {"Complete", "Broken"},
         told'.outcome \notin {"none", "ok", "no"},
         UNCHANGED << store, call, calls, served, inbox, late >>
  PROVE  StoreOf!Lose
<1>1. Phase # "idle" /\ Phase' = "idle" /\ Shown' = NoReply
  BY DEF Phase, Idle, Shown
<1>2. GivenUp = late /\ late \in Seq(Calls)
  BY GivenUpBusy DEF StateInv, ServerTypes
<1>3. GivenUp' = Then(late, CallsOf(inbox))
  BY DEF GivenUp, Idle
<1>4. CASE inbox = <<>>
  <2>1. GivenUp' = GivenUp
    BY <1>2, <1>3, <1>4, CallsOfBox, ThenNothing
  <2>2. QED
    BY <1>1, <2>1, SameScripts DEF StoreOf!Lose, GivenUp, Shown, Then, CallsOf
<1>5. CASE inbox # <<>>
  <2>1. inbox = << [n |-> calls, call |-> call] >> /\ served.n # calls
    BY <1>5 DEF StepInv, Owed, Unread, Idle, StateInv, CallTypes
  <2>2. Phase = "called"
    BY <2>1 DEF Phase
  <2>3. GivenUp' = Then(late, << call >>)
    BY <1>3, <2>1, CallsOfBox
  <2>4. Then(late, << call >>) = Append(late, call)
    BY <1>2 DEF Then, StateInv, CallTypes
  <2>5. QED
    BY <1>1, <1>2, <2>2, <2>3, <2>4, SameScripts DEF StoreOf!Lose, GivenUp, Shown, Then, CallsOf
<1>6. QED
  BY <1>4, <1>5

LEMMA InitStore == Init => StoreOf!Init
<1> SUFFICES ASSUME Init PROVE StoreOf!Init
  OBVIOUS
<1>1. Phase = "idle" /\ Shown = NoReply
  BY DEF Init, Phase, Idle, Shown
<1>2. GivenUp = <<>>
  <2>1. late = <<>> /\ inbox = <<>>
    BY DEF Init
  <2>2. <<>> \in Seq(Calls)
    BY EmptySeq
  <2>3. QED
    BY <2>1, <2>2, CallsOfBox, ThenNothing DEF GivenUp
<1>3. call \in Calls
  BY CallsAssumption DEF Init
<1>4. QED
  BY <1>1, <1>2, <1>3, SameScripts DEF StoreOf!Init, Init, GivenUp, Shown, Then, CallsOf

LEMMA IssueStore ==
  ASSUME ~Reuse, StateInv, StepInv, StateInv', NEW c \in Calls, Issue(c)
  PROVE  StoreOf!Issue
<1>1. /\ Idle /\ out' = "WantsWrite" /\ told' = Untold /\ call' = c /\ calls' = calls + 1
      /\ served' = served /\ store' = store
  BY DEF Issue, WantsWrite
<1>2. served.n \in 0..calls /\ calls \in Nat
  BY DEF StateInv, ServerTypes, CallTypes
<1>3. Phase = "idle" /\ Phase' = "called" /\ Shown = NoReply /\ Shown' = NoReply
  BY <1>1, <1>2 DEF Phase, Idle, Shown
<1>4. late \in Seq(Calls) /\ late' \in Seq(Calls) /\ ~Idle'
  BY <1>1 DEF StateInv, ServerTypes, Idle
<1>5. GivenUp' = late'
  BY <1>4, ThenNothing DEF GivenUp
<1>6. GivenUp = late'
  <2>1. CASE OnThisStream
    <3>1. inbox = <<>> /\ late' = late
      BY <1>1, <2>1 DEF OnThisStream, Usable, StepInv
    <3>2. QED
      BY <1>1, <1>4, <3>1, CallsOfBox, ThenNothing DEF GivenUp
  <2>2. CASE OnNewStream
    BY <1>1, <2>2 DEF OnNewStream, GivenUp, Then, CallsOf
  <2>3. QED
    BY <2>1, <2>2 DEF Issue
<1>7. QED
  BY <1>1, <1>3, <1>5, <1>6, SameScripts DEF StoreOf!Issue, GivenUp, Shown, Then, CallsOf

\* What leaves both the caller and the server where they are.
LEMMA BusyStutters ==
  ASSUME StateInv, StateInv', ~Idle, out' \notin {"Complete", "Broken"},
         UNCHANGED << store, call, calls, told, served, late >>
  PROVE  UNCHANGED StoreOf!vars
<1>1. Phase' = Phase /\ Shown' = Shown /\ ~Idle'
  BY DEF Phase, Idle, Shown
<1>2. GivenUp = late /\ GivenUp' = late
  BY <1>1, ThenNothing DEF GivenUp, StateInv, ServerTypes
<1>3. QED
  BY <1>1, <1>2, SameScripts DEF StoreOf!vars, GivenUp, Shown, Then, CallsOf

LEMMA ResumeStore ==
  ASSUME StateInv, StepInv, StateInv', Resume
  PROVE  [StoreOf!Next]_(StoreOf!vars)
<1>1. /\ out = "Run" /\ ~Idle /\ (Owed \/ Unread)
      /\ UNCHANGED << store, call, calls, served, inbox, late >>
      /\ \/ ReadMore /\ out' = "WantsRead" /\ UNCHANGED told
         \/ out' = "Complete" /\ told'.outcome \in {"eof", "toolarge", "parse"}
         \/ out' = "Complete" /\ Responded /\ (Rejected \/ RawReturned \/ Accepted)
  BY ResumeLeaves DEF StepInv, wireVars, scriptServerVars, Idle
<1>2. CASE out' = "WantsRead" /\ UNCHANGED told
  BY <1>1, <1>2, BusyStutters
<1>3. CASE out' = "Complete" /\ told'.outcome \in {"eof", "toolarge", "parse"}
  BY <1>1, <1>3, EndIsLose DEF StoreOf!Next
<1>4. CASE out' = "Complete" /\ Responded /\ (Rejected \/ RawReturned \/ Accepted)
  <2>1. CASE Owed
    BY <1>1, <1>4, <2>1, FarewellTold, EndIsLose DEF StoreOf!Next
  <2>2. CASE Unread
    <3>1. told' = Told(call, served.reply)
      BY <1>4, <2>2, AnswerTold
    <3>2. inbox = <<>> /\ served.n = calls
      BY <2>2 DEF Unread
    <3>3. Phase = "served" /\ Phase' = "idle" /\ Shown = served.reply /\ Shown' = NoReply
      BY <1>1, <1>4, <3>2 DEF Phase, Idle, Shown
    <3>4. GivenUp' = GivenUp
      <4>1. late \in Seq(Calls)
        BY DEF StateInv, ServerTypes
      <4>2. QED
        BY <1>1, <3>2, <4>1, GivenUpBusy, CallsOfBox, ThenNothing DEF GivenUp
    <3>5. told' = [outcome |-> served.reply.status, values |-> StoreOf!Values]
      BY <3>1, <3>3, SameValues
    <3>6. StoreOf!Tell
      BY <1>1, <3>3, <3>4, <3>5, SameScripts DEF StoreOf!Tell, GivenUp, Shown, Then, CallsOf
    <3>7. QED
      BY <3>6 DEF StoreOf!Next
  <2>3. QED
    BY <1>1, <2>1, <2>2
<1>5. QED
  BY <1>1, <1>2, <1>3, <1>4

LEMMA PumpStore ==
  ASSUME StateInv, StepInv, StateInv', PumpWorks \/ PumpBreaks
  PROVE  [StoreOf!Next]_(StoreOf!vars)
<1>1. CASE PumpWorks
  <2>1. /\ out \in {"WantsRead", "WantsWrite"} /\ out' = "Run"
        /\ UNCHANGED << store, call, calls, told, served, late >>
    BY <1>1 DEF PumpWorks, PumpRead, PumpEof, PumpWrite, scriptServerVars, callVars
  <2>2. QED
    BY <2>1, BusyStutters DEF Idle
<1>2. CASE PumpBreaks
  <2>1. /\ out \in {"WantsRead", "WantsWrite"} /\ out' = "Broken" /\ told'.outcome = "io"
        /\ UNCHANGED << store, call, calls, served, inbox, late >>
    BY <1>2 DEF PumpBreaks, PumpFail, Yields, wireVars, scriptServerVars, StateInv, CallTypes
  <2>2. QED
    BY <2>1, EndIsLose DEF StoreOf!Next, Idle
<1>3. QED
  BY <1>1, <1>2

LEMMA BoxOfOne ==
  ASSUME NEW S, NEW box \in Seq(S), Len(box) = 1
  PROVE  \E m \in S : box = << m >>
<1>1. box[1] \in S
  BY ElementOfSeq
<1>2. << box[1] >> \in Seq(S) /\ Len(<< box[1] >>) = 1 /\ << box[1] >>[1] = box[1]
  BY <1>1
<1>3. \A i \in 1..Len(box) : box[i] = << box[1] >>[i]
  BY <1>2
<1>4. box = << box[1] >>
  BY <1>2, <1>3, SeqEqual
<1>5. QED
  BY <1>1, <1>4

LEMMA PeerStore ==
  ASSUME StateInv, StepInv, StateInv', Peer, UNCHANGED callVars
  PROVE  [StoreOf!Next]_(StoreOf!vars)
<1>1. UNCHANGED << out, call, calls, told >>
  BY ServerLeaves DEF callVars
<1>2. /\ late \in Seq(Calls) /\ late' \in Seq(Calls)
      /\ inbox \in Seq([n : 1..calls, call : Calls])
      /\ inbox = <<>> \/ Len(inbox) = 1
  BY DEF StateInv, ServerTypes, StepInv, Owed, Unread, Idle, CallTypes
<1>3. Idle' = Idle
  BY <1>1 DEF Idle
<1>4. ASSUME inbox # <<>>, inbox' = <<>>, Idle, UNCHANGED << late >>,
             \/ UNCHANGED store
             \/ Allowed(store, Head(inbox).call) /\ store' = Applied(store, Head(inbox).call)
      PROVE  StoreOf!ServeLate
  <2>1. PICK m \in [n : 1..calls, call : Calls] : inbox = << m >>
    <3>1. Len(inbox) = 1
      BY <1>2, <1>4
    <3>2. QED
      BY <1>2, <3>1, BoxOfOne
  <2>2. m.call \in Calls /\ Head(inbox) = m
    BY <2>1
  <2>3. GivenUp = Then(late, << m.call >>)
    BY <1>4, <2>1, CallsOfBox DEF GivenUp
  <2>4. GivenUp' = late
    BY <1>2, <1>3, <1>4, CallsOfBox, ThenNothing DEF GivenUp
  <2>5. /\ Len(late) + 1 \in DOMAIN GivenUp /\ GivenUp[Len(late) + 1] = m.call
        /\ RemoveAt(GivenUp, Len(late) + 1) = GivenUp'
    BY <1>2, <2>2, <2>3, <2>4, RemoveLast
  <2>6. \E i \in DOMAIN GivenUp :
           /\ \/ UNCHANGED store
              \/ Allowed(store, GivenUp[i]) /\ store' = Applied(store, GivenUp[i])
           /\ GivenUp' = RemoveAt(GivenUp, i)
    BY <1>4, <2>2, <2>5
  <2>7. Phase = "idle" /\ Phase' = "idle" /\ Shown' = Shown
    BY <1>3, <1>4 DEF Phase, Shown
  <2>8. QED
    BY <1>1, <2>6, <2>7, SameScripts
       DEF StoreOf!ServeLate, StoreOf!RemoveAt, RemoveAt, GivenUp, Shown, Then, CallsOf
<1>5. CASE ServerAnswers
  <2>1. /\ inbox # <<>> /\ inbox' = Tail(inbox) /\ late' = late
        /\ \E reply \in Answered :
             Serves(Head(inbox).call, reply) /\ served' = [n |-> Head(inbox).n, reply |-> reply]
    BY <1>5, ServerServes
  <2>2. inbox' = <<>>
    BY <1>2, <2>1
  <2>3. PICK reply : /\ Serves(Head(inbox).call, reply)
                     /\ served' = [n |-> Head(inbox).n, reply |-> reply]
    BY <2>1
  <2>4. CASE Idle
    BY <1>4, <2>1, <2>2, <2>3, <2>4 DEF Serves, StoreOf!Next
  <2>5. CASE ~Idle
    <3>1. inbox = << [n |-> calls, call |-> call] >> /\ served.n # calls
      BY <2>1, <2>5 DEF StepInv, Owed, Unread, Idle, StateInv, CallTypes
    <3>2. Head(inbox).call = call /\ Head(inbox).n = calls
      BY <3>1
    <3>3. Phase = "called" /\ Phase' = "served" /\ Shown' = reply
      BY <1>1, <1>3, <2>3, <2>5, <3>1, <3>2 DEF Phase, Shown
    <3>4. GivenUp' = GivenUp
      BY <1>2, <1>3, <2>1, <2>5, ThenNothing DEF GivenUp
    <3>5. Serves(call, reply)
      BY <2>3, <3>2
    <3>6. StoreOf!Accept \/ StoreOf!Refuse
      BY <1>1, <3>3, <3>4, <3>5, SameScripts
         DEF Serves, StoreOf!Accept, StoreOf!Refuse, GivenUp, Shown, Then, CallsOf
    <3>7. QED
      BY <3>6 DEF StoreOf!Next
  <2>6. QED
    BY <2>4, <2>5
<1>6. CASE ~open /\ inbox # <<>> /\ inbox' = <<>> /\ UNCHANGED << store, served, open, logged, late, net >>
  <2>1. CASE Idle
    BY <1>4, <1>6, <2>1 DEF StoreOf!Next
  <2>2. CASE ~Idle
    <3>1. out' \notin {"Complete", "Broken"}
      BY <1>1, <2>2 DEF Idle
    <3>2. QED
      BY <1>1, <1>6, <2>2, <3>1, BusyStutters
  <2>3. QED
    BY <2>1, <2>2
<1>7. CASE UNCHANGED << store, served, logged, late, inbox >>
  <2>1. Phase' = Phase /\ Shown' = Shown /\ GivenUp' = GivenUp
    BY <1>1, <1>3, <1>7 DEF Phase, Shown, GivenUp
  <2>2. QED
    BY <1>1, <1>7, <2>1, SameScripts DEF StoreOf!vars, GivenUp, Shown, Then, CallsOf
<1>8. CASE ServerLate
  <2>1. UNCHANGED << served, open, logged, net, inbox >>
    BY <1>8, LateType
  <2>2. PICK i \in 1..Len(late) :
          /\ late' = RemoveAt(late, i) /\ late[i] \in Call
          /\ \/ UNCHANGED store
             \/ Allowed(store, late[i]) /\ store' = Applied(store, late[i])
    BY <1>8, LateType
  <2> DEFINE z == IF Idle THEN CallsOf(inbox) ELSE <<>>
  <2>3. z \in Seq(Calls)
    <3>1. CASE inbox = <<>>
      BY <3>1, CallsOfBox, EmptySeq
    <3>2. CASE Len(inbox) = 1
      <4>1. PICK m \in [n : 1..calls, call : Calls] : inbox = << m >>
        BY <1>2, <3>2, BoxOfOne
      <4>2. CallsOf(inbox) = << m.call >> /\ m.call \in Calls
        BY <4>1, CallsOfBox
      <4>3. << m.call >> \in Seq(Calls) /\ <<>> \in Seq(Calls)
        BY <4>2, EmptySeq
      <4>4. QED
        BY <4>2, <4>3
    <3>3. QED
      BY <1>2, <3>1, <3>2
  <2>4. GivenUp = Then(late, z) /\ GivenUp' = Then(late', z)
    BY <1>3, <2>1 DEF GivenUp
  <2> HIDE DEF z
  <2>5. i \in DOMAIN GivenUp /\ GivenUp[i] = late[i] /\ GivenUp' = RemoveAt(GivenUp, i)
    BY <1>2, <2>2, <2>3, <2>4, RemoveBefore
  <2>6. \E j \in DOMAIN GivenUp :
           /\ \/ UNCHANGED store
              \/ Allowed(store, GivenUp[j]) /\ store' = Applied(store, GivenUp[j])
           /\ GivenUp' = RemoveAt(GivenUp, j)
    BY <2>2, <2>5
  <2>7. Phase' = Phase /\ Shown' = Shown
    BY <1>1, <1>3, <2>1 DEF Phase, Shown
  <2>8. StoreOf!ServeLate
    BY <1>1, <2>6, <2>7, SameScripts
       DEF StoreOf!ServeLate, StoreOf!RemoveAt, RemoveAt, GivenUp, Shown, Then, CallsOf
  <2>9. QED
    BY <2>8 DEF StoreOf!Next
<1>9. QED
  BY <1>5, <1>6, <1>7, <1>8, ServerLeaves

\* What the command methods promise of a caller that replaces its stream when a
\* call failed: the scripts change only by commands that were called, each at
\* most once, and a method returns the answer to its own command.
THEOREM CommandsImplementStore == ASSUME ~Reuse PROVE Spec => StoreSpec
<1>1. StateInv /\ StepInv /\ StateInv' /\ [Next]_vars => [StoreOf!Next]_(StoreOf!vars)
  <2> SUFFICES ASSUME StateInv, StepInv, StateInv', [Next]_vars
               PROVE  [StoreOf!Next]_(StoreOf!vars)
    OBVIOUS
  <2>1. CASE \E c \in Calls : Issue(c)
    BY <2>1, IssueStore DEF StoreOf!Next
  <2>2. CASE UNCHANGED vars
    BY <2>2 DEF vars, exchangeVars, coroutineVars, wireVars, scriptServerVars, callVars,
                StoreOf!vars, Phase, Idle
  <2>3. QED
    BY <2>1, <2>2, ResumeStore, PumpStore, PeerStore DEF Next, Finished
<1>2. QED
  BY <1>1, InitStore, CommandsState, CommandsStep, PTL DEF Spec, StoreSpec, StoreOf!Spec

-----------------------------------------------------------------------------
(* A stream used again after its read failed, with replies of several       *)
(* commands under way: what the echo of a tag of its own proves.            *)

\* Of units s, none answers a command after number top; an OK that carries a
\* tag answers a command that asked for it, and behind an OK come only answers
\* to later commands, and a goodbye.
Numbered(s, top, asked) ==
  /\ \A i \in 1..Len(s) :
       /\ s[i].of.on <= top
       /\ s[i].of.kind = "ok" /\ s[i].of.val \in Tags => << s[i].of.on, s[i].of.val >> \in asked
  /\ \A i \in 1..Len(s) : \A j \in 1..Len(s) :
       i < j /\ s[i].last /\ s[i].of.kind = "ok" => s[j].of.on = 0 \/ s[i].of.on < s[j].of.on

\* The elements of s are those of b and, behind them, those of n.
Joined(s, b, n) ==
  /\ Len(b) \in Nat /\ Len(n) \in Nat
  /\ \A i \in 1..Len(b) : i \in 1..Len(s) /\ s[i] = b[i]
  /\ \A i \in 1..Len(n) : Len(b) + i \in 1..Len(s) /\ s[Len(b) + i] = n[i]
  /\ \A k \in 1..Len(s) : k \in 1..Len(b) \/ \E i \in 1..Len(n) : k = Len(b) + i

LEMMA ThenElements ==
  ASSUME NEW S, NEW b \in Seq(S), NEW n \in Seq(S)
  PROVE  Joined(Then(b, n), b, n)
<1> DEFINE s == Then(b, n)
<1>1. Len(b) \in Nat /\ Len(n) \in Nat
  BY LenProperties
<1>2. /\ s \in Seq(S) /\ Len(s) = Len(b) + Len(n)
      /\ \A k \in 1..(Len(b) + Len(n)) : s[k] = IF k <= Len(b) THEN b[k] ELSE n[k - Len(b)]
  BY ConcatProperties DEF Then
<1> HIDE DEF s
<1>3. \A i \in 1..Len(b) : i \in 1..Len(s) /\ s[i] = b[i]
  <2>1. \A i \in 1..Len(b) : i \in 1..(Len(b) + Len(n)) /\ i <= Len(b)
    BY <1>1
  <2>2. QED
    BY <1>2, <2>1
<1>4. \A i \in 1..Len(n) : Len(b) + i \in 1..Len(s) /\ s[Len(b) + i] = n[i]
  <2>1. \A i \in 1..Len(n) : /\ Len(b) + i \in 1..(Len(b) + Len(n))
                             /\ ~(Len(b) + i <= Len(b)) /\ Len(b) + i - Len(b) = i
    BY <1>1
  <2>2. QED
    BY <1>2, <2>1
<1>5. \A k \in 1..Len(s) : k \in 1..Len(b) \/ \E i \in 1..Len(n) : k = Len(b) + i
  <2>1. \A k \in 1..(Len(b) + Len(n)) :
          k \in 1..Len(b) \/ (k - Len(b) \in 1..Len(n) /\ k = Len(b) + (k - Len(b)))
    BY <1>1
  <2>2. QED
    BY <1>2, <2>1
<1>6. Joined(s, b, n)
  BY <1>1, <1>3, <1>4, <1>5 DEF Joined
<1>7. QED
  BY <1>6 DEF s

LEMMA NumberedWider ==
  ASSUME NEW s \in Seq(Piece), NEW top \in Nat, NEW more \in Nat, top <= more,
         NEW asked, NEW wider, asked \subseteq wider, Numbered(s, top, asked)
  PROVE  Numbered(s, more, wider)
<1>1. \A i \in 1..Len(s) : s[i].of.on \in Nat
  <2>1. \A i \in 1..Len(s) : s[i] \in Piece
    BY ElementOfSeq
  <2>2. QED
    BY <2>1 DEF Piece, Said
<1>2. QED
  BY <1>1 DEF Numbered

LEMMA NumberedRest ==
  ASSUME NEW b \in Seq(Piece), NEW n \in Seq(Piece), NEW top, NEW asked,
         Numbered(Then(b, n), top, asked)
  PROVE  Numbered(n, top, asked)
<1> DEFINE s == Then(b, n)
<1>1. Joined(s, b, n) /\ Numbered(s, top, asked)
  BY ThenElements
<1> HIDE DEF s
<1>2. \A i \in 1..Len(n) : Len(b) + i \in 1..Len(s) /\ s[Len(b) + i] = n[i]
  BY <1>1 DEF Joined
<1>3. \A i \in 1..Len(n) : \A j \in 1..Len(n) : i < j => Len(b) + i < Len(b) + j
  BY <1>1 DEF Joined
<1>4. QED
  BY <1>1, <1>2, <1>3 DEF Numbered

\* Units that answer later commands, or none, go behind the others.
LEMMA NumberedThen ==
  ASSUME NEW s \in Seq(Piece), NEW z \in Seq(Piece), NEW top \in Nat, NEW more \in Nat, top <= more,
         NEW asked, Numbered(s, top, asked), Numbered(z, more, asked),
         \A i \in 1..Len(z) : z[i].of.on = 0 \/ top < z[i].of.on
  PROVE  Numbered(Then(s, z), more, asked)
<1> DEFINE w == Then(s, z)
<1>0. Joined(w, s, z)
  BY ThenElements
<1> HIDE DEF w
<1>1. /\ Len(s) \in Nat /\ Len(z) \in Nat
      /\ \A i \in 1..Len(s) : w[i] = s[i]
      /\ \A i \in 1..Len(z) : w[Len(s) + i] = z[i]
      /\ \A k \in 1..Len(w) : k \in 1..Len(s) \/ \E i \in 1..Len(z) : k = Len(s) + i
  BY <1>0 DEF Joined
<1>2. /\ \A i \in 1..Len(s) : s[i].of.on \in Nat
      /\ \A i \in 1..Len(z) : z[i].of.on \in Nat
  <2>1. (\A i \in 1..Len(s) : s[i] \in Piece) /\ \A i \in 1..Len(z) : z[i] \in Piece
    BY ElementOfSeq
  <2>2. QED
    BY <2>1 DEF Piece, Said
<1>3. Numbered(s, more, asked)
  BY NumberedWider
<1>4. ASSUME NEW k \in 1..Len(w)
      PROVE  /\ w[k].of.on <= more
             /\ w[k].of.kind = "ok" /\ w[k].of.val \in Tags => << w[k].of.on, w[k].of.val >> \in asked
  BY <1>1, <1>3 DEF Numbered
<1>5. ASSUME NEW k \in 1..Len(w), NEW l \in 1..Len(w), k < l, w[k].last, w[k].of.kind = "ok"
      PROVE  w[l].of.on = 0 \/ w[k].of.on < w[l].of.on
  <2>1. CASE k \in 1..Len(s) /\ l \in 1..Len(s)
    BY <1>1, <1>3, <1>5, <2>1 DEF Numbered
  <2>2. ASSUME k \in 1..Len(s), NEW j \in 1..Len(z), l = Len(s) + j
        PROVE  w[l].of.on = 0 \/ w[k].of.on < w[l].of.on
    <3>1. w[k] = s[k] /\ w[l] = z[j] /\ s[k].of.on <= top /\ (z[j].of.on = 0 \/ top < z[j].of.on)
      BY <1>1, <2>2 DEF Numbered
    <3>2. s[k].of.on \in Nat /\ z[j].of.on \in Nat
      BY <1>2, <2>2
    <3>3. QED
      BY <3>1, <3>2, SMTT(30)
  <2>3. ASSUME NEW i \in 1..Len(z), k = Len(s) + i, NEW j \in 1..Len(z), l = Len(s) + j
        PROVE  w[l].of.on = 0 \/ w[k].of.on < w[l].of.on
    <3>1. w[k] = z[i] /\ w[l] = z[j] /\ i < j
      BY <1>1, <1>5, <2>3
    <3>2. QED
      BY <1>5, <3>1 DEF Numbered
  <2>4. ~(l \in 1..Len(s) /\ \E i \in 1..Len(z) : k = Len(s) + i)
    BY <1>1, <1>5
  <2>5. QED
    BY <1>1, <2>1, <2>2, <2>3, <2>4
<1>6. Numbered(w, more, asked)
  BY <1>4, <1>5 DEF Numbered
<1>7. QED
  BY <1>6 DEF w

\* An answer carries one completion, its last unit.
LEMMA NumberedAnswer ==
  ASSUME NEW n \in Nat, NEW reply \in Answered, NEW e \in Seq(reply.lines), NEW cuts \in Pieces(e),
         NEW asked,
         reply.status = "ok" /\ reply.code \in Tags => << n, reply.code >> \in asked
  PROVE  /\ Numbered(Framed(n, e, reply, cuts), n, asked)
         /\ \A i \in 1..Len(Framed(n, e, reply, cuts)) : Framed(n, e, reply, cuts)[i].of.on = n
<1> DEFINE lines == LinesOf(n, e, reply, cuts)
           f == Frames(lines)
           len == Len(e) + 1
<1>1. /\ lines \in Seq(Said) /\ Len(lines) = len /\ Len(e) \in Nat
      /\ \A k \in 1..Len(e) : lines[k] = LineOf(n, "data", e[k], cuts[k])
      /\ lines[len] = LineOf(n, reply.status, Plain(reply.code), cuts[len])
  BY LinesOfType
<1> HIDE DEF lines
<1>2. /\ Len(f) = 2 * len
      /\ \A k \in 1..len : /\ f[2 * k] = [of |-> lines[k], last |-> TRUE]
                          /\ f[2 * k - 1] = [of |-> lines[k], last |-> FALSE]
  BY <1>1, FramesType
<1> HIDE DEF f
<1>3. /\ \A k \in 1..len : lines[k].on = n
      /\ \A k \in 1..len : lines[k].kind = "ok" => k = len /\ reply.status = "ok"
      /\ lines[len].val = reply.code
  <2>1. \A k \in 1..len : k \in 1..Len(e) \/ k = len
    BY <1>1
  <2>2. \A k \in 1..Len(e) : lines[k].on = n /\ lines[k].kind = "data"
    <3>1. \A x, c : LineOf(n, "data", x, c).on = n /\ LineOf(n, "data", x, c).kind = "data"
      BY DEF LineOf
    <3>2. QED
      BY <1>1, <3>1
  <2>3. lines[len].on = n /\ lines[len].kind = reply.status /\ lines[len].val = reply.code
    BY <1>1 DEF LineOf, Plain
  <2> HIDE DEF len
  <2>4. QED
    BY <2>1, <2>2, <2>3
<1>4. len \in Nat \ {0}
  BY <1>1
<1> HIDE DEF len
<1>5. \A i \in 1..(2 * len) : \E k \in 1..len : i = 2 * k \/ i = 2 * k - 1
  <2>1. SUFFICES ASSUME NEW i \in 1..(2 * len) PROVE \E k \in 1..len : i = 2 * k \/ i = 2 * k - 1
    OBVIOUS
  <2>2. (i + 1) \div 2 \in 1..len /\ (i = 2 * ((i + 1) \div 2) \/ i = 2 * ((i + 1) \div 2) - 1)
    BY <1>4
  <2>3. QED
    BY <2>2
<1>6. ASSUME NEW i \in 1..(2 * len)
      PROVE  /\ f[i].of.on = n
             /\ f[i].of.kind = "ok" => f[i].of.val = reply.code /\ reply.status = "ok"
             /\ f[i].last /\ f[i].of.kind = "ok" => i = 2 * len
  <2>1. PICK k \in 1..len : i = 2 * k \/ i = 2 * k - 1
    BY <1>5
  <2>2. \/ f[i] = [of |-> lines[k], last |-> TRUE] /\ i = 2 * k
        \/ f[i] = [of |-> lines[k], last |-> FALSE]
    BY <1>2, <2>1
  <2>3. QED
    BY <1>3, <2>2, SMTT(30)
<1>7. Numbered(f, n, asked) /\ \A i \in 1..Len(f) : f[i].of.on = n
  <2>1. \A i \in 1..Len(f) : \A j \in 1..Len(f) : i < j => i # 2 * len
    BY <1>2, <1>4
  <2>2. ASSUME NEW i \in 1..Len(f)
        PROVE  /\ f[i].of.on = n /\ n <= n
               /\ f[i].of.kind = "ok" /\ f[i].of.val \in Tags => << n, f[i].of.val >> \in asked
               /\ f[i].last /\ f[i].of.kind = "ok" => i = 2 * len
    BY <1>2, <1>6
  <2>3. QED
    BY <2>1, <2>2 DEF Numbered
<1>8. QED
  BY <1>7 DEF Framed, f, lines

LEMMA NumberedFarewell ==
  ASSUME NEW top \in Nat, NEW asked, NEW cut
  PROVE  LET f == Frame(LineOf(0, "bye", Plain("none"), cut)) IN
         Numbered(f, top, asked) /\ \A i \in 1..Len(f) : f[i].of.on = 0
<1> DEFINE f == Frame(LineOf(0, "bye", Plain("none"), cut))
<1>1. Len(f) = 2 /\ \A i \in 1..2 : f[i].of.on = 0 /\ f[i].of.kind = "bye"
  BY DEF Frame, LineOf
<1> HIDE DEF f
<1>2. Numbered(f, top, asked) /\ \A i \in 1..Len(f) : f[i].of.on = 0
  BY <1>1 DEF Numbered
<1>3. QED
  BY <1>2 DEF f

\* What an OK that was read says of what it leaves unread.
LEMMA CompletionNumbered ==
  ASSUME NEW b \in Seq(Piece), NEW n \in Seq(Piece), NEW top, NEW asked,
         Numbered(Then(b, n), top, asked), HasResponse(b), Completion(b).kind = "ok",
         Completion(b).val \notin {c.val : c \in Cuts}
  PROVE  /\ Completion(b).on \in Nat /\ Completion(b).on <= top
         /\ Completion(b).val \in Tags => << Completion(b).on, Completion(b).val >> \in asked
         /\ \A i \in 1..Len(n) : n[i].of.on = 0 \/ Completion(b).on < n[i].of.on
<1> DEFINE s == Then(b, n)
           k == FirstOf(Stops(b))
<1>1. k \in Ends(b) /\ k \in 1..Len(b) /\ b[k].last /\ b[k] \in Piece
  <2>1. Stops(b) \in SUBSET Nat /\ Stops(b) # {} /\ DOMAIN b = 1..Len(b)
    BY EndsInDomain, LenProperties DEF HasResponse
  <2>2. k \in Stops(b)
    BY <2>1, FirstOfIsLeast
  <2>3. k \in Ends(b) /\ k \in DOMAIN b /\ b[k].last
    BY <2>2 DEF Stops, Ends
  <2> HIDE DEF k
  <2>4. QED
    BY <2>1, <2>2, <2>3, ElementOfSeq
<1> HIDE DEF k
<1>2. Completion(b) = b[k].of
  <2>1. LineAt(b, k) = Completion(b)
    BY DEF Completion, k
  <2>2. QED
    BY <1>1, <2>1, LineAtSaid
<1>3. Joined(s, b, n) /\ Numbered(s, top, asked)
  BY ThenElements
<1> HIDE DEF s
<1>4. /\ k \in 1..Len(s) /\ s[k] = b[k] /\ Len(b) \in Nat
      /\ \A i \in 1..Len(n) : Len(b) + i \in 1..Len(s) /\ s[Len(b) + i] = n[i]
  BY <1>1, <1>3 DEF Joined
<1>5. \A i \in 1..Len(n) : k < Len(b) + i
  BY <1>1, <1>4
<1>6. b[k].of.on \in Nat
  BY <1>1 DEF Piece, Said
<1>7. \A i \in 1..Len(n) : s[Len(b) + i].of.on = 0 \/ s[k].of.on < s[Len(b) + i].of.on
  BY <1>1, <1>2, <1>3, <1>4, <1>5 DEF Numbered
<1>8. s[k].of.on <= top /\ (s[k].of.val \in Tags => << s[k].of.on, s[k].of.val >> \in asked)
  BY <1>2, <1>3, <1>4 DEF Numbered
<1>9. QED
  BY <1>2, <1>4, <1>6, <1>7, <1>8

\* The tags asked for, with the commands that may have asked.
Asked == {p \in (0..calls) \X Tags : IF p[1] = calls THEN p[2] = call.name ELSE p[2] \in tags}

\* Commands reach the server in the order they were called.
NumberedInbox ==
  /\ \A i \in 1..Len(inbox) :
       /\ served.n < inbox[i].n
       /\ inbox[i].call.name \in Tags => << inbox[i].n, inbox[i].call.name >> \in Asked
       /\ out = "WantsWrite" => inbox[i].n < calls
  /\ \A i \in 1..Len(inbox) : \A j \in 1..Len(inbox) : i < j => inbox[i].n < inbox[j].n
  /\ out = "WantsWrite" => served.n < calls

TagInv == Numbered(Stream, served.n, Asked) /\ NumberedInbox /\ OwnTagMeansInStep

LEMMA InitTag == Init => TagInv
<1> SUFFICES ASSUME Init PROVE TagInv
  OBVIOUS
<1>1. <<>> \in Seq(Piece) /\ Len(<<>>) = 0
  BY EmptySeq
<1>2. Stream = <<>>
  <2>1. Received = <<>> \o <<>> /\ net = <<>>
    BY DEF Init, Received, None
  <2>2. QED
    BY <1>1, <2>1, ThenNothing DEF Stream, Then
<1>3. Numbered(<<>>, served.n, Asked)
  BY DEF Numbered
<1>4. NumberedInbox
  BY DEF Init, NumberedInbox
<1>5. OwnTagMeansInStep
  BY DEF Init, Untold, OwnTagMeansInStep, InStepOnceEchoed
<1>6. QED
  BY <1>2, <1>3, <1>4, <1>5 DEF TagInv

LEMMA InboxTypes ==
  ASSUME StateInv
  PROVE  /\ Len(inbox) \in Nat /\ DOMAIN inbox = 1..Len(inbox)
         /\ calls \in Nat /\ served.n \in 0..calls
         /\ \A i \in 1..Len(inbox) :
              inbox[i] \in [n : 1..calls, call : Calls] /\ inbox[i].n \in 1..calls
<1>1. inbox \in Seq([n : 1..calls, call : Calls]) /\ calls \in Nat /\ served.n \in 0..calls
  BY DEF StateInv, ServerTypes, CallTypes
<1>2. \A i \in 1..Len(inbox) : inbox[i] \in [n : 1..calls, call : Calls]
  BY <1>1, ElementOfSeq
<1>3. QED
  BY <1>1, <1>2, LenProperties

LEMMA IssueTag ==
  ASSUME StateInv, TagInv, NEW c \in Calls, Issue(c)
  PROVE  TagInv'
<1>1. /\ out = "Complete" \/ out = "Broken"
      /\ out' = "WantsWrite" /\ buf' = <<>> /\ arg' = None /\ calls' = calls + 1 /\ served' = served
      /\ tags' = tags \cup ({call.name} \cap Tags)
      /\ \/ net' = net /\ inbox' = inbox
         \/ net' = <<>> /\ inbox' = <<>>
  BY DEF Issue, WantsWrite, Idle, OnThisStream, OnNewStream
<1>2. /\ calls \in Nat /\ served.n \in 0..calls /\ Len(inbox) \in Nat
      /\ \A i \in 1..Len(inbox) : inbox[i].n \in 1..calls
  BY InboxTypes
<1>3. Asked \subseteq Asked'
  BY <1>1, <1>2 DEF Asked
<1>4. Numbered(net', served.n, Asked)
  <2>1. Numbered(net, served.n, Asked)
    BY StreamTypes, NumberedRest DEF TagInv, Stream
  <2>2. Numbered(<<>>, served.n, Asked)
    BY DEF Numbered
  <2>3. QED
    BY <1>1, <2>1, <2>2
<1>5. Stream' = net' /\ net' \in Seq(Piece)
  <2>1. net' \in Seq(Piece) /\ <<>> \in Seq(Piece)
    BY <1>1, StreamTypes, EmptySeq
  <2>2. Received' = <<>>
    <3>1. <<>> \o <<>> = <<>>
      BY <2>1, ConcatEmptySeq
    <3>2. QED
      BY <1>1, <3>1 DEF Received, None
  <2>3. QED
    BY <2>1, <2>2, ThenNothing DEF Stream
<1>6. Numbered(Stream', served.n, Asked')
  <2> DEFINE s == Stream'
             wider == Asked'
  <2>1. s \in Seq(Piece) /\ served.n \in Nat /\ Asked \subseteq wider /\ Numbered(s, served.n, Asked)
    BY <1>2, <1>3, <1>4, <1>5
  <2> HIDE DEF s, wider
  <2>2. Numbered(s, served.n, wider)
    BY <2>1, NumberedWider
  <2>3. QED
    BY <2>2 DEF s, wider
<1>7. NumberedInbox'
  <2>1. CASE inbox' = inbox
    BY <1>1, <1>2, <1>3, <2>1 DEF TagInv, NumberedInbox
  <2>2. CASE inbox' = <<>>
    BY <1>1, <1>2, <2>2 DEF NumberedInbox
  <2>3. QED
    BY <1>1, <2>1, <2>2
<1>8. OwnTagMeansInStep'
  BY <1>1 DEF OwnTagMeansInStep, InStepOnceEchoed, Idle
<1>9. QED
  BY <1>1, <1>6, <1>7, <1>8 DEF TagInv

\* A NOOP that returns a tag nobody asked for before, and nothing broken reads
\* as, has read its own answer.
LEMMA OwnTagRead ==
  ASSUME StateInv, TagInv, Responded, HasResponse(Received), Rejected \/ RawReturned \/ Accepted,
         call.op = "noop", ~call.raw, call.name \in Tags \ (tags \cup {c.val : c \in Cuts}),
         told'.outcome = "ok", Plain(call.name) \in told'.values
  PROVE  inbox = <<>> /\ \A i \in DOMAIN net : net[i].of.on = 0
<1>1. NoopAccepted
  <2>1. ~Rejected
    BY DEF Rejected, Return, IsOk
  <2>2. ~RawReturned
    BY DEF RawReturned
  <2>3. QED
    BY <2>1, <2>2
       DEF Accepted, ListAccepted, GetAccepted, MissingScript, PutAccepted, CheckAccepted,
           ActivateAccepted, DeleteAccepted, RenameAccepted, HaveSpaceAccepted, UnauthenticateAccepted,
           LogoutAccepted, Accepts
<1>2. End.kind = "ok" /\ told'.values = {Plain(v) : v \in {End.val} \cap Tags}
  BY <1>1 DEF NoopAccepted, Accepts, IsOk, Return
<1>3. End.val = call.name /\ End.val \in Tags
  BY <1>2 DEF Plain
<1>4. /\ Received \in Seq(Piece) /\ net \in Seq(Piece)
      /\ Numbered(Then(Received, net), served.n, Asked)
  BY StreamTypes DEF TagInv, Stream
<1>5. /\ End.on \in Nat /\ End.on <= served.n
      /\ << End.on, End.val >> \in Asked
      /\ \A i \in 1..Len(net) : net[i].of.on = 0 \/ End.on < net[i].of.on
  <2> DEFINE b == Received
             asked == Asked
  <2>1. /\ b \in Seq(Piece) /\ net \in Seq(Piece) /\ Numbered(Then(b, net), served.n, asked)
        /\ HasResponse(b) /\ Completion(b).kind = "ok" /\ Completion(b).val \in Tags
        /\ Completion(b).val \notin {c.val : c \in Cuts}
    BY <1>2, <1>3, <1>4 DEF End
  <2> HIDE DEF b, asked
  <2>2. /\ Completion(b).on \in Nat /\ Completion(b).on <= served.n
        /\ << Completion(b).on, Completion(b).val >> \in asked
        /\ \A i \in 1..Len(net) : net[i].of.on = 0 \/ Completion(b).on < net[i].of.on
    BY <2>1, CompletionNumbered
  <2>3. QED
    BY <2>2 DEF b, asked, End
<1>6. End.on = calls
  BY <1>3, <1>5 DEF Asked
<1>7. /\ served.n = calls /\ calls \in Nat /\ Len(inbox) \in Nat
      /\ \A i \in 1..Len(inbox) : inbox[i].n \in 1..calls /\ served.n < inbox[i].n
  <2>1. /\ calls \in Nat /\ served.n \in 0..calls /\ Len(inbox) \in Nat
        /\ \A i \in 1..Len(inbox) : inbox[i].n \in 1..calls
    BY InboxTypes
  <2>2. \A i \in 1..Len(inbox) : served.n < inbox[i].n
    BY DEF TagInv, NumberedInbox
  <2>3. QED
    BY <1>5, <1>6, <2>1, <2>2
<1>8. inbox = <<>>
  <2>1. \A i \in 1..Len(inbox) : FALSE
    BY <1>7
  <2>2. Len(inbox) = 0
    BY <1>7, <2>1
  <2>3. QED
    BY <2>2, EmptySeq DEF StateInv, ServerTypes
<1>9. \A i \in 1..Len(net) : net[i].of.on = 0
  <2>1. Numbered(net, served.n, Asked)
    BY <1>4, NumberedRest
  <2>2. \A i \in 1..Len(net) : net[i].of.on <= calls /\ net[i].of.on \in Nat
    <3>1. \A i \in 1..Len(net) : net[i] \in Piece
      BY <1>4, ElementOfSeq
    <3>2. QED
      BY <1>7, <2>1, <3>1 DEF Numbered, Piece, Said
  <2>3. QED
    BY <1>5, <1>6, <1>7, <2>2
<1>10. QED
  BY <1>4, <1>8, <1>9, LenProperties

LEMMA ResumeTag ==
  ASSUME StateInv, TagInv, Resume
  PROVE  TagInv'
<1>1. /\ out = "Run" /\ out' # "WantsWrite" /\ arg' = None
      /\ UNCHANGED << wireVars, scriptServerVars, call, calls, tags >>
      /\ \/ out' = "WantsRead" /\ buf' = Received
         \/ out' = "Complete" /\ buf' = Received /\ told'.outcome \in {"eof", "toolarge", "parse"}
         \/ /\ out' = "Complete" /\ buf' = <<>> /\ Responded /\ HasResponse(Received)
            /\ Rejected \/ RawReturned \/ Accepted
  BY ResumeLeaves
<1>2. Received \in Seq(Piece) /\ net \in Seq(Piece) /\ Asked' = Asked
  BY <1>1, StreamTypes DEF Asked
<1>3. Numbered(Stream', served.n, Asked)
  <2>1. CASE buf' = Received
    <3>1. Received' = Received
      BY <1>1, <1>2, <2>1, ConcatEmptySeq DEF Received, None
    <3>2. QED
      BY <1>1, <3>1 DEF Stream, TagInv, wireVars
  <2>2. CASE buf' = <<>>
    <3>1. <<>> \o <<>> = <<>>
      BY EmptySeq, ConcatEmptySeq
    <3>2. Received' = <<>>
      BY <1>1, <2>2, <3>1 DEF Received, None
    <3>3. Stream' = net
      BY <1>1, <1>2, <3>2, ThenNothing DEF Stream, wireVars
    <3>4. QED
      BY <1>2, <3>3, NumberedRest DEF TagInv, Stream
  <2>3. QED
    BY <1>1, <2>1, <2>2
<1>4. NumberedInbox'
  BY <1>1, <1>2 DEF TagInv, NumberedInbox, wireVars, scriptServerVars
<1>5. OwnTagMeansInStep'
  <2> SUFFICES ASSUME Idle', call.op = "noop", ~call.raw,
                      call.name \in Tags \ (tags \cup {c.val : c \in Cuts}),
                      told'.outcome = "ok", Plain(call.name) \in told'.values
               PROVE  inbox = <<>> /\ \A i \in DOMAIN net : net[i].of.on = 0
    BY <1>1 DEF OwnTagMeansInStep, InStepOnceEchoed, wireVars, scriptServerVars
  <2>1. Responded /\ HasResponse(Received) /\ (Rejected \/ RawReturned \/ Accepted)
    BY <1>1 DEF Idle
  <2>2. QED
    BY <2>1, OwnTagRead
<1>6. served' = served
  BY <1>1 DEF scriptServerVars
<1>7. QED
  BY <1>2, <1>3, <1>4, <1>5, <1>6 DEF TagInv

\* What leaves the units, the server and the call where they are.
LEMMA SameTag ==
  ASSUME StateInv, TagInv, Stream' = Stream, out' # "WantsWrite",
         UNCHANGED << served, inbox, call, calls, tags >>,
         ~Idle' \/ told'.outcome # "ok"
  PROVE  TagInv'
<1>1. Asked' = Asked
  BY DEF Asked
<1>2. NumberedInbox'
  BY <1>1 DEF TagInv, NumberedInbox
<1>3. OwnTagMeansInStep'
  BY DEF OwnTagMeansInStep, InStepOnceEchoed
<1>4. QED
  BY <1>1, <1>2, <1>3 DEF TagInv

LEMMA PumpTag ==
  ASSUME StateInv, TagInv, PumpWorks \/ PumpBreaks
  PROVE  TagInv'
<1>1. CASE PumpRead /\ UNCHANGED << scriptServerVars, callVars >>
  <2>1. Stream' = Stream
    BY <1>1, PumpReadTakes DEF StateInv, Stream
  <2>2. out' = "Run" /\ UNCHANGED << inbox, served, call, calls, tags >>
    BY <1>1 DEF PumpRead, scriptServerVars, callVars
  <2>3. QED
    BY <2>1, <2>2, SameTag DEF Idle
<1>2. CASE PumpEof(~open) /\ UNCHANGED << scriptServerVars, callVars >>
  <2>1. /\ out' = "Run" /\ UNCHANGED << inbox, net, buf, served, call, calls, tags >>
        /\ arg'.data = <<>> /\ arg.data = <<>>
    BY <1>2 DEF PumpEof, Eof, Some, scriptServerVars, callVars, wireVars, StateInv, WireTypes
  <2>2. Stream' = Stream
    BY <2>1 DEF Stream, Received
  <2>3. QED
    BY <2>1, <2>2, SameTag DEF Idle
<1>3. CASE PumpWrite /\ UNCHANGED << scriptServerVars, callVars >>
  <2>1. /\ out = "WantsWrite" /\ out' = "Run" /\ UNCHANGED << net, buf, served, call, calls, tags >>
        /\ arg'.data = <<>> /\ arg.data = <<>> /\ inbox' = Append(inbox, msg)
        /\ msg = [n |-> calls, call |-> call]
    BY <1>3 DEF PumpWrite, None, scriptServerVars, callVars, StateInv, WireTypes, CallTypes
  <2>2. Stream' = Stream /\ Asked' = Asked
    BY <2>1 DEF Stream, Received, Asked
  <2>3. /\ Len(inbox) \in Nat /\ calls \in Nat /\ served.n < calls
        /\ \A i \in 1..Len(inbox) : inbox[i].n < calls
    BY <2>1, InboxTypes DEF TagInv, NumberedInbox
  <2>4. /\ Len(inbox') = Len(inbox) + 1
        /\ \A i \in 1..Len(inbox) : inbox'[i] = inbox[i]
        /\ inbox'[Len(inbox) + 1] = [n |-> calls, call |-> call]
    <3> DEFINE S == [n : 1..calls, call : Calls]
    <3>1. inbox \in Seq(S) /\ msg \in S
      BY <2>1 DEF StateInv, ServerTypes, CallTypes
    <3> HIDE DEF S
    <3>2. QED
      BY <2>1, <3>1, AppendProperties
  <2>5. call.name \in Tags => << calls, call.name >> \in Asked
    BY <2>3 DEF Asked
  <2>6. ASSUME NEW i \in 1..Len(inbox')
        PROVE  i \in 1..Len(inbox) \/ i = Len(inbox) + 1
    BY <2>3, <2>4
  <2>7. NumberedInbox'
    <3>1. \A i \in 1..Len(inbox') :
            /\ served'.n < inbox'[i].n
            /\ inbox'[i].call.name \in Tags => << inbox'[i].n, inbox'[i].call.name >> \in Asked'
      <4>1. \A i \in 1..Len(inbox) :
              /\ served.n < inbox[i].n
              /\ inbox[i].call.name \in Tags => << inbox[i].n, inbox[i].call.name >> \in Asked
        BY DEF TagInv, NumberedInbox
      <4>2. QED
        BY <2>1, <2>2, <2>3, <2>4, <2>5, <2>6, <4>1
    <3>2. \A i \in 1..Len(inbox') : \A j \in 1..Len(inbox') : i < j => inbox'[i].n < inbox'[j].n
      <4>1. \A i \in 1..Len(inbox) : \A j \in 1..Len(inbox) : i < j => inbox[i].n < inbox[j].n
        BY DEF TagInv, NumberedInbox
      <4>2. \A i \in 1..Len(inbox') : \A j \in 1..Len(inbox') : i < j => i \in 1..Len(inbox)
        BY <2>3, <2>4
      <4>3. QED
        BY <2>3, <2>4, <2>6, <4>1, <4>2
    <3>3. QED
      BY <2>1, <3>1, <3>2 DEF NumberedInbox
  <2>8. OwnTagMeansInStep'
    BY <2>1 DEF OwnTagMeansInStep, InStepOnceEchoed, Idle
  <2>9. QED
    BY <2>1, <2>2, <2>7, <2>8 DEF TagInv
<1>4. CASE PumpBreaks
  <2>1. /\ out' = "Broken" /\ told'.outcome = "io"
        /\ UNCHANGED << inbox, net, buf, arg, served, call, calls, tags >>
    BY <1>4 DEF PumpBreaks, PumpFail, wireVars, scriptServerVars
  <2>2. Stream' = Stream
    BY <2>1 DEF Stream, Received
  <2>3. QED
    BY <2>1, <2>2, SameTag
<1>5. QED
  BY <1>1, <1>2, <1>3, <1>4 DEF PumpWorks

\* An OK carries a tag only if its command asked for it.
LEMMA TagOfItsOwn ==
  ASSUME NEW c \in Call, NEW reply, Serves(c, reply), reply.status = "ok", reply.code \in Tags
  PROVE  reply.code = c.name
<1>1. reply.code \in OkCodes(c)
  BY DEF Serves, Replies, Refusals
<1>2. reply.code \notin {"none", "WARNINGS", "QUOTA"}
  BY NamesAssumption DEF FixedCodes
<1>3. QED
  BY <1>1, <1>2 DEF OkCodes

LEMMA PeerTag ==
  ASSUME StateInv, TagInv, Peer, UNCHANGED callVars
  PROVE  TagInv'
<1>1. /\ UNCHANGED << out, arg, buf, call, calls, told, tags >> /\ Asked' = Asked
      /\ net \in Seq(Piece) /\ Stream \in Seq(Piece)
  BY ServerLeaves, StreamTypes DEF callVars, Asked
<1>2. /\ Len(inbox) \in Nat /\ calls \in Nat /\ served.n \in 0..calls
      /\ \A i \in 1..Len(inbox) :
           inbox[i] \in [n : 1..calls, call : Calls] /\ inbox[i].n \in 1..calls
  BY InboxTypes
<1>3. CASE ServerAnswers
  <2>1. inbox # <<>> /\ inbox' = Tail(inbox) /\ inbox \in Seq([n : 1..calls, call : Calls])
    BY <1>3, ServerServes DEF StateInv, ServerTypes
  <2>2. Len(inbox') = Len(inbox) - 1 /\ \A i \in 1..Len(inbox') : inbox'[i] = inbox[i + 1]
    BY <2>1, HeadTailProperties
  <2> DEFINE m == inbox[1]
  <2>3. Head(inbox) = m /\ 1 \in 1..Len(inbox) /\ \A i \in 1..Len(inbox') : i + 1 \in 1..Len(inbox) /\ 1 < i + 1
    <3>1. Len(inbox) # 0
      BY <2>1, EmptySeq
    <3>2. QED
      BY <1>2, <2>1, <2>2, <3>1
  <2>4. /\ m.n \in 1..calls /\ served.n < m.n /\ m.call \in Call
        /\ m.call.name \in Tags => << m.n, m.call.name >> \in Asked
    <3>1. m \in [n : 1..calls, call : Calls]
      BY <1>2, <2>3
    <3>2. m.n \in 1..calls /\ m.call \in Call
      BY <3>1, CallsAreCalls
    <3>3. served.n < m.n /\ (m.call.name \in Tags => << m.n, m.call.name >> \in Asked)
      BY <2>3 DEF TagInv, NumberedInbox
    <3>4. QED
      BY <3>2, <3>3
  <2> HIDE DEF m
  <2>5. PICK reply \in Answered : \E e \in Seq(reply.lines) : \E cuts \in Pieces(e) :
            /\ Serves(m.call, reply)
            /\ served' = [n |-> m.n, reply |-> reply]
            /\ net' = Then(net, Framed(m.n, e, reply, cuts))
    BY <1>3, <2>3, ServerServes
  <2>6a. PICK e \in Seq(reply.lines) : \E cuts \in Pieces(e) :
            /\ Serves(m.call, reply)
            /\ served' = [n |-> m.n, reply |-> reply]
            /\ net' = Then(net, Framed(m.n, e, reply, cuts))
    BY <2>5
  <2>6. PICK cuts \in Pieces(e) :
            /\ Serves(m.call, reply)
            /\ served' = [n |-> m.n, reply |-> reply]
            /\ net' = Then(net, Framed(m.n, e, reply, cuts))
    BY <2>6a
  <2> DEFINE f == Framed(m.n, e, reply, cuts)
             asked == Asked
  <2>7. f \in Seq(Piece) /\ m.n \in Nat
    BY <1>2, <2>4, FramedType
  <2>8. Numbered(f, m.n, asked) /\ \A i \in 1..Len(f) : f[i].of.on = m.n
    <3>1. reply.status = "ok" /\ reply.code \in Tags => << m.n, reply.code >> \in asked
      BY <2>4, <2>6, TagOfItsOwn
    <3> HIDE DEF asked
    <3>2. QED
      BY <2>7, <3>1, NumberedAnswer
  <2>9. Stream' = Then(Stream, f)
    <3>1. net' = Then(net, f)
      BY <2>6
    <3> HIDE DEF f
    <3>2. QED
      BY <1>1, <2>7, <3>1, StreamGrows
  <2> HIDE DEF f
  <2>10. Numbered(Then(Stream, f), m.n, asked)
    <3> DEFINE s == Stream
               top == served.n
    <3>1. /\ s \in Seq(Piece) /\ top \in Nat /\ m.n \in Nat /\ top <= m.n /\ Numbered(s, top, asked)
          /\ \A i \in 1..Len(f) : f[i].of.on = 0 \/ top < f[i].of.on
      BY <1>1, <1>2, <2>4, <2>7, <2>8 DEF TagInv
    <3> HIDE DEF s, top, asked
    <3>2. Numbered(Then(s, f), m.n, asked)
      BY <2>7, <2>8, <3>1, NumberedThen
    <3>3. QED
      BY <3>2 DEF s
  <2>11. NumberedInbox'
    <3>1. served'.n = inbox[1].n
      BY <2>6 DEF m
    <3>2. /\ \A i \in 1..Len(inbox) :
               inbox[i].call.name \in Tags => << inbox[i].n, inbox[i].call.name >> \in Asked
          /\ \A i \in 1..Len(inbox) : out = "WantsWrite" => inbox[i].n < calls
          /\ \A i \in 1..Len(inbox) : \A j \in 1..Len(inbox) : i < j => inbox[i].n < inbox[j].n
      BY DEF TagInv, NumberedInbox
    <3>3. ASSUME NEW i \in 1..Len(inbox')
          PROVE  /\ served'.n < inbox'[i].n
                 /\ inbox'[i].call.name \in Tags => << inbox'[i].n, inbox'[i].call.name >> \in Asked'
                 /\ out' = "WantsWrite" => inbox'[i].n < calls'
      BY <1>1, <2>2, <2>3, <3>1, <3>2
    <3>4. ASSUME NEW i \in 1..Len(inbox'), NEW j \in 1..Len(inbox'), i < j
          PROVE  inbox'[i].n < inbox'[j].n
      <4>1. i + 1 \in 1..Len(inbox) /\ j + 1 \in 1..Len(inbox) /\ i + 1 < j + 1
        BY <1>2, <2>2, <2>3, <3>4
      <4>2. QED
        BY <2>2, <3>2, <4>1
    <3>5. out' = "WantsWrite" => served'.n < calls'
      BY <1>1, <2>3, <3>1, <3>2
    <3>6. QED
      BY <3>3, <3>4, <3>5 DEF NumberedInbox
  <2>12. OwnTagMeansInStep'
    BY <1>1, <2>1 DEF TagInv, OwnTagMeansInStep, InStepOnceEchoed, Idle
  <2>13. served'.n = m.n
    BY <2>6
  <2>14. QED
    BY <1>1, <2>9, <2>10, <2>11, <2>12, <2>13 DEF TagInv, asked
<1>4. CASE ServerGiveUp
  <2>0. CutsOf("bye") = Texts
    BY DEF CutsOf
  <2>1. \/ net' = net
        \/ \E cut \in Texts : net' = Then(net, Frame(LineOf(0, "bye", Plain("none"), cut)))
    BY <1>4, <2>0 DEF ServerGiveUp, Then
  <2>2. UNCHANGED << served, inbox >>
    BY <1>4 DEF ServerGiveUp
  <2>4. served.n \in Nat
    BY <1>2
  <2>5. NumberedInbox'
    BY <1>1, <2>2 DEF TagInv, NumberedInbox
  <2>6. CASE net' = net
    <3>1. Stream' = Stream
      BY <1>1, <2>6 DEF Stream, Received
    <3>2. OwnTagMeansInStep'
      BY <1>1, <2>2, <2>6 DEF TagInv, OwnTagMeansInStep, InStepOnceEchoed, Idle
    <3>3. QED
      BY <1>1, <2>2, <2>5, <3>1, <3>2 DEF TagInv
  <2>7. ASSUME NEW cut \in Texts,
               net' = Then(net, Frame(LineOf(0, "bye", Plain("none"), cut)))
        PROVE  TagInv'
    <3> DEFINE f == Frame(LineOf(0, "bye", Plain("none"), cut))
    <3>a. f \in Seq(Piece)
      BY FarewellType, FarewellsArePieces
    <3>b. /\ Numbered(f, served.n, Asked)
          /\ \A i \in 1..Len(f) : f[i].of.on = 0
      BY <2>4, NumberedFarewell
    <3>c. net' = Then(net, f)
      BY <2>7
    <3> HIDE DEF f
    <3>1. Stream' = Then(Stream, f)
      BY <1>1, <3>a, <3>c, StreamGrows
    <3>2. Numbered(Then(Stream, f), served.n, Asked)
      <4> DEFINE s == Stream
                 top == served.n
                 asked == Asked
      <4>1. /\ s \in Seq(Piece) /\ top \in Nat /\ top <= top
            /\ Numbered(s, top, asked) /\ Numbered(f, top, asked)
            /\ \A i \in 1..Len(f) : f[i].of.on = 0 \/ top < f[i].of.on
        BY <1>1, <1>2, <3>b DEF TagInv
      <4> HIDE DEF s, top, asked
      <4>2. Numbered(Then(s, f), top, asked)
        BY <3>a, <4>1, NumberedThen
      <4>3. QED
        BY <4>2 DEF s, top, asked
    <3>3. ASSUME \A i \in DOMAIN net : net[i].of.on = 0
          PROVE  \A i \in DOMAIN net' : net'[i].of.on = 0
      <4> DEFINE w == Then(net, f)
      <4>1. Joined(w, net, f) /\ w \in Seq(Piece)
        BY <1>1, <3>a, ThenElements, ThenType
      <4> HIDE DEF w
      <4>2. DOMAIN net = 1..Len(net) /\ DOMAIN w = 1..Len(w)
        BY <1>1, <4>1, LenProperties
      <4>3. \A i \in 1..Len(w) : w[i].of.on = 0
        <5>1. /\ \A i \in 1..Len(net) : w[i] = net[i]
              /\ \A i \in 1..Len(f) : w[Len(net) + i] = f[i]
              /\ \A k \in 1..Len(w) : k \in 1..Len(net) \/ \E i \in 1..Len(f) : k = Len(net) + i
          BY <4>1 DEF Joined
        <5>2. TAKE k \in 1..Len(w)
        <5>3. CASE k \in 1..Len(net)
          BY <3>3, <4>2, <5>1, <5>3
        <5>4. ASSUME NEW i \in 1..Len(f), k = Len(net) + i
              PROVE  w[k].of.on = 0
          BY <3>b, <5>1, <5>4
        <5>5. QED
          BY <5>1, <5>3, <5>4
      <4>4. QED
        BY <3>c, <4>2, <4>3 DEF w
    <3>4. OwnTagMeansInStep'
      BY <1>1, <2>2, <3>3 DEF TagInv, OwnTagMeansInStep, InStepOnceEchoed, Idle
    <3>5. QED
      BY <1>1, <2>2, <2>5, <3>1, <3>2, <3>4 DEF TagInv
  <2>8. QED
    BY <2>1, <2>6, <2>7
<1>5. CASE ServerDiscard \/ ServerLate
  <2>1. UNCHANGED << net, served >> /\ (inbox' = inbox \/ inbox' = <<>>)
    BY <1>5, LateType DEF ServerDiscard
  <2>2. Stream' = Stream
    BY <1>1, <2>1 DEF Stream, Received
  <2>3. NumberedInbox'
    <3>1. CASE inbox' = inbox
      BY <1>1, <2>1, <3>1 DEF TagInv, NumberedInbox
    <3>2. CASE inbox' = <<>>
      BY <1>1, <2>1, <3>2 DEF TagInv, NumberedInbox
    <3>3. QED
      BY <2>1, <3>1, <3>2
  <2>4. OwnTagMeansInStep'
    BY <1>1, <2>1 DEF TagInv, OwnTagMeansInStep, InStepOnceEchoed, Idle
  <2>5. QED
    BY <1>1, <2>1, <2>2, <2>3, <2>4 DEF TagInv
<1>6. QED
  BY <1>3, <1>4, <1>5 DEF Peer

LEMMA StutterTag ==
  ASSUME TagInv, UNCHANGED vars
  PROVE  TagInv'
<1>1. UNCHANGED << out, told, calls, call, tags, served, net, inbox, buf, arg >>
  BY DEF vars, exchangeVars, coroutineVars, wireVars, scriptServerVars, callVars
<1>2. Stream' = Stream /\ Asked' = Asked
  BY <1>1 DEF Stream, Received, Asked
<1>3. NumberedInbox'
  BY <1>1, <1>2 DEF TagInv, NumberedInbox
<1>4. OwnTagMeansInStep'
  BY <1>1 DEF TagInv, OwnTagMeansInStep, InStepOnceEchoed, Idle
<1>5. QED
  BY <1>1, <1>2, <1>3, <1>4 DEF TagInv

\* A NOOP that gets back a tag that nobody asked for before, and that no piece
\* of a string of the server reads as, has read its own answer: whatever reads
\* failed before and wherever they left the stream, inside a literal included,
\* no reply of an earlier command is unread or still to come.
THEOREM CommandsOwnTag == Spec => []OwnTagMeansInStep
<1>1. StateInv /\ TagInv /\ [Next]_vars => TagInv'
  BY IssueTag, ResumeTag, PumpTag, PeerTag, StutterTag DEF Next, Finished
<1>2. TagInv => OwnTagMeansInStep
  BY DEF TagInv
<1>3. QED
  BY <1>1, <1>2, InitTag, CommandsState, PTL DEF Spec
=====
