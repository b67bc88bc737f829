----------------------------- MODULE WireProofs -----------------------------
(***************************************************************************)
(* What the framing operators of Wire return, for every buffer.            *)
(***************************************************************************)
EXTENDS Wire, SequenceTheorems, WellFoundedInduction, TLAPS

\* FirstOf is the least element of a nonempty set of naturals.
LEMMA FirstOfIsLeast ==
  ASSUME NEW S \in SUBSET Nat, S # {}
  PROVE  /\ FirstOf(S) \in S
         /\ \A j \in S : FirstOf(S) <= j
<1>1. PICK i \in S : \A j \in S : ~ (<<j, i>> \in OpToRel(<, Nat))
  BY NatLessThanWellFounded, WFMin
<1>2. \A j \in S : ~ (j < i)
  BY <1>1 DEF OpToRel
<1>3. \A j \in S : i <= j
  <2>1. i \in Nat /\ \A j \in S : j \in Nat
    OBVIOUS
  <2>2. QED
    BY <1>2, <2>1
<1>4. QED
  BY <1>1, <1>3 DEF FirstOf

\* A frame is made of units.
LEMMA FrameType ==
  ASSUME NEW line \in Line
  PROVE  Frame(line) \in Seq(Unit)
<1>1. [of |-> line, last |-> FALSE] \in Unit /\ [of |-> line, last |-> TRUE] \in Unit
  BY DEF Unit
<1>2. QED
  BY <1>1 DEF Frame

\* The broken lines in front of a line are among the units of the buffer.
LEMMA FragmentsInDomain ==
  ASSUME NEW S, NEW b \in Seq(S), NEW i \in DOMAIN b
  PROVE  Fragments(b, i) \subseteq DOMAIN b /\ Fragments(b, i) \in SUBSET Nat
<1>1. Len(b) \in Nat /\ DOMAIN b = 1..Len(b) /\ i \in 1..Len(b)
  BY LenProperties
<1>2. 1..(i - 2) \subseteq 1..Len(b) /\ 1..Len(b) \subseteq Nat
  BY <1>1
<1>3. QED
  BY <1>1, <1>2 DEF Fragments

\* Reading a buffer of units yields lines.
LEMMA LineAtType ==
  ASSUME NEW b \in Seq(Unit), NEW i \in Ends(b)
  PROVE  LineAt(b, i) \in Line
<1>0. i \in DOMAIN b /\ b[i].last /\ ~Opens(b, i)
  <2>1. i \in DOMAIN b /\ b[i].last /\ \A j \in 1..i : b[j].last => ~Opens(b, j)
    BY DEF Ends
  <2>2. i \in 1..i
    BY <2>1, LenProperties
  <2>3. QED
    BY <2>1, <2>2
<1>1. b[i] \in Unit
  BY <1>0, ElementOfSeq, LenProperties
<1>2. b[i].of \in Line
  BY <1>1 DEF Unit
<1>3. CASE Fragments(b, i) = {}
  BY <1>2, <1>3 DEF LineAt
<1>4. CASE Fragments(b, i) # {}
  <2> DEFINE j == FirstOf(Fragments(b, i))
  <2>1. j \in Fragments(b, i) /\ j \in DOMAIN b
    BY <1>0, <1>4, FragmentsInDomain, FirstOfIsLeast
  <2> HIDE DEF j
  <2>2. b[j] \in Unit
    BY <2>1, ElementOfSeq, LenProperties
  <2>3. b[j].of.cut \in Cut /\ b[j].of.cut.kind # "open"
    BY <1>0, <2>1, <2>2 DEF Unit, Line, Opens
  <2>4. b[j].of.cut.kind \in Kinds /\ b[j].of.cut.val \in Vals
    BY <2>3 DEF Cut
  <2>5. [b[i].of EXCEPT !.kind = b[j].of.cut.kind, !.val = b[j].of.cut.val] \in Line
    BY <1>2, <2>4 DEF Line
  <2>6. QED
    BY <1>4, <2>5 DEF LineAt, j
<1>5. QED
  BY <1>3, <1>4

LEMMA SuffixType ==
  ASSUME NEW b \in Seq(Unit), NEW i \in Nat
  PROVE  SubSeq(b, i + 1, Len(b)) \in Seq(Unit)
<1>1. \A j \in (i + 1)..Len(b) : b[j] \in Unit
  BY ElementOfSeq, LenProperties
<1>2. QED
  BY <1>1, LenProperties, SubSeqProperties

\* The elements of a suffix.
LEMMA SuffixElements ==
  ASSUME NEW S, NEW b \in Seq(S), NEW k \in 0..Len(b)
  PROVE  /\ Len(SubSeq(b, k + 1, Len(b))) = Len(b) - k
         /\ \A i \in 1..(Len(b) - k) : SubSeq(b, k + 1, Len(b))[i] = b[k + i]
<1> DEFINE rest == SubSeq(b, k + 1, Len(b))
<1>1. Len(b) \in Nat /\ DOMAIN b = 1..Len(b) /\ k + 1 \in Int /\ k \in Nat /\ k <= Len(b)
  BY LenProperties
<1>2. \A i \in (k + 1)..Len(b) : b[i] \in S
  BY <1>1, ElementOfSeq
<1>3. /\ Len(rest) = IF k + 1 <= Len(b) THEN Len(b) - (k + 1) + 1 ELSE 0
      /\ \A i \in 1..(Len(b) - (k + 1) + 1) : rest[i] = b[(k + 1) + i - 1]
  BY <1>1, <1>2, SubSeqProperties
<1> HIDE DEF rest
<1>4. Len(rest) = Len(b) - k
  <2>1. CASE k = Len(b)
    <3>1. ~(k + 1 <= Len(b)) /\ Len(b) - k = 0
      BY <1>1, <2>1
    <3>2. QED
      BY <1>3, <3>1
  <2>2. CASE k < Len(b)
    <3>1. k + 1 <= Len(b) /\ Len(b) - (k + 1) + 1 = Len(b) - k
      BY <1>1, <2>2
    <3>2. QED
      BY <1>3, <3>1
  <2>3. k = Len(b) \/ k < Len(b)
    <3>1. \A m, n \in Nat : m <= n => m = n \/ m < n
      OBVIOUS
    <3>2. QED
      BY <1>1, <3>1
  <2>4. QED
    BY <2>1, <2>2, <2>3
<1>5. ASSUME NEW i \in 1..(Len(b) - k) PROVE rest[i] = b[k + i]
  <2>1. i \in 1..(Len(b) - (k + 1) + 1) /\ (k + 1) + i - 1 = k + i
    BY <1>1
  <2>2. QED
    BY <1>3, <2>1
<1>6. QED
  BY <1>4, <1>5 DEF rest

LEMMA EndsInDomain ==
  ASSUME NEW S, NEW b \in Seq(S)
  PROVE  /\ Ends(b) \subseteq DOMAIN b
         /\ Stops(b) \subseteq Ends(b)
         /\ Ends(b) \in SUBSET Nat
         /\ Stops(b) \in SUBSET Nat
BY LenProperties DEF Ends, Stops

\* The first line of a buffer is a line, and what follows it a buffer.
LEMMA FirstLineType ==
  ASSUME NEW b \in Seq(Unit), HasLine(b)
  PROVE  FirstLine(b) \in Line /\ AfterLine(b) \in Seq(Unit)
<1>1. FirstOf(Ends(b)) \in Ends(b) /\ FirstOf(Ends(b)) \in Nat
  BY EndsInDomain, FirstOfIsLeast DEF HasLine
<1>2. QED
  BY <1>1, LineAtType, SuffixType DEF FirstLine, AfterLine

\* So are the completion of a response, its data and what trails it.
LEMMA ResponseType ==
  ASSUME NEW b \in Seq(Unit), HasResponse(b)
  PROVE  /\ Completion(b) \in Line
         /\ Data(b) \in SUBSET Vals
         /\ Trailing(b) \in Seq(Unit)
<1>1. FirstOf(Stops(b)) \in Ends(b) /\ FirstOf(Stops(b)) \in Nat
  BY EndsInDomain, FirstOfIsLeast DEF HasResponse
<1>2. Data(b) \in SUBSET Vals
  <2>1. \A i \in Ends(b) : LineAt(b, i).val \in Vals
    BY LineAtType DEF Line
  <2>2. QED
    BY <2>1 DEF Data
<1>3. QED
  BY <1>1, <1>2, LineAtType, SuffixType DEF Completion, Trailing

LEMMA UnfinishedType ==
  ASSUME NEW b \in Seq(Unit)
  PROVE  Unfinished(b) \in Seq(Unit)
<1> DEFINE past == {i \in 0..Len(b) : \A j \in Ends(b) : j <= i}
<1>1. Len(b) \in past
  BY LenProperties DEF Ends
<1>2. past \in SUBSET Nat /\ past # {}
  BY <1>1, LenProperties
<1>3. FirstOf(past) \in Nat
  BY <1>2, FirstOfIsLeast
<1>4. QED
  BY <1>3, SuffixType DEF Unfinished

\* Parsing keeps what is said of every unit of a buffer.
LEMMA SuffixIn ==
  ASSUME NEW S, NEW b \in Seq(S), NEW i \in Nat
  PROVE  SubSeq(b, i + 1, Len(b)) \in Seq(S)
<1>1. \A j \in (i + 1)..Len(b) : b[j] \in S
  BY ElementOfSeq, LenProperties
<1>2. QED
  BY <1>1, LenProperties, SubSeqProperties

LEMMA LeftIn ==
  ASSUME NEW S \in SUBSET Unit, NEW b \in Seq(S)
  PROVE  /\ HasLine(b) => AfterLine(b) \in Seq(S)
         /\ HasResponse(b) => Trailing(b) \in Seq(S)
         /\ Unfinished(b) \in Seq(S)
<1>1. b \in Seq(Unit)
  BY SeqMonotonic
<1>2. HasLine(b) => FirstOf(Ends(b)) \in Nat
  BY <1>1, EndsInDomain, FirstOfIsLeast DEF HasLine
<1>3. HasResponse(b) => FirstOf(Stops(b)) \in Nat
  BY <1>1, EndsInDomain, FirstOfIsLeast DEF HasResponse
<1>4. Unfinished(b) \in Seq(S)
  <2> DEFINE past == {i \in 0..Len(b) : \A j \in Ends(b) : j <= i}
  <2>1. Len(b) \in past /\ past \in SUBSET Nat
    BY LenProperties DEF Ends
  <2>2. FirstOf(past) \in Nat
    BY <2>1, FirstOfIsLeast
  <2>3. QED
    BY <2>2, SuffixIn DEF Unfinished
<1>5. QED
  BY <1>2, <1>3, <1>4, SuffixIn DEF AfterLine, Trailing

\* Nothing ends in an empty buffer, nor in what is left of a drained one.
LEMMA EmptyHasNoLine == ~HasLine(<<>>) /\ ~HasResponse(<<>>)
BY DEF HasLine, HasResponse, Ends, Stops

LEMMA NoLineNoResponse ==
  ASSUME NEW b, ~HasLine(b)
  PROVE  ~HasResponse(b)
BY DEF HasLine, HasResponse, Stops

\* Past the end of a line, markers are found where they were.
LEMMA OpensBehind ==
  ASSUME NEW S, NEW b \in Seq(S), NEW k \in 0..Len(b), k = 0 \/ b[k].last,
         NEW i \in 1..(Len(b) - k)
  PROVE  Opens(SubSeq(b, k + 1, Len(b)), i) <=> Opens(b, k + i)
<1> DEFINE rest == SubSeq(b, k + 1, Len(b))
<1>1. Len(b) \in Nat /\ k \in Nat /\ i \in Nat /\ i >= 1
  BY LenProperties
<1>2. \A j \in 1..(Len(b) - k) : rest[j] = b[k + j]
  BY SuffixElements
<1>7. SUFFICES Opens(rest, i) <=> Opens(b, k + i)
  OBVIOUS
<1> HIDE DEF rest
<1>3. IsOrphan(rest, i) <=> IsOrphan(b, k + i)
  <2>1. CASE i = 1
    <3>1. k + i - 1 = k /\ (k = 0 => k + i = 1)
      BY <1>1, <2>1
    <3>2. QED
      BY <2>1, <3>1 DEF IsOrphan
  <2>2. CASE i # 1
    <3>1. i - 1 \in 1..(Len(b) - k) /\ k + (i - 1) = k + i - 1 /\ k + i # 1
      BY <1>1, <2>2
    <3>2. QED
      BY <1>2, <2>2, <3>1 DEF IsOrphan
  <2>3. QED
    BY <2>1, <2>2
<1>4. CASE IsOrphan(rest, i)
  <2>1. Fragments(rest, i) = {i} /\ Fragments(b, k + i) = {k + i}
    BY <1>3, <1>4 DEF Fragments
  <2>2. rest[i] = b[k + i]
    BY <1>2
  <2>3. QED
    BY <2>1, <2>2 DEF Opens
<1>5. CASE ~IsOrphan(rest, i)
  <2>1. ASSUME NEW j \in 1..(i - 2)
        PROVE  (\A m \in j..(i - 1) : ~rest[m].last) <=> (\A m \in (k + j)..(k + i - 1) : ~b[m].last)
    <3>1. ASSUME \A m \in j..(i - 1) : ~rest[m].last, NEW m \in (k + j)..(k + i - 1)
          PROVE  ~b[m].last
      <4>1. m - k \in j..(i - 1) /\ m - k \in 1..(Len(b) - k) /\ k + (m - k) = m
        BY <1>1
      <4>2. QED
        BY <1>2, <3>1, <4>1
    <3>2. ASSUME \A m \in (k + j)..(k + i - 1) : ~b[m].last, NEW m \in j..(i - 1)
          PROVE  ~rest[m].last
      <4>1. k + m \in (k + j)..(k + i - 1) /\ m \in 1..(Len(b) - k)
        BY <1>1
      <4>2. QED
        BY <1>2, <3>2, <4>1
    <3>3. QED
      BY <3>1, <3>2
  <2>2. ASSUME NEW j \in Fragments(rest, i)
        PROVE  k + j \in Fragments(b, k + i) /\ b[k + j].of = rest[j].of
    <3>1. j \in 1..(i - 2) /\ \A m \in j..(i - 1) : ~rest[m].last
      BY <1>5 DEF Fragments
    <3>2. k + j \in 1..(k + i - 2) /\ j \in 1..(Len(b) - k)
      BY <1>1, <3>1
    <3>3. \A m \in (k + j)..(k + i - 1) : ~b[m].last
      BY <2>1, <3>1
    <3>4. ~IsOrphan(b, k + i) /\ b[k + j] = rest[j]
      BY <1>2, <1>3, <1>5, <3>2
    <3>5. k + j \in Fragments(b, k + i)
      BY <3>2, <3>3, <3>4 DEF Fragments
    <3>6. QED
      BY <3>4, <3>5
  <2>3. ASSUME NEW j \in Fragments(b, k + i)
        PROVE  j - k \in Fragments(rest, i) /\ b[j].of = rest[j - k].of
    <3>1. j \in 1..(k + i - 2) /\ \A m \in j..(k + i - 1) : ~b[m].last
      BY <1>3, <1>5 DEF Fragments
    <3>2. ~(j <= k)
      <4>1. j <= k => k # 0 /\ k \in j..(k + i - 1)
        BY <1>1, <3>1
      <4>2. QED
        BY <3>1, <4>1
    <3>3. j - k \in 1..(i - 2) /\ k + (j - k) = j /\ j - k \in 1..(Len(b) - k)
      BY <1>1, <3>1, <3>2
    <3>4. \A m \in (j - k)..(i - 1) : ~rest[m].last
      BY <2>1, <3>1, <3>3
    <3>5. QED
      BY <1>2, <1>5, <3>3, <3>4 DEF Fragments
  <2>4. ASSUME Opens(rest, i) PROVE Opens(b, k + i)
    <3>1. PICK j \in Fragments(rest, i) : rest[j].of.cut.kind = "open"
      BY <2>4 DEF Opens
    <3>2. k + j \in Fragments(b, k + i) /\ b[k + j].of = rest[j].of
      BY <2>2
    <3>3. QED
      BY <3>1, <3>2 DEF Opens
  <2>5. ASSUME Opens(b, k + i) PROVE Opens(rest, i)
    <3>1. PICK j \in Fragments(b, k + i) : b[j].of.cut.kind = "open"
      BY <2>5 DEF Opens
    <3>2. j - k \in Fragments(rest, i) /\ b[j].of = rest[j - k].of
      BY <2>3
    <3>3. QED
      BY <3>1, <3>2 DEF Opens
  <2>6. QED
    BY <2>4, <2>5
<1>6. QED
  BY <1>4, <1>5

LEMMA UnfinishedHasNoLine ==
  ASSUME NEW b \in Seq(Unit)
  PROVE  ~HasLine(Unfinished(b))
<1> DEFINE past == {i \in 0..Len(b) : \A j \in Ends(b) : j <= i}
           k == FirstOf(past)
           rest == SubSeq(b, k + 1, Len(b))
<1>1. Len(b) \in Nat /\ DOMAIN b = 1..Len(b)
  BY LenProperties
<1>2. Len(b) \in past /\ past \in SUBSET Nat
  BY <1>1 DEF Ends
<1>3. k \in past
  BY <1>2, FirstOfIsLeast
<1>4. k \in 0..Len(b) /\ \A j \in Ends(b) : j <= k
  BY <1>3
<1>11. k = 0 \/ k \in Ends(b)
  <2>1. SUFFICES ASSUME k # 0, k \notin Ends(b) PROVE FALSE
    OBVIOUS
  <2>2. \A j \in past : k <= j
    BY <1>2, FirstOfIsLeast
  <2> HIDE DEF k
  <2>3. k - 1 \in 0..Len(b) /\ k \in Nat
    BY <1>1, <1>4, <2>1
  <2>4. \A j \in Ends(b) : j \in Nat /\ j # k
    BY <2>1, EndsInDomain
  <2>5. \A j \in Ends(b) : j <= k - 1
    BY <1>4, <2>3, <2>4
  <2>6. k <= k - 1
    BY <2>2, <2>3, <2>5
  <2>7. QED
    BY <2>3, <2>6
<1> HIDE DEF k
<1>5. Len(rest) = Len(b) - k /\ (\A i \in 1..(Len(b) - k) : rest[i] = b[k + i]) /\ rest \in Seq(Unit)
  BY <1>4, SuffixElements, SuffixType
<1>6. Unfinished(b) = rest
  BY DEF Unfinished, k
<1> HIDE DEF rest
<1>7. SUFFICES ASSUME NEW i \in Ends(rest) PROVE FALSE
  BY <1>6 DEF HasLine
<1>8. i \in 1..(Len(b) - k) /\ rest[i].last /\ \A j \in 1..i : rest[j].last => ~Opens(rest, j)
  BY <1>5, LenProperties DEF Ends
<1>9. k + i \in Ends(b)
  <2>1. k + i \in 1..Len(b) /\ b[k + i].last
    BY <1>1, <1>4, <1>5, <1>8
  <2>2. ASSUME NEW j \in 1..(k + i), b[j].last PROVE ~Opens(b, j)
    <3>1. CASE j <= k
      <4>1. k \in Ends(b) /\ j \in 1..k
        BY <1>1, <1>4, <1>11, <3>1
      <4>2. QED
        BY <2>2, <4>1 DEF Ends
    <3>2. CASE ~(j <= k)
      <4>1. j - k \in 1..i /\ j - k \in 1..(Len(b) - k) /\ k + (j - k) = j
        BY <1>1, <1>4, <1>8, <3>2
      <4>2. rest[j - k].last
        BY <1>5, <2>2, <4>1
      <4>3. k = 0 \/ b[k].last
        BY <1>11 DEF Ends
      <4>4. Opens(rest, j - k) <=> Opens(b, j)
        BY <1>4, <4>1, <4>3, OpensBehind DEF rest
      <4>5. QED
        BY <1>8, <4>1, <4>2, <4>4
    <3>3. QED
      BY <3>1, <3>2
  <2>3. QED
    BY <1>1, <2>1, <2>2 DEF Ends
<1>10. QED
  BY <1>4, <1>8, <1>9

-----------------------------------------------------------------------------
(* Reading a line, or a listing, that arrives in pieces: of the units s,   *)
(* b was read and n was not.                                               *)

\* Units behind others.  The provers take \o apart into elements, which is of
\* no use where sequences are only named: there it stays folded in Then.
Then(b, n) == b \o n

LEMMA ThenType ==
  ASSUME NEW S, NEW b \in Seq(S), NEW n \in Seq(S)
  PROVE  Then(b, n) \in Seq(S)
BY ConcatProperties DEF Then

LEMMA ThenNothing ==
  ASSUME NEW S, NEW b \in Seq(S)
  PROVE  Then(b, <<>>) = b /\ Then(<<>>, b) = b
BY ConcatEmptySeq DEF Then

LEMMA ThenIsNothing ==
  ASSUME NEW S, NEW b \in Seq(S), NEW n \in Seq(S)
  PROVE  Then(b, n) = <<>> <=> b = <<>> /\ n = <<>>
BY ConcatEqualIffEmpty DEF Then

LEMMA ThenThen ==
  ASSUME NEW S, NEW b \in Seq(S), NEW n \in Seq(S), NEW z \in Seq(S)
  PROVE  Then(Then(b, n), z) = Then(b, Then(n, z))
BY ConcatAssociative DEF Then

\* Of elements of T there are only elements of T on either side of a cut.
LEMMA ThenParts ==
  ASSUME NEW S, NEW T, NEW b \in Seq(S), NEW n \in Seq(S), Then(b, n) \in Seq(T)
  PROVE  b \in Seq(T) /\ n \in Seq(T)
<1> DEFINE s == Then(b, n)
<1>1. /\ Len(b) \in Nat /\ Len(n) \in Nat /\ Len(s) = Len(b) + Len(n)
      /\ \A i \in 1..(Len(b) + Len(n)) : s[i] = IF i <= Len(b) THEN b[i] ELSE n[i - Len(b)]
  BY LenProperties, ConcatProperties DEF Then
<1>2. s \in Seq(T)
  OBVIOUS
<1> HIDE DEF s
<1>3. \A i \in 1..Len(s) : s[i] \in T
  BY <1>2, ElementOfSeq
<1>4. \A i \in 1..Len(b) : b[i] \in T
  <2>1. \A i \in 1..Len(b) : i \in 1..(Len(b) + Len(n)) /\ i <= Len(b)
    BY <1>1
  <2>2. QED
    BY <1>1, <1>3, <2>1
<1>5. \A i \in 1..Len(n) : n[i] \in T
  <2>1. \A i \in 1..Len(n) : /\ Len(b) + i \in 1..(Len(b) + Len(n))
                             /\ ~(Len(b) + i <= Len(b)) /\ Len(b) + i - Len(b) = i
    BY <1>1
  <2>2. QED
    BY <1>1, <1>3, <2>1
<1>6. \A u \in Seq(S) : (\A i \in 1..Len(u) : u[i] \in T) => u \in Seq(T)
  <2> SUFFICES ASSUME NEW u \in Seq(S), \A i \in 1..Len(u) : u[i] \in T
               PROVE  u \in Seq(T)
    OBVIOUS
  <2>1. Len(u) \in Nat /\ \A i \in 1..Len(u) : u[i] \in T
    BY LenProperties
  <2>2. SubSeq(u, 1, Len(u)) \in Seq(T)
    BY <2>1, SubSeqProperties
  <2>3. QED
    BY <2>2, SubSeqFull
<1>7. QED
  BY <1>4, <1>5, <1>6

\* The elements of what was read.
LEMMA PrefixElements ==
  ASSUME NEW S, NEW b \in Seq(S), NEW n \in Seq(S), NEW s \in Seq(S), b \o n = s
  PROVE  /\ Len(b) \in Nat /\ Len(n) \in Nat /\ Len(s) = Len(b) + Len(n)
         /\ DOMAIN b = 1..Len(b)
         /\ \A i \in 1..Len(b) : b[i] = s[i]
<1>1. Len(b) \in Nat /\ Len(n) \in Nat /\ DOMAIN b = 1..Len(b)
  BY LenProperties
<1>2. Len(s) = Len(b) + Len(n) /\ \A i \in 1..(Len(b) + Len(n)) : i <= Len(b) => s[i] = b[i]
  BY ConcatProperties
<1>3. \A i \in 1..Len(b) : i \in 1..(Len(b) + Len(n)) /\ i <= Len(b)
  BY <1>1
<1>4. QED
  BY <1>1, <1>2, <1>3

\* A whole prefix that was read and drained leaves the rest.
LEMMA PrefixTaken ==
  ASSUME NEW S, NEW b \in Seq(S), NEW n \in Seq(S), NEW f \in Seq(S), NEW z \in Seq(S),
         Then(b, n) = Then(f, z), Len(f) <= Len(b)
  PROVE  SubSeq(b, Len(f) + 1, Len(b)) \in Seq(S) /\ Then(SubSeq(b, Len(f) + 1, Len(b)), n) = z
<1>0. b \o n = f \o z
  BY DEF Then
<1> DEFINE rest == SubSeq(b, Len(f) + 1, Len(b))
<1>1. Len(f) \in Nat /\ Len(b) \in Nat /\ Len(n) \in Nat /\ Len(z) \in Nat /\ Len(f) \in 0..Len(b)
  BY LenProperties
<1>2. rest \in Seq(S) /\ Len(rest) = Len(b) - Len(f)
      /\ \A i \in 1..(Len(b) - Len(f)) : rest[i] = b[Len(f) + i]
  BY <1>1, SuffixIn, SuffixElements
<1> HIDE DEF rest
<1>3. Len(b \o n) = Len(b) + Len(n) /\ Len(f \o z) = Len(f) + Len(z)
      /\ rest \o n \in Seq(S) /\ Len(rest \o n) = Len(rest) + Len(n)
  BY <1>2, ConcatProperties
<1>4. Len(rest \o n) = Len(z)
  BY <1>0, <1>1, <1>2, <1>3
<1>5. ASSUME NEW i \in 1..Len(z) PROVE (rest \o n)[i] = z[i]
  <2>1. /\ Len(f) + i \in 1..(Len(f) + Len(z)) /\ ~(Len(f) + i <= Len(f)) /\ Len(f) + i - Len(f) = i
        /\ Len(f) + i \in 1..(Len(b) + Len(n))
        /\ i \in 1..(Len(rest) + Len(n))
    BY <1>1, <1>2, <1>3, <1>4
  <2>2. (f \o z)[Len(f) + i] = z[i]
    BY <2>1, ConcatProperties
  <2>3. (b \o n)[Len(f) + i] = IF Len(f) + i <= Len(b) THEN b[Len(f) + i] ELSE n[Len(f) + i - Len(b)]
    BY <2>1, ConcatProperties
  <2>4. (rest \o n)[i] = IF i <= Len(rest) THEN rest[i] ELSE n[i - Len(rest)]
    BY <1>2, <2>1, ConcatProperties
  <2>5. CASE i <= Len(rest)
    <3>1. i \in 1..(Len(b) - Len(f)) /\ Len(f) + i <= Len(b)
      BY <1>1, <1>2, <2>5
    <3>2. QED
      BY <1>0, <1>2, <2>2, <2>3, <2>4, <2>5, <3>1
  <2>6. CASE ~(i <= Len(rest))
    <3>1. ~(Len(f) + i <= Len(b)) /\ i - Len(rest) = Len(f) + i - Len(b)
      BY <1>1, <1>2, <2>6
    <3>2. QED
      BY <1>0, <2>2, <2>3, <2>4, <2>6, <3>1
  <2>7. QED
    BY <2>5, <2>6
<1>6. QED
  BY <1>2, <1>3, <1>4, <1>5, SeqEqual DEF rest, Then

\* The elements of a frame with something behind it.
LEMMA FrameElements ==
  ASSUME NEW line \in Line, NEW z \in Seq(Unit)
  PROVE  /\ Frame(line) \o z \in Seq(Unit) /\ Len(Frame(line)) = 2
         /\ Len(Frame(line) \o z) = 2 + Len(z) /\ Len(z) \in Nat
         /\ (Frame(line) \o z)[1] = [of |-> line, last |-> FALSE]
         /\ (Frame(line) \o z)[2] = [of |-> line, last |-> TRUE]
<1>1. Frame(line) \in Seq(Unit) /\ Len(Frame(line)) = 2
      /\ Frame(line)[1] = [of |-> line, last |-> FALSE]
      /\ Frame(line)[2] = [of |-> line, last |-> TRUE]
  BY FrameType DEF Frame
<1>2. Len(z) \in Nat
  BY LenProperties
<1>3. 1 \in 1..(2 + Len(z)) /\ 2 \in 1..(2 + Len(z)) /\ 1 <= 2 /\ 2 <= 2
  BY <1>2
<1> DEFINE f == Frame(line)
<1> HIDE DEF f
<1>4. f \in Seq(Unit) /\ Len(f) = 2
  BY <1>1 DEF f
<1>5. /\ f \o z \in Seq(Unit) /\ Len(f \o z) = Len(f) + Len(z)
      /\ \A i \in 1..(Len(f) + Len(z)) : (f \o z)[i] = IF i <= Len(f) THEN f[i] ELSE z[i - Len(f)]
  BY <1>4, ConcatProperties
<1>6. (f \o z)[1] = f[1] /\ (f \o z)[2] = f[2]
  BY <1>3, <1>4, <1>5
<1>7. QED
  BY <1>1, <1>2, <1>4, <1>5, <1>6 DEF f

\* The least of a set of naturals, when it is known.
LEMMA FirstOfKnown ==
  ASSUME NEW S \in SUBSET Nat, NEW k \in S, \A j \in S : k <= j
  PROVE  FirstOf(S) = k
<1>1. FirstOf(S) \in S /\ \A j \in S : FirstOf(S) <= j
  BY FirstOfIsLeast
<1>2. FirstOf(S) <= k /\ k <= FirstOf(S) /\ FirstOf(S) \in Nat /\ k \in Nat
  BY <1>1
<1>3. QED
  BY <1>2

\* Where the lines of a buffer end that starts with a frame.
LEMMA FrameEnds ==
  ASSUME NEW line \in Line, NEW b \in Seq(Unit), NEW n \in Seq(Unit), NEW z \in Seq(Unit),
         b \o n = Frame(line) \o z
  PROVE  /\ Len(b) \in Nat /\ DOMAIN b = 1..Len(b)
         /\ Len(b) <= 1 => Ends(b) = {}
         /\ ~(Len(b) <= 1) =>
              /\ 2 \in Ends(b) /\ \A j \in Ends(b) : 2 <= j
              /\ LineAt(b, 2) = line
              /\ SubSeq(b, 3, Len(b)) \in Seq(Unit) /\ SubSeq(b, 3, Len(b)) \o n = z
<1>1. /\ Len(b) \in Nat /\ DOMAIN b = 1..Len(b)
      /\ \A i \in 1..Len(b) : b[i] = (Frame(line) \o z)[i]
  BY FrameElements, PrefixElements
<1>2. 1 \in 1..Len(b) => b[1] = [of |-> line, last |-> FALSE]
  BY <1>1, FrameElements
<1>3. 2 \in 1..Len(b) => b[2] = [of |-> line, last |-> TRUE]
  BY <1>1, FrameElements
<1>4. ASSUME Len(b) <= 1, NEW i \in Ends(b) PROVE FALSE
  <2>1. i = 1 /\ 1 \in 1..Len(b) /\ b[1].last
    BY <1>1, <1>4 DEF Ends
  <2>2. QED
    BY <1>2, <2>1
<1>5. ASSUME ~(Len(b) <= 1)
      PROVE  /\ 2 \in Ends(b) /\ \A j \in Ends(b) : 2 <= j
             /\ LineAt(b, 2) = line
             /\ SubSeq(b, 3, Len(b)) \in Seq(Unit) /\ SubSeq(b, 3, Len(b)) \o n = z
  <2>1. 1 \in 1..Len(b) /\ 2 \in 1..Len(b) /\ 2 <= Len(b)
    BY <1>1, <1>5
  <2>7. Fragments(b, 2) = {}
    BY <1>2, <2>1 DEF Fragments, IsOrphan
  <2>8. ASSUME NEW j \in 1..2, b[j].last PROVE ~Opens(b, j)
    <3>1. j = 2
      BY <1>2, <2>1, <2>8
    <3>2. QED
      BY <2>7, <3>1 DEF Opens
  <2>2. 2 \in Ends(b) /\ 1 \notin Ends(b)
    BY <1>1, <1>2, <1>3, <2>1, <2>8 DEF Ends
  <2>3. \A j \in Ends(b) : 2 <= j
    <3>1. \A j \in Ends(b) : j \in 1..Len(b)
      BY <1>1 DEF Ends
    <3>2. QED
      BY <2>2, <3>1
  <2>4. LineAt(b, 2) = line
    BY <1>3, <2>1, <2>7 DEF LineAt
  <2>5. SubSeq(b, 3, Len(b)) \in Seq(Unit) /\ SubSeq(b, 3, Len(b)) \o n = z
    <3> DEFINE f == Frame(line)
    <3>1. f \in Seq(Unit) /\ Len(f) = 2
      BY FrameType, FrameElements
    <3> HIDE DEF f
    <3>2. b \o n = f \o z /\ Len(f) <= Len(b)
      BY <2>1, <3>1 DEF f
    <3>6. Then(b, n) = Then(f, z)
      BY <3>2 DEF Then
    <3>3. /\ SubSeq(b, Len(f) + 1, Len(b)) \in Seq(Unit)
          /\ Then(SubSeq(b, Len(f) + 1, Len(b)), n) = z
      BY <3>1, <3>2, <3>6, PrefixTaken, ZenonT(60)
    <3>4. Len(f) + 1 = 3
      BY <3>1
    <3>5. QED
      BY <3>3, <3>4 DEF Then
  <2>6. QED
    BY <2>2, <2>3, <2>4, <2>5
<1>6. QED
  BY <1>1, <1>4, <1>5

\* The first line is not there before its last unit, and is as it was sent.
LEMMA LineRead ==
  ASSUME NEW line \in Line, NEW b \in Seq(Unit), NEW n \in Seq(Unit), NEW z \in Seq(Unit),
         Then(b, n) = Then(Frame(line), z)
  PROVE  \/ Len(b) <= 1 /\ ~HasLine(b)
         \/ HasLine(b) /\ FirstLine(b) = line /\ AfterLine(b) \in Seq(Unit) /\ Then(AfterLine(b), n) = z
<1>0. b \o n = Frame(line) \o z
  BY DEF Then
<1>1. CASE Len(b) <= 1
  BY <1>1, <1>0, FrameEnds DEF HasLine
<1>2. CASE ~(Len(b) <= 1)
  <2>1. FirstOf(Ends(b)) = 2
    BY <1>0, <1>2, FrameEnds, <1>0, EndsInDomain, FirstOfKnown
  <2>2. AfterLine(b) = SubSeq(b, 3, Len(b))
    <3>1. 2 + 1 = 3
      OBVIOUS
    <3>2. QED
      BY <2>1, <3>1 DEF AfterLine
  <2>3. 2 \in Ends(b) /\ LineAt(b, 2) = line
        /\ SubSeq(b, 3, Len(b)) \in Seq(Unit) /\ SubSeq(b, 3, Len(b)) \o n = z
    BY <1>0, <1>2, FrameEnds
  <2>4. QED
    BY <2>1, <2>2, <2>3 DEF HasLine, FirstLine, Then
<1>3. QED
  BY <1>1, <1>2

\* So is a response of a single line.
LEMMA ReplyRead ==
  ASSUME NEW line \in Line, line.kind # "data",
         NEW b \in Seq(Unit), NEW n \in Seq(Unit), NEW z \in Seq(Unit),
         Then(b, n) = Then(Frame(line), z)
  PROVE  \/ Len(b) <= 1 /\ ~HasLine(b) /\ ~HasResponse(b)
         \/ /\ HasResponse(b) /\ Completion(b) = line /\ Data(b) = {}
            /\ Trailing(b) \in Seq(Unit) /\ Then(Trailing(b), n) = z
<1>0. b \o n = Frame(line) \o z
  BY DEF Then
<1>1. CASE Len(b) <= 1
  <2>1. Ends(b) = {}
    BY <1>0, <1>1, FrameEnds
  <2>2. QED
    BY <1>1, <2>1 DEF HasLine, HasResponse, Stops
<1>2. CASE ~(Len(b) <= 1)
  <2>1. 2 \in Stops(b) /\ \A j \in Stops(b) : 2 <= j
    BY <1>2, <1>0, FrameEnds DEF Stops
  <2>2. FirstOf(Stops(b)) = 2
    BY <2>1, EndsInDomain, FirstOfKnown
  <2>3. \A j \in Ends(b) : ~(j < 2)
    <3>1. \A j \in Ends(b) : j \in Nat /\ 2 <= j
      BY <1>0, <1>2, FrameEnds, <1>0, EndsInDomain
    <3>2. QED
      BY <3>1
  <2>4. Data(b) = {}
    BY <2>2, <2>3 DEF Data
  <2>5. Trailing(b) = SubSeq(b, 3, Len(b))
    <3>1. 2 + 1 = 3
      OBVIOUS
    <3>2. QED
      BY <2>2, <3>1 DEF Trailing
  <2>6. LineAt(b, 2) = line /\ SubSeq(b, 3, Len(b)) \in Seq(Unit) /\ SubSeq(b, 3, Len(b)) \o n = z
    BY <1>0, <1>2, FrameEnds
  <2>7. QED
    BY <2>1, <2>2, <2>4, <2>5, <2>6 DEF HasResponse, Completion, Then
<1>3. QED
  BY <1>1, <1>2

\* And one of a data line and a completion.
LEMMA ListingRead ==
  ASSUME NEW data \in Line, data.kind = "data", NEW line \in Line, line.kind # "data",
         NEW b \in Seq(Unit), NEW n \in Seq(Unit), NEW z \in Seq(Unit),
         Then(b, n) = Then(Then(Frame(data), Frame(line)), z)
  PROVE  \/ ~HasResponse(b)
         \/ /\ HasResponse(b) /\ Completion(b) = line /\ Data(b) = {data.val}
            /\ Trailing(b) \in Seq(Unit) /\ Then(Trailing(b), n) = z
<1>0. b \o n = (Frame(data) \o Frame(line)) \o z
  BY DEF Then
<1> DEFINE f == Frame(data) \o Frame(line)
           rest == Frame(line) \o z
<1>1. /\ Frame(data) \in Seq(Unit) /\ Frame(line) \in Seq(Unit) /\ rest \in Seq(Unit)
      /\ f \in Seq(Unit) /\ Len(f) = 4 /\ b \o n = Frame(data) \o rest
  <2>1. /\ Frame(data) \in Seq(Unit) /\ Frame(line) \in Seq(Unit)
        /\ Len(Frame(data)) = 2 /\ Len(Frame(line)) = 2
    BY FrameType, FrameElements
  <2>2. f \in Seq(Unit) /\ Len(f) = Len(Frame(data)) + Len(Frame(line)) /\ rest \in Seq(Unit)
    BY <2>1, ConcatProperties
  <2>3. b \o n = Frame(data) \o rest
    <3> DEFINE g == Frame(data)
               h == Frame(line)
    <3>1. g \in Seq(Unit) /\ h \in Seq(Unit)
      BY <2>1
    <3> HIDE DEF g, h
    <3>2. (g \o h) \o z = g \o (h \o z)
      BY <3>1, ConcatAssociative
    <3>3. QED
      BY <1>0, <3>2 DEF g, h
  <2>4. QED
    BY <2>1, <2>2, <2>3
<1>2. /\ Len(b) \in Nat /\ DOMAIN b = 1..Len(b)
      /\ 1 \in 1..Len(b) => ~b[1].last
      /\ Len(b) <= 1 => Ends(b) = {}
      /\ ~(Len(b) <= 1) => 2 \in Ends(b) /\ LineAt(b, 2) = data /\ \A j \in Ends(b) : 2 <= j
  <2>1. \A i \in 1..Len(b) : b[i] = (Frame(data) \o rest)[i]
    BY <1>1, PrefixElements, ConcatProperties
  <2>3. (Frame(data) \o rest)[1] = [of |-> data, last |-> FALSE]
    BY <1>1, FrameElements
  <2>4. 1 \in 1..Len(b) => ~b[1].last
    <3> DEFINE s == Frame(data) \o rest
    <3> HIDE DEF s
    <3>1. s[1] = [of |-> data, last |-> FALSE] /\ \A i \in 1..Len(b) : b[i] = s[i]
      BY <2>1, <2>3 DEF s
    <3>2. QED
      BY <3>1
  <2>2. QED
    BY <1>1, <2>4, FrameEnds
<1>3. /\ 2 \in 1..Len(b) => b[2] = [of |-> data, last |-> TRUE]
      /\ 3 \in 1..Len(b) => b[3] = [of |-> line, last |-> FALSE]
      /\ 4 \in 1..Len(b) => b[4] = [of |-> line, last |-> TRUE]
  <2>1. \A i \in 1..Len(b) : b[i] = (Frame(data) \o rest)[i]
    BY <1>1, PrefixElements, ConcatProperties
  <2>2. Len(Frame(data)) = 2 /\ Len(rest) \in Nat /\ Len(rest) = 2 + Len(z) /\ Len(z) \in Nat
        /\ rest[1] = [of |-> line, last |-> FALSE] /\ rest[2] = [of |-> line, last |-> TRUE]
    BY FrameElements
  <2>3. (Frame(data) \o rest)[2] = [of |-> data, last |-> TRUE]
    BY <1>1, FrameElements
  <2>4. (Frame(data) \o rest)[3] = rest[1] /\ (Frame(data) \o rest)[4] = rest[2]
    <3> DEFINE g == Frame(data)
    <3>1. g \in Seq(Unit) /\ Len(g) = 2 /\ rest \in Seq(Unit)
      BY <1>1, <2>2
    <3> HIDE DEF g, rest
    <3>2. \A i \in 1..(Len(g) + Len(rest)) : (g \o rest)[i] = IF i <= Len(g) THEN g[i] ELSE rest[i - Len(g)]
      BY <3>1, ConcatProperties
    <3>3. 3 \in 1..(Len(g) + Len(rest)) /\ 4 \in 1..(Len(g) + Len(rest))
          /\ ~(3 <= Len(g)) /\ ~(4 <= Len(g)) /\ 3 - Len(g) = 1 /\ 4 - Len(g) = 2
      BY <2>2, <3>1
    <3>4. (g \o rest)[3] = rest[1] /\ (g \o rest)[4] = rest[2]
      BY <3>2, <3>3
    <3>5. QED
      BY <3>4 DEF g
  <2>5. QED
    BY <2>1, <2>2, <2>3, <2>4
<1>4. CASE Len(b) <= 3
  <2>1. ASSUME NEW i \in Ends(b) PROVE i = 2 /\ LineAt(b, 2) = data
    <3>1. i \in 1..Len(b) /\ b[i].last /\ ~(Len(b) <= 1) /\ 2 <= i
      BY <1>2, <2>1 DEF Ends
    <3>2. i = 2 \/ (i = 3 /\ 3 \in 1..Len(b))
      BY <1>2, <1>4, <3>1
    <3>3. QED
      BY <1>2, <1>3, <3>1, <3>2
  <2>2. Stops(b) = {}
    BY <2>1 DEF Stops
  <2>3. QED
    BY <2>2 DEF HasResponse
<1>5. CASE ~(Len(b) <= 3)
  <2>1. 2 \in 1..Len(b) /\ 3 \in 1..Len(b) /\ 4 \in 1..Len(b) /\ 4 <= Len(b) /\ ~(Len(b) <= 1)
    BY <1>2, <1>5
  <2>10. Fragments(b, 2) = {} /\ Fragments(b, 4) = {}
    <3>1. ~IsOrphan(b, 2) /\ ~IsOrphan(b, 4)
      BY <1>2, <1>3, <2>1 DEF IsOrphan
    <3>2. ASSUME NEW j \in 1..2 PROVE ~ \A m \in j..3 : ~b[m].last
      <4>1. 2 \in j..3
        OBVIOUS
      <4>2. QED
        BY <1>3, <2>1, <4>1
    <3>3. QED
      BY <3>1, <3>2 DEF Fragments
  <2>11. ASSUME NEW j \in 1..4, b[j].last PROVE ~Opens(b, j)
    <3>1. j = 2 \/ j = 4
      BY <1>2, <1>3, <2>1, <2>11
    <3>2. QED
      BY <2>10, <3>1 DEF Opens
  <2>2. 4 \in Ends(b) /\ 3 \notin Ends(b) /\ 2 \in Ends(b)
    BY <1>2, <1>3, <2>1, <2>11 DEF Ends
  <2>3. LineAt(b, 4) = line
    BY <1>3, <2>1, <2>10 DEF LineAt
  <2>4. 4 \in Stops(b) /\ 2 \notin Stops(b)
    BY <1>2, <2>1, <2>2, <2>3 DEF Stops
  <2>5. \A j \in Ends(b) : j \in 1..Len(b) /\ 2 <= j /\ (j = 2 \/ 4 <= j)
    <3>1. \A j \in Ends(b) : j \in 1..Len(b) /\ 2 <= j /\ j # 3
      BY <1>2, <2>1, <2>2 DEF Ends
    <3>2. QED
      BY <3>1
  <2>6. FirstOf(Stops(b)) = 4
    <3>1. \A j \in Stops(b) : 4 <= j
      BY <2>4, <2>5 DEF Stops
    <3>2. QED
      BY <2>4, <3>1, EndsInDomain, FirstOfKnown
  <2>7. Data(b) = {data.val}
    <3>1. {j \in Ends(b) : j < 4} = {2}
      BY <2>2, <2>5
    <3>2. QED
      BY <1>2, <2>1, <2>6, <3>1 DEF Data
  <2>8. SubSeq(b, 5, Len(b)) \in Seq(Unit) /\ SubSeq(b, 5, Len(b)) \o n = z
    <3> HIDE DEF f
    <3>1. f \in Seq(Unit) /\ Len(f) = 4 /\ b \o n = f \o z
      BY <1>1 DEF f
    <3>2. Len(f) <= Len(b) /\ Len(f) + 1 = 5
      BY <2>1, <3>1
    <3>3. Then(b, n) = Then(f, z)
      BY <3>1 DEF Then
    <3>4. \A g \in Seq(Unit) : Then(b, n) = Then(g, z) /\ Len(g) <= Len(b) =>
            /\ SubSeq(b, Len(g) + 1, Len(b)) \in Seq(Unit)
            /\ Then(SubSeq(b, Len(g) + 1, Len(b)), n) = z
      BY PrefixTaken
    <3>5. QED
      BY <3>1, <3>2, <3>3, <3>4 DEF Then
  <2>9. QED
    BY <2>3, <2>4, <2>6, <2>7, <2>8 DEF HasResponse, Completion, Trailing, Then
<1>6. QED
  BY <1>4, <1>5

\* A buffer without a line is all unfinished.
LEMMA UnfinishedWhole ==
  ASSUME NEW b \in Seq(Unit), ~HasLine(b)
  PROVE  Unfinished(b) = b
<1> DEFINE past == {i \in 0..Len(b) : \A j \in Ends(b) : j <= i}
<1>1. Len(b) \in Nat /\ past = 0..Len(b)
  BY LenProperties DEF HasLine
<1>2. 0 \in past /\ past \in SUBSET Nat /\ \A j \in past : 0 <= j
  BY <1>1
<1>3. FirstOf(past) = 0
  BY <1>2, FirstOfKnown
<1>4. Unfinished(b) = SubSeq(b, 1, Len(b))
  <2>1. 0 + 1 = 1
    OBVIOUS
  <2>2. QED
    BY <1>3, <2>1 DEF Unfinished
<1>5. QED
  BY <1>4, SubSeqFull
=============================================================================
