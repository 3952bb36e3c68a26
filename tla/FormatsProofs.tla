---------------------------- MODULE FormatsProofs ----------------------------
(***************************************************************************)
(* Proofs about Formats for texts and messages of every length: what       *)
(* canonicalize_text keeps, and what the records of the transport carry.   *)
(***************************************************************************)
EXTENDS Formats, NaturalsInduction, FiniteSetTheorems, WellFoundedInduction, TLAPS

\* What canonicalize_text makes of one more character.
WithCharacter(sofar, character) ==
  [out |-> IF character = "lf" /\ sofar.returned
           THEN sofar.out
           ELSE Append(sofar.out, IF character = "cr" THEN "lf" ELSE character),
   returned |-> character = "cr"]

\* The three folds: the text that is written, the bytes of records, and those they carry.
Beginning(kind) == IF kind = "text" THEN [out |-> <<>>, returned |-> FALSE] ELSE 0

With(kind, sofar, item) ==
  CASE kind = "text" -> WithCharacter(sofar, item)
    [] kind = "records" -> sofar + RECORD_LENGTH_BYTES + item
    [] OTHER -> sofar + item - NOISE_TAG_BYTES

\* What MapThenFoldSet defines, of any part of the places of a sequence.
AreFolds(fold, kind, seq, D) ==
  fold = [s \in SUBSET D |->
            IF s = {} THEN Beginning(kind)
            ELSE With(kind, fold[s \ {Max(s)}], seq[Max(s)])]

Folded(kind, seq) == (CHOOSE f : AreFolds(f, kind, seq, DOMAIN seq))[DOMAIN seq]

\* canonicalize_text is one of the folds.
LEMMA TextIsFolded == \A t : CanonicalText(t) = Folded("text", WithoutMark(t)).out
<1>1. \A a, b : With("text", a, b) = WithCharacter(a, b)
  BY DEF With
<1>2. Beginning("text") = [out |-> <<>>, returned |-> FALSE]
  BY DEF Beginning
<1>3. \A f, seq : AreFolds(f, "text", seq, DOMAIN seq) <=>
        f = [s \in SUBSET DOMAIN seq |->
            IF s = {} THEN [out |-> <<>>, returned |-> FALSE]
            ELSE WithCharacter(f[s \ {Max(s)}], seq[Max(s)])]
  BY <1>1, <1>2 DEF AreFolds
<1>4. \A seq : (CHOOSE f : AreFolds(f, "text", seq, DOMAIN seq)) =
                CHOOSE f : f = [s \in SUBSET DOMAIN seq |->
            IF s = {} THEN [out |-> <<>>, returned |-> FALSE]
            ELSE WithCharacter(f[s \ {Max(s)}], seq[Max(s)])]
  BY <1>3
<1>5. QED
  BY <1>4 DEF CanonicalText, FoldLeft, MapThenFoldSet, WithCharacter, Folded

\* The size of records is one of the folds.
LEMMA RecordsAreFolded == \A records : SizeOfRecords(records) = Folded("records", records)
<1>1. \A a, b : With("records", a, b) = a + RECORD_LENGTH_BYTES + b
  BY DEF With
<1>2. Beginning("records") = 0
  BY DEF Beginning
<1>3. \A f, seq : AreFolds(f, "records", seq, DOMAIN seq) <=>
        f = [s \in SUBSET DOMAIN seq |->
            IF s = {} THEN 0
            ELSE f[s \ {Max(s)}] + RECORD_LENGTH_BYTES + seq[Max(s)]]
  BY <1>1, <1>2 DEF AreFolds
<1>4. \A seq : (CHOOSE f : AreFolds(f, "records", seq, DOMAIN seq)) =
                CHOOSE f : f = [s \in SUBSET DOMAIN seq |->
            IF s = {} THEN 0
            ELSE f[s \ {Max(s)}] + RECORD_LENGTH_BYTES + seq[Max(s)]]
  BY <1>3
<1>5. QED
  BY <1>4 DEF SizeOfRecords, FoldLeft, MapThenFoldSet, Folded

\* What records carry is one of the folds.
LEMMA ClearIsFolded == \A records : ClearSize(records) = Folded("clear", records)
<1>1. \A a, b : With("clear", a, b) = a + b - NOISE_TAG_BYTES
  BY DEF With
<1>2. Beginning("clear") = 0
  BY DEF Beginning
<1>3. \A f, seq : AreFolds(f, "clear", seq, DOMAIN seq) <=>
        f = [s \in SUBSET DOMAIN seq |->
            IF s = {} THEN 0
            ELSE f[s \ {Max(s)}] + seq[Max(s)] - NOISE_TAG_BYTES]
  BY <1>1, <1>2 DEF AreFolds
<1>4. \A seq : (CHOOSE f : AreFolds(f, "clear", seq, DOMAIN seq)) =
                CHOOSE f : f = [s \in SUBSET DOMAIN seq |->
            IF s = {} THEN 0
            ELSE f[s \ {Max(s)}] + seq[Max(s)] - NOISE_TAG_BYTES]
  BY <1>3
<1>5. QED
  BY <1>4 DEF ClearSize, FoldLeft, MapThenFoldSet, Folded

\* A set of numbers that is not empty has a least one.
LEMMA LeastNumber ==
  ASSUME NEW S \in SUBSET Nat, S # {}
  PROVE  \E x \in S : \A y \in S : x <= y
<1>1. PICK x \in S : \A y \in S : ~ (<<y, x>> \in OpToRel(<, Nat))
  BY WFMin, NatLessThanWellFounded, Zenon
<1>2. \A y \in S : ~ (y < x)
  BY <1>1 DEF OpToRel
<1>3. QED
  BY <1>2

\* A set of numbers without zero that no number enters first is empty: induction.
LEMMA NoneIsLeast ==
  ASSUME NEW Bad \in SUBSET Nat, 0 \notin Bad,
         \A n \in Nat : n \notin Bad => n + 1 \notin Bad
  PROVE  Bad = {}
<1>1. ASSUME Bad # {}
      PROVE  FALSE
  <2>1. PICK n \in Bad : \A m \in Bad : n <= m
    BY <1>1, LeastNumber
  <2>2. n - 1 \in Nat /\ n - 1 \notin Bad /\ n = (n - 1) + 1
    BY <2>1
  <2>3. QED
    BY <2>1, <2>2
<1>2. QED
  BY <1>1

\* A set of numbers that is not empty and has a bound has a greatest one.
LEMMA Greatest ==
  ASSUME NEW n \in Nat, NEW S \in SUBSET (1 .. n), S # {}
  PROVE  Max(S) \in S /\ \A y \in S : Max(S) >= y
<1> DEFINE bounds == {m \in Nat : \A y \in S : y <= m}
<1>1. bounds \in SUBSET Nat /\ n \in bounds
  OBVIOUS
<1>2. PICK m \in bounds : \A k \in bounds : m <= k
  BY <1>1, LeastNumber
<1>3. m \in S
  <2>1. ASSUME m \notin S
        PROVE  FALSE
    <3>1. m # 0
      <4>1. PICK y \in S : TRUE
        OBVIOUS
      <4>2. y \in Nat /\ y >= 1 /\ y <= m
        BY <1>2
      <4>3. QED
        BY <4>2
    <3>2. m - 1 \in Nat /\ \A y \in S : y <= m - 1
      BY <1>2, <2>1, <3>1
    <3>3. m - 1 \in bounds
      BY <3>2
    <3>4. QED
      BY <3>3, <1>2
  <2>2. QED
    BY <2>1
<1>4. \A y \in S : m >= y
  BY <1>2
<1>5. QED
  BY <1>3, <1>4, Zenon DEF Max

\* The bound itself is the greatest, if it is one of them.
LEMMA GreatestIsLast ==
  ASSUME NEW m \in Nat, NEW S \in SUBSET (1 .. (m + 1)), m + 1 \in S
  PROVE  Max(S) = m + 1
<1> DEFINE n == m + 1
<1>1. n \in Nat /\ S \in SUBSET (1 .. n) /\ n \in S
  OBVIOUS
<1> HIDE DEF n
<1>2. Max(S) \in S /\ \A y \in S : Max(S) >= y
  BY <1>1, Greatest
<1> DEFINE x == Max(S)
<1>3. x \in S /\ \A y \in S : x >= y
  BY <1>2
<1> HIDE DEF x
<1>4. x = n
  BY <1>1, <1>3
<1>5. QED
  BY <1>4 DEF n, x

\* Every fold is defined, for any number of items.
LEMMA FoldsExist ==
  ASSUME NEW kind, NEW seq, NEW n \in Nat
  PROVE  \E f : AreFolds(f, kind, seq, 1 .. n)
<1> DEFINE Undefined == {m \in Nat : \A f : ~ AreFolds(f, kind, seq, 1 .. m)}
<1>1. \A m \in Nat : m \notin Undefined <=> \E f : AreFolds(f, kind, seq, 1 .. m)
  OBVIOUS
<1>2. 0 \notin Undefined
  <2>1. AreFolds([s \in SUBSET (1 .. 0) |-> Beginning(kind)], kind, seq, 1 .. 0)
    BY DEF AreFolds
  <2>2. QED
    BY <2>1
<1>3. ASSUME NEW m \in Nat, m \notin Undefined
      PROVE  m + 1 \notin Undefined
  <2>1. PICK f : AreFolds(f, kind, seq, 1 .. m)
    BY <1>1, <1>3
  <2> DEFINE h == [s \in SUBSET (1 .. (m + 1)) |->
                     IF m + 1 \in s THEN With(kind, f[s \ {m + 1}], seq[m + 1]) ELSE f[s]]
  <2>2. ASSUME NEW s \in SUBSET (1 .. (m + 1))
        PROVE  h[s] = IF s = {} THEN Beginning(kind)
                      ELSE With(kind, h[s \ {Max(s)}], seq[Max(s)])
    <3>1. CASE m + 1 \in s
      <4>1. Max(s) = m + 1
        BY <3>1, GreatestIsLast
      <4>2. h[s \ {m + 1}] = f[s \ {m + 1}]
        BY <3>1
      <4>3. QED
        BY <3>1, <4>1, <4>2
    <3>2. CASE m + 1 \notin s
      <4>1. s \in SUBSET (1 .. m)
        BY <3>2
      <4>2. h[s] = f[s]
        BY <3>2
      <4>3. h[s \ {Max(s)}] = f[s \ {Max(s)}]
        BY <3>2
      <4>4. f[s] = IF s = {} THEN Beginning(kind)
                   ELSE With(kind, f[s \ {Max(s)}], seq[Max(s)])
        BY <2>1, <4>1 DEF AreFolds
      <4>5. QED
        BY <4>2, <4>3, <4>4
    <3>3. QED
      BY <3>1, <3>2
  <2>3. AreFolds(h, kind, seq, 1 .. (m + 1))
    BY <2>2 DEF AreFolds
  <2>4. QED
    BY <2>3, <1>1
<1>4. Undefined = {}
  <2>1. Undefined \in SUBSET Nat
    OBVIOUS
  <2> HIDE DEF Undefined
  <2>2. QED
    BY <2>1, <1>2, <1>3, NoneIsLeast
<1>5. QED
  BY <1>1, <1>4

\* What a fold has after each item of a sequence.
Unfolds(after, kind, seq) ==
  /\ after[0] = Beginning(kind)
  /\ after[Len(seq)] = Folded(kind, seq)
  /\ \A n \in Nat : n < Len(seq) => after[n + 1] = With(kind, after[n], seq[n + 1])

\* A fold takes the items one after the other.
LEMMA FoldedFacts ==
  ASSUME NEW kind, NEW seq, Len(seq) \in Nat, DOMAIN seq = 1 .. Len(seq)
  PROVE  \E after : Unfolds(after, kind, seq)
<1> DEFINE N == Len(seq)
           f == CHOOSE g : AreFolds(g, kind, seq, 1 .. N)
           after == [n \in 0 .. N |-> f[1 .. n]]
<1>1. Folded(kind, seq) = f[1 .. N]
  BY DEF Folded
<1>2. AreFolds(f, kind, seq, 1 .. N)
  BY FoldsExist
<1> HIDE DEF f
<1>3. after[0] = Beginning(kind)
  <2>1. 1 .. 0 = {} /\ {} \in SUBSET (1 .. N)
    OBVIOUS
  <2>2. f[{}] = Beginning(kind)
    BY <1>2, <2>1 DEF AreFolds
  <2>3. QED
    BY <2>1, <2>2
<1>4. after[N] = Folded(kind, seq)
  BY <1>1
<1>5. ASSUME NEW n \in Nat, n < N
      PROVE  after[n + 1] = With(kind, after[n], seq[n + 1])
  <2> DEFINE s == 1 .. (n + 1)
  <2>1. s \in SUBSET (1 .. N) /\ s # {} /\ n + 1 \in s
    <3>1. n + 1 \in s
      OBVIOUS
    <3>2. N \in Nat /\ n + 1 <= N
      BY <1>5
    <3>3. s \in SUBSET (1 .. N)
      BY <3>2
    <3>4. QED
      BY <3>1, <3>3
  <2>2. Max(s) = n + 1
    BY GreatestIsLast
  <2>3. s \ {n + 1} = 1 .. n
    OBVIOUS
  <2> HIDE DEF s
  <2>4. f[s] = With(kind, f[s \ {Max(s)}], seq[Max(s)])
    BY <1>2, <2>1 DEF AreFolds
  <2>5. after[n + 1] = f[s] /\ after[n] = f[1 .. n]
    BY <1>5 DEF s
  <2>6. QED
    BY <2>2, <2>3, <2>4, <2>5
<1>6. QED
  BY <1>3, <1>4, <1>5 DEF Unfolds

\* Induction over the numbers up to a bound.
LEMMA UpTo ==
  ASSUME NEW N \in Nat, NEW Good \in SUBSET Nat, 0 \in Good,
         \A n \in Nat : n < N /\ n \in Good => n + 1 \in Good
  PROVE  \A n \in Nat : n <= N => n \in Good
<1> DEFINE Bad == {n \in Nat : n <= N /\ n \notin Good}
<1>1. Bad \in SUBSET Nat /\ 0 \notin Bad
  OBVIOUS
<1>2. \A n \in Nat : n \notin Bad => n + 1 \notin Bad
  OBVIOUS
<1>3. Bad = {}
  <2> HIDE DEF Bad
  <2>1. QED
    BY <1>1, <1>2, NoneIsLeast
<1>4. QED
  BY <1>3

----------------------------------------------------------------------------
\* Text.

\* The n-th character of a text has one of its own in the canonical text.
Keeps(t, n) == ~ (t[n] = "lf" /\ n > 1 /\ t[n - 1] = "cr")

KeptUpTo(t, n) == {k \in 1 .. n : Keeps(t, k)}

WrittenAs(t, n) == IF t[n] = "cr" THEN "lf" ELSE t[n]

\* What is written after n characters of a text.
IsWritten(t, n, sofar) ==
  /\ sofar.out \in Seq(TextCharacters)
  /\ sofar.returned = (n # 0 /\ t[n] = "cr")
  /\ \A k \in DOMAIN sofar.out : sofar.out[k] # "cr"
  /\ Len(sofar.out) = Cardinality(KeptUpTo(t, n))
  /\ \A k \in KeptUpTo(t, n) :
       /\ Cardinality(KeptUpTo(t, k)) \in DOMAIN sofar.out
       /\ sofar.out[Cardinality(KeptUpTo(t, k))] = WrittenAs(t, k)
  /\ n = 0 => sofar.out = <<>>
  /\ n # 0 => sofar.out # <<>> /\ (sofar.out[1] = "bom" <=> t[1] = "bom")

\* One more character keeps what is said of all that were written.
LEMMA OneMoreCharacter ==
  ASSUME NEW t \in Seq(TextCharacters), NEW n \in Nat, n < Len(t), NEW sofar,
         IsWritten(t, n, sofar)
  PROVE  IsWritten(t, n + 1, WithCharacter(sofar, t[n + 1]))
<1> DEFINE c == t[n + 1]
           o == sofar.out
           next == WithCharacter(sofar, c)
<1>1. c \in TextCharacters /\ o \in Seq(TextCharacters)
  BY DEF IsWritten
<1>2. IsFiniteSet(KeptUpTo(t, n))
  <2>1. 1 \in Int /\ n \in Int
    OBVIOUS
  <2>2. KeptUpTo(t, n) \in SUBSET (1 .. n)
    BY DEF KeptUpTo
  <2>3. QED
    BY <2>1, <2>2, FS_Interval, FS_Subset
<1>3. next.returned = (n + 1 # 0 /\ t[n + 1] = "cr")
  BY DEF WithCharacter
<1>4. CASE c = "lf" /\ sofar.returned
  <2>1. next.out = o
    BY <1>4 DEF WithCharacter
  <2>2. n # 0 /\ t[n] = "cr"
    BY <1>4 DEF IsWritten
  <2>3. ~ Keeps(t, n + 1)
    BY <1>4, <2>2 DEF Keeps
  <2>4. KeptUpTo(t, n + 1) = KeptUpTo(t, n)
    BY <2>3 DEF KeptUpTo
  <2> HIDE DEF c, o, next
  <2>5. QED
    BY <1>3, <2>1, <2>2, <2>4 DEF IsWritten, o, next, c
<1>5. CASE ~ (c = "lf" /\ sofar.returned)
  <2> DEFINE d == IF c = "cr" THEN "lf" ELSE c
  <2>1. next.out = Append(o, d)
    BY <1>5 DEF WithCharacter
  <2>2. d \in TextCharacters /\ d # "cr"
    BY <1>1 DEF TextCharacters
  <2>3. Keeps(t, n + 1)
    <3>1. sofar.returned = (n # 0 /\ t[n] = "cr")
      BY DEF IsWritten
    <3>2. n + 1 > 1 => n # 0 /\ (n + 1) - 1 = n
      OBVIOUS
    <3>3. QED
      BY <1>5, <3>1, <3>2 DEF Keeps
  <2>4. KeptUpTo(t, n + 1) = KeptUpTo(t, n) \cup {n + 1} /\ n + 1 \notin KeptUpTo(t, n)
    BY <2>3 DEF KeptUpTo
  <2>5. d = WrittenAs(t, n + 1)
    BY DEF WrittenAs
  <2> HIDE DEF d
  <2>6. Cardinality(KeptUpTo(t, n + 1)) = Len(o) + 1
    <3>1. Cardinality(KeptUpTo(t, n) \cup {n + 1}) = Cardinality(KeptUpTo(t, n)) + 1
      BY <1>2, <2>4, FS_AddElement
    <3>2. QED
      BY <2>4, <3>1 DEF IsWritten
  <2>7. /\ Len(Append(o, d)) = Len(o) + 1
        /\ Append(o, d)[Len(o) + 1] = d
        /\ \A m \in DOMAIN o : m \in DOMAIN Append(o, d) /\ Append(o, d)[m] = o[m]
    BY <1>1, <2>2
  <2>8. ASSUME NEW k \in KeptUpTo(t, n + 1)
        PROVE  /\ Cardinality(KeptUpTo(t, k)) \in DOMAIN Append(o, d)
               /\ Append(o, d)[Cardinality(KeptUpTo(t, k))] = WrittenAs(t, k)
    <3>1. CASE k = n + 1
      <4>1. Len(o) + 1 \in DOMAIN Append(o, d)
        BY <1>1, <2>2
      <4>2. QED
        BY <2>5, <2>6, <2>7, <3>1, <4>1
    <3>2. CASE k # n + 1
      <4>1. /\ Cardinality(KeptUpTo(t, k)) \in DOMAIN o
            /\ o[Cardinality(KeptUpTo(t, k))] = WrittenAs(t, k)
        BY <2>4, <3>2 DEF IsWritten
      <4>2. QED
        BY <2>7, <4>1
    <3>3. QED
      BY <3>1, <3>2
  <2>9. \A k \in DOMAIN Append(o, d) : Append(o, d)[k] # "cr"
    <3>1. \A k \in DOMAIN o : o[k] # "cr"
      BY DEF IsWritten
    <3> HIDE DEF o
    <3>2. QED
      BY <1>1, <2>2, <3>1
  <2>10. Append(o, d) # <<>> /\ (Append(o, d)[1] = "bom" <=> t[1] = "bom")
    <3>1. Append(o, d) # <<>>
      BY <1>1
    <3>2. CASE n = 0
      <4>1. o = <<>>
        BY <3>2 DEF IsWritten
      <4>2. Append(o, d)[1] = d
        BY <4>1
      <4>3. d = "bom" <=> t[1] = "bom"
        BY <3>2 DEF d
      <4>4. QED
        BY <3>1, <4>2, <4>3
    <3>3. CASE n # 0
      <4>1. o # <<>> /\ (o[1] = "bom" <=> t[1] = "bom")
        BY <3>3 DEF IsWritten
      <4> HIDE DEF o
      <4>2. Append(o, d)[1] = o[1]
        BY <1>1, <2>2, <4>1
      <4>3. QED
        BY <3>1, <4>1, <4>2
    <3>4. QED
      BY <3>2, <3>3
  <2> HIDE DEF c, o, next
  <2>11. next.out \in Seq(TextCharacters)
    BY <1>1, <2>1, <2>2
  <2>12. QED
    BY <1>3, <2>1, <2>6, <2>7, <2>8, <2>9, <2>10, <2>11 DEF IsWritten, next, c
<1>6. QED
  BY <1>4, <1>5

\* A text without its mark, all of it written.
LEMMA WrittenFacts ==
  ASSUME NEW t \in Seq(TextCharacters)
  PROVE  IsWritten(t, Len(t), Folded("text", t))
<1>1. PICK after : Unfolds(after, "text", t)
  <2>1. Len(t) \in Nat /\ DOMAIN t = 1 .. Len(t)
    OBVIOUS
  <2>2. QED
    BY <2>1, FoldedFacts
<1> DEFINE Good == {n \in Nat : IsWritten(t, n, after[n])}
<1>2. IsWritten(t, 0, after[0])
  <2>1. after[0] = [out |-> <<>>, returned |-> FALSE]
    BY <1>1 DEF Unfolds, Beginning
  <2>2. KeptUpTo(t, 0) = {} /\ Cardinality({}) = 0
    BY FS_EmptySet DEF KeptUpTo
  <2>3. (0 # 0 /\ t[0] = "cr") = FALSE
    OBVIOUS
  <2>4. after[0].out = <<>> /\ after[0].returned = FALSE
    BY <2>1
  <2> DEFINE e == after[0]
  <2>5. e.out = <<>> /\ e.returned = FALSE
    BY <2>4
  <2> HIDE DEF e
  <2>6. IsWritten(t, 0, e)
    <3>1. e.returned = (0 # 0 /\ t[0] = "cr")
      BY <2>3, <2>5
    <3>2. e.out \in Seq(TextCharacters) /\ \A k \in DOMAIN e.out : e.out[k] # "cr"
      BY <2>5
    <3>3. Len(e.out) = Cardinality(KeptUpTo(t, 0)) /\ KeptUpTo(t, 0) = {}
      BY <2>2, <2>5
    <3>4. QED
      BY <2>5, <3>1, <3>2, <3>3, Zenon DEF IsWritten
  <2>7. QED
    BY <2>6 DEF e
<1>3. \A n \in Nat : n < Len(t) /\ n \in Good => n + 1 \in Good
  <2>1. ASSUME NEW n \in Nat, n < Len(t), IsWritten(t, n, after[n])
        PROVE  IsWritten(t, n + 1, after[n + 1])
    <3>1. after[n + 1] = WithCharacter(after[n], t[n + 1])
      BY <1>1, <2>1 DEF Unfolds, With
    <3>2. QED
      BY <2>1, <3>1, OneMoreCharacter
  <2>2. QED
    BY <2>1
<1>4. Good \in SUBSET Nat /\ 0 \in Good
  BY <1>2
<1>5. Len(t) \in Nat
  OBVIOUS
<1>6. Len(t) \in Good
  <2> HIDE DEF Good
  <2>1. \A n \in Nat : n <= Len(t) => n \in Good
    BY <1>3, <1>4, <1>5, UpTo
  <2>2. QED
    BY <1>5, <2>1
<1>7. QED
  BY <1>1, <1>6 DEF Unfolds

\* A text that is canonical already is written as it is.
LEMMA CanonicalIsKept ==
  ASSUME NEW t \in Seq(TextCharacters), \A k \in DOMAIN t : t[k] # "cr",
         t # <<>> => t[1] # "bom"
  PROVE  CanonicalText(t) = t
<1>1. PICK after : Unfolds(after, "text", t)
  <2>1. Len(t) \in Nat /\ DOMAIN t = 1 .. Len(t)
    OBVIOUS
  <2>2. QED
    BY <2>1, FoldedFacts
<1> DEFINE Good == {n \in Nat : n <= Len(t) =>
                      after[n] = [out |-> SubSeq(t, 1, n), returned |-> FALSE]}
<1>2. 0 \in Good
  <2>1. after[0] = [out |-> <<>>, returned |-> FALSE]
    BY <1>1 DEF Unfolds, Beginning
  <2>2. SubSeq(t, 1, 0) = <<>>
    OBVIOUS
  <2>3. QED
    BY <2>1, <2>2
<1>3. \A n \in Nat : n < Len(t) /\ n \in Good => n + 1 \in Good
  <2>1. ASSUME NEW n \in Nat, n < Len(t),
               after[n] = [out |-> SubSeq(t, 1, n), returned |-> FALSE]
        PROVE  after[n + 1] = [out |-> SubSeq(t, 1, n + 1), returned |-> FALSE]
    <3>1. after[n + 1] = WithCharacter(after[n], t[n + 1])
      BY <1>1, <2>1 DEF Unfolds, With
    <3>2. t[n + 1] # "cr" /\ t[n + 1] \in TextCharacters
      BY <2>1
    <3>3. SubSeq(t, 1, n + 1) = Append(SubSeq(t, 1, n), t[n + 1])
      BY <2>1
    <3> DEFINE c == t[n + 1]
               o == SubSeq(t, 1, n)
               d == Append(o, c)
    <3>4. after[n].out = o /\ after[n].returned = FALSE /\ c # "cr"
      BY <2>1, <3>2
    <3> HIDE DEF c, o
    <3>5. WithCharacter(after[n], c) = [out |-> d, returned |-> FALSE]
      BY <3>4 DEF WithCharacter
    <3>6. QED
      BY <3>1, <3>3, <3>5 DEF c, o
  <2>2. ASSUME NEW n \in Nat, n < Len(t), n \in Good
        PROVE  n + 1 \in Good
    <3>1. n <= Len(t) /\ n + 1 \in Nat
      BY <2>2
    <3>2. after[n] = [out |-> SubSeq(t, 1, n), returned |-> FALSE]
      BY <2>2, <3>1, Zenon
    <3>3. after[n + 1] = [out |-> SubSeq(t, 1, n + 1), returned |-> FALSE]
      BY <2>1, <2>2, <3>2, Zenon
    <3>4. QED
      BY <3>1, <3>3, Zenon
  <2>3. QED
    BY <2>2, Zenon
<1>4. Good \in SUBSET Nat
  OBVIOUS
<1>5. Len(t) \in Nat
  OBVIOUS
<1>6. Len(t) \in Good
  <2> HIDE DEF Good
  <2>1. \A n \in Nat : n <= Len(t) => n \in Good
    BY <1>2, <1>3, <1>4, <1>5, UpTo
  <2>2. QED
    BY <1>5, <2>1
<1>7. Folded("text", t).out = SubSeq(t, 1, Len(t))
  BY <1>1, <1>6 DEF Unfolds
<1>8. SubSeq(t, 1, Len(t)) = t
  OBVIOUS
<1>9. WithoutMark(t) = t
  BY DEF WithoutMark
<1>10. QED
  BY <1>7, <1>8, <1>9, TextIsFolded

\* A text without its mark is a text, and begins with a mark if there were two.
LEMMA MarkIsRemoved ==
  ASSUME NEW t \in Seq(TextCharacters)
  PROVE  /\ WithoutMark(t) \in Seq(TextCharacters)
         /\ ~ (Len(t) > 1 /\ t[1] = "bom" /\ t[2] = "bom") =>
              (WithoutMark(t) # <<>> => WithoutMark(t)[1] # "bom")
<1>1. CASE ~ (t # <<>> /\ t[1] = "bom")
  BY <1>1 DEF WithoutMark
<1>2. CASE t # <<>> /\ t[1] = "bom"
  <2> DEFINE w == Tail(t)
             N == Len(w)
  <2>1. WithoutMark(t) = w /\ w \in Seq(TextCharacters)
    BY <1>2 DEF WithoutMark
  <2>2. N \in Nat /\ Len(t) = N + 1 /\ \A k \in 1 .. N : w[k] = t[k + 1]
    BY <1>2
  <2> HIDE DEF w, N
  <2>3. w # <<>> => N # 0
    BY <2>1 DEF N
  <2>4. w # <<>> => w[1] = t[2] /\ Len(t) > 1
    BY <2>2, <2>3
  <2>5. QED
    BY <1>2, <2>1, <2>4
<1>3. QED
  BY <1>1, <1>2

\* A text has characters of the kinds there are.
TextTyped == text \in Seq(TextCharacters)

\* canonicalize_text of any text, however long: no character is lost, added or moved but the
\* mark and the line feed after a carriage return, which is written as a line feed, and
\* what is canonical stays as it is.
THEOREM TextKeepsItsLines == Spec => []CanonicalTextKeepsLines
<1>1. Init => TextTyped
  BY DEF Init, TextTyped
<1>2. TextTyped /\ [Next]_vars => TextTyped'
  <2> SUFFICES ASSUME TextTyped, [Next]_vars
               PROVE  TextTyped'
    OBVIOUS
  <2>1. CASE Damage
    BY <2>1 DEF Damage, TextTyped
  <2>2. CASE TypeCharacter
    BY <2>2 DEF TypeCharacter, TextTyped
  <2>3. CASE TypeSlash
    BY <2>3 DEF TypeSlash, TextTyped
  <2>4. CASE AddFile
    BY <2>4 DEF AddFile, TextTyped
  <2>5. CASE TypeText
    BY <2>5 DEF TypeText, TextTyped
  <2>6. CASE UNCHANGED vars
    BY <2>6 DEF vars, TextTyped
  <2>7. QED
    BY <2>1, <2>2, <2>3, <2>4, <2>5, <2>6 DEF Next
<1>3. TextTyped => CanonicalTextKeepsLines
  <2> SUFFICES ASSUME TextTyped
               PROVE  CanonicalTextKeepsLines
    OBVIOUS
  <2> DEFINE w == WithoutMark(text)
             o == CanonicalText(text)
             kept == {k \in DOMAIN w : ~ (w[k] = "lf" /\ k > 1 /\ w[k - 1] = "cr")}
  <2>1. /\ w \in Seq(TextCharacters)
        /\ ~ (Len(text) > 1 /\ text[1] = "bom" /\ text[2] = "bom") =>
             (w # <<>> => w[1] # "bom")
    BY MarkIsRemoved DEF TextTyped
  <2> HIDE DEF w
  <2>2. IsWritten(w, Len(w), Folded("text", w)) /\ o = Folded("text", w).out
    BY <2>1, WrittenFacts, TextIsFolded DEF w
  <2> HIDE DEF o
  <2>3. /\ o \in Seq(TextCharacters)
        /\ \A k \in DOMAIN o : o[k] # "cr"
        /\ Len(o) = Cardinality(KeptUpTo(w, Len(w)))
        /\ \A k \in KeptUpTo(w, Len(w)) : o[Cardinality(KeptUpTo(w, k))] = WrittenAs(w, k)
        /\ Len(w) = 0 => o = <<>>
        /\ Len(w) # 0 => (o[1] = "bom" <=> w[1] = "bom")
    BY <2>2 DEF IsWritten
  <2>4. kept = KeptUpTo(w, Len(w))
    BY <2>1 DEF KeptUpTo, Keeps
  <2>5. \A k \in kept : {j \in kept : j <= k} = KeptUpTo(w, k)
    BY <2>1, <2>4 DEF KeptUpTo
  <2>6. ~ (Len(text) > 1 /\ text[1] = "bom" /\ text[2] = "bom") => CanonicalText(o) = o
    <3>1. ASSUME ~ (Len(text) > 1 /\ text[1] = "bom" /\ text[2] = "bom")
          PROVE  o # <<>> => o[1] # "bom"
      BY <2>1, <2>3, <3>1
    <3>2. QED
      BY <2>3, <3>1, CanonicalIsKept
  <2> HIDE DEF kept
  <2>7. /\ Len(o) = Cardinality(kept)
        /\ \A k \in kept : o[Cardinality({j \in kept : j <= k})]
                             = IF w[k] = "cr" THEN "lf" ELSE w[k]
    BY <2>3, <2>4, <2>5 DEF WrittenAs
  <2>8. QED
    BY <2>6, <2>7 DEF CanonicalTextKeepsLines, o, w, kept
<1>4. QED
  BY <1>1, <1>2, <1>3, PTL DEF Spec

----------------------------------------------------------------------------
\* Records.

\* The size of records is a number.
LEMMA SizesAreNumbers ==
  ASSUME NEW r \in Seq(Nat)
  PROVE  SizeOfRecords(r) \in Nat
<1>1. Len(r) \in Nat /\ DOMAIN r = 1 .. Len(r)
  OBVIOUS
<1>2. PICK after : Unfolds(after, "records", r)
  BY <1>1, FoldedFacts
<1> DEFINE Good == {n \in Nat : n <= Len(r) => after[n] \in Nat}
<1>3. Good \in SUBSET Nat /\ 0 \in Good
  BY <1>2 DEF Unfolds, Beginning
<1>4. \A n \in Nat : n < Len(r) /\ n \in Good => n + 1 \in Good
  <2>1. ASSUME NEW n \in Nat, n < Len(r), after[n] \in Nat
        PROVE  after[n + 1] \in Nat
    <3>1. after[n + 1] = after[n] + RECORD_LENGTH_BYTES + r[n + 1]
      BY <1>2, <2>1 DEF Unfolds, With
    <3>2. r[n + 1] \in Nat
      BY <2>1
    <3>3. QED
      BY <2>1, <3>1, <3>2 DEF RECORD_LENGTH_BYTES
  <2>2. QED
    BY <2>1
<1>5. Len(r) \in Good
  <2> HIDE DEF Good
  <2>1. \A n \in Nat : n <= Len(r) => n \in Good
    BY <1>1, <1>3, <1>4, UpTo
  <2>2. QED
    BY <1>1, <2>1
<1>6. QED
  BY <1>1, <1>2, <1>5, RecordsAreFolded DEF Unfolds

\* What division by a record's length leaves of the bytes beyond n of them.
LEMMA Remainder ==
  ASSUME NEW s \in Nat, NEW p \in Nat, p # 0, NEW n \in Nat, n * p < s, s < (n + 1) * p
  PROVE  s % p = s - n * p
<1> DEFINE q == s \div p
           x == s % p
<1>1. q \in Nat /\ x \in Nat /\ x < p /\ s = p * q + x
  OBVIOUS
<1> HIDE DEF q, x
<1>2. ASSUME q < n
      PROVE  FALSE
  <2>1. q + 1 <= n
    BY <1>1, <1>2
  <2>2. p * (q + 1) <= p * n
    BY <1>1, <2>1
  <2>3. p * (q + 1) = p * q + p
    BY <1>1
  <2>4. QED
    BY <1>1, <2>2, <2>3
<1>3. ASSUME q > n
      PROVE  FALSE
  <2>1. n + 1 <= q
    BY <1>1, <1>3
  <2>2. p * (n + 1) <= p * q
    BY <1>1, <2>1
  <2>3. QED
    BY <1>1, <2>2
<1>4. q = n
  BY <1>1, <1>2, <1>3
<1>5. QED
  BY <1>1, <1>4 DEF x

\* What the records of a message carry without their tags is the message.
LEMMA RecordsCarryTheMessage ==
  ASSUME NEW size \in Nat, size > 0
  PROVE  /\ Records(size) # <<>>
         /\ \A k \in DOMAIN Records(size) :
              Records(size)[k] \in NOISE_TAG_BYTES .. MAX_NOISE_MESSAGE_BYTES
         /\ ClearSize(Records(size)) = size
         /\ SizeOfRecords(Records(size)) \in Nat
<1> DEFINE P == TRANSPORT_PLAINTEXT_RECORD_BYTES
           T == NOISE_TAG_BYTES
           M == MAX_NOISE_MESSAGE_BYTES
           m == (size + P - 1) \div P
           r == Records(size)
<1>1. P \in Nat /\ P # 0 /\ T \in Nat /\ M \in Nat
  BY DEF TRANSPORT_PLAINTEXT_RECORD_BYTES, NOISE_TAG_BYTES, MAX_NOISE_MESSAGE_BYTES
<1>2. T + P <= M
  BY DEF TRANSPORT_PLAINTEXT_RECORD_BYTES, NOISE_TAG_BYTES, MAX_NOISE_MESSAGE_BYTES
<1>3. m \in Nat /\ m # 0 /\ m * P >= size /\ (m - 1) * P < size
  BY DEF TRANSPORT_PLAINTEXT_RECORD_BYTES
<1>4. r = [k \in 1 .. m |-> T + IF k * P <= size THEN P ELSE size % P]
  BY DEF Records
<1> DEFINE x == size % P
<1> HIDE DEF P, T, M, m, r
<1>5. x \in Nat /\ x < P
  BY <1>1
<1>6. \A n \in Nat : n * P < size /\ size < (n + 1) * P => x = size - n * P
  BY <1>1, Remainder
<1> HIDE DEF x
<1>7. r = [k \in 1 .. m |-> T + IF k * P <= size THEN P ELSE x]
  BY <1>4 DEF x
<1>8. \A k \in 1 .. m : r[k] = T + P \/ r[k] = T + x
  BY <1>7
<1>9. \A k \in 1 .. m : r[k] \in T .. M
  <2>1. T + P \in T .. M /\ T + x \in T .. M
    BY <1>1, <1>2, <1>5
  <2>2. QED
    BY <1>8, <2>1
<1>10. DOMAIN r = 1 .. m
  BY <1>4
<1>11. r \in Seq(Nat) /\ Len(r) = m
  <2>1. \A k \in 1 .. m : r[k] \in Nat
    BY <1>1, <1>9
  <2>2. r = [k \in 1 .. m |-> r[k]]
    BY <1>4
  <2>3. QED
    BY <1>3, <2>1, <2>2
<1>12. PICK after : Unfolds(after, "clear", r)
  BY <1>3, <1>10, <1>11, FoldedFacts
<1> DEFINE Carried(n) == IF n * P <= size THEN n * P ELSE size
           Good == {n \in Nat : after[n] = Carried(n)}
<1>13. Good \in SUBSET Nat /\ 0 \in Good
  <2>1. after[0] = 0
    BY <1>12 DEF Unfolds, Beginning
  <2>2. 0 * P = 0
    BY <1>1
  <2>3. QED
    BY <2>1, <2>2
<1>14. \A n \in Nat : n < m /\ n \in Good => n + 1 \in Good
  <2>1. ASSUME NEW n \in Nat, n < m, after[n] = Carried(n)
        PROVE  after[n + 1] = Carried(n + 1)
    <3>1. after[n + 1] = after[n] + r[n + 1] - T
      BY <1>11, <1>12, <2>1 DEF Unfolds, With, T
    <3>2. n * P <= (m - 1) * P
      BY <1>1, <1>3, <2>1
    <3>3. after[n] = n * P /\ n * P < size /\ n * P \in Nat
      BY <1>1, <1>3, <2>1, <3>2
    <3>4. n + 1 \in 1 .. m
      BY <1>3, <2>1
    <3>5. CASE (n + 1) * P <= size
      <4>1. r[n + 1] = T + P
        BY <1>7, <3>4, <3>5
      <4>2. (n + 1) * P = n * P + P
        BY <1>1
      <4>3. QED
        BY <1>1, <3>1, <3>3, <3>5, <4>1, <4>2
    <3>6. CASE ~ ((n + 1) * P <= size)
      <4>1. r[n + 1] = T + x
        BY <1>7, <3>4, <3>6
      <4>2. x = size - n * P
        BY <1>1, <1>6, <3>3, <3>6
      <4>3. QED
        BY <1>1, <1>5, <3>1, <3>3, <3>6, <4>1, <4>2
    <3>7. QED
      BY <3>5, <3>6
  <2>2. QED
    BY <2>1
<1>15. m \in Good
  <2> HIDE DEF Good
  <2>1. \A n \in Nat : n <= m => n \in Good
    BY <1>3, <1>13, <1>14, UpTo
  <2>2. QED
    BY <1>3, <2>1
<1>16. ClearSize(r) = size
  <2>1. ClearSize(r) = after[m]
    BY <1>11, <1>12, ClearIsFolded DEF Unfolds
  <2>2. QED
    BY <1>1, <1>3, <1>15, <2>1
<1>17. r # <<>>
  BY <1>3, <1>11
<1>18. SizeOfRecords(r) \in Nat
  BY <1>11, SizesAreNumbers
<1>19. QED
  BY <1>9, <1>10, <1>16, <1>17, <1>18 DEF r, T, M

\* A size is one of those that are looked at.
SizesTyped == subject = "size" => number \in Sizes

\* A message of any size that the transport encrypts arrives: its frame fits the body, its
\* records have admissible lengths, and together they carry the message.
THEOREM EncryptedMessagesArrive == Spec => []WhatIsEncryptedArrives
<1>1. Init => SizesTyped
  BY DEF Init, SizesTyped
<1>2. SizesTyped /\ [Next]_vars => SizesTyped'
  BY DEF SizesTyped, Next, vars, Damage, TypeCharacter, TypeSlash, AddFile, TypeText
<1>3. SizesTyped => WhatIsEncryptedArrives
  <2> SUFFICES ASSUME number \in Nat, Encrypts(number)
               PROVE  Arrives(number)
    BY SizesAssumption DEF SizesTyped, WhatIsEncryptedArrives
  <2>1. number > 0 /\ SizeOfRecords(Records(number)) <= MAX_TRANSPORT_CIPHERTEXT_BYTES
    BY DEF Encrypts
  <2>2. FrameSize(Records(number)) <= MAX_HTTP_BODY_BYTES
    <3>1. SizeOfRecords(Records(number)) \in Nat
      BY <2>1, RecordsCarryTheMessage
    <3>2. QED
      BY <2>1, <3>1 DEF FrameSize, MAX_HTTP_BODY_BYTES, MAX_TRANSPORT_CIPHERTEXT_BYTES,
                        FRAME_HEADER_BYTES
  <2>3. QED
    BY <2>1, <2>2, RecordsCarryTheMessage DEF Arrives, Decrypts
<1>4. QED
  BY <1>1, <1>2, <1>3, PTL DEF Spec
=============================================================================
