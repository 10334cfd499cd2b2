----------------------- MODULE WordReplacement_proofs ------------------------
(***************************************************************************)
(* Proofs about WordReplacement, for any number of commands, any hunks     *)
(* that fit the text they were computed against and any bounds: what the   *)
(* user types survives every write and every rollback, and a transaction   *)
(* nobody disturbs is all or nothing.                                      *)
(***************************************************************************)
EXTENDS WordReplacement, FiniteSetTheorems, WellFoundedInduction, SequenceTheorems,
        TLAPS

-----------------------------------------------------------------------------
(* Numbers: the facts the proofs use instead of induction. *)

\* Every set of numbers that is not empty has a least one.
LEMMA LeastNumber ==
    ASSUME NEW T, T \subseteq Nat, T # {}
    PROVE  \E x \in T : \A y \in T : x <= y
<1> DEFINE Below == {0 .. n : n \in T}
<1>1. Below \subseteq FiniteSubsetsOf(Nat) /\ Below # {}
  <2>1. \A n \in T : 0 .. n \subseteq Nat /\ IsFiniteSet(0 .. n)
    BY FS_Interval
  <2> QED
    BY <2>1 DEF FiniteSubsetsOf
<1>2. PICK least \in Below : \A y \in Below : ~(<<y, least>> \in StrictSubsetOrdering(Nat))
  BY <1>1, FS_StrictSubsetOrderingWellFounded, WFMin
<1>3. PICK x \in T : least = 0 .. x
  BY <1>2
<1>4. ASSUME NEW y \in T, ~(x <= y)
      PROVE  FALSE
  <2>1. 0 .. y \subseteq 0 .. x /\ x \in 0 .. x /\ x \notin 0 .. y
    BY <1>4
  <2>2. <<0 .. y, 0 .. x>> \in StrictSubsetOrdering(Nat)
    BY <2>1 DEF StrictSubsetOrdering
  <2> QED
    BY <1>2, <1>3, <1>4, <2>2
<1> QED
  BY <1>4

\* Where a finite set is ordered, how many elements come before one tells which it
\* is: every rank has one.
LEMMA RanksAreHit ==
    ASSUME NEW S, IsFiniteSet(S), NEW above \in [S -> SUBSET S],
           NEW k \in 1 .. Cardinality(S),
           \A x, y \in S : x = y \/ x \in above[y] \/ y \in above[x],
           \A x \in S : x \notin above[x],
           \A x, y \in S : y \in above[x] => above[y] \subseteq above[x]
    PROVE  \E x \in S : Cardinality(above[x]) = k - 1
<1>1. PICK n \in Nat : n = Cardinality(S)
  BY FS_CardinalityType
<1>2. ASSUME NEW x \in S
      PROVE  IsFiniteSet(above[x]) /\ Cardinality(above[x]) \in 0 .. n - 1
  <2>1. above[x] \subseteq S /\ above[x] # S
    OBVIOUS
  <2>2. /\ IsFiniteSet(above[x]) /\ Cardinality(above[x]) <= n
        /\ Cardinality(above[x]) # n
    BY <1>1, <2>1, FS_Subset
  <2>3. Cardinality(above[x]) \in Nat
    BY <2>2, FS_CardinalityType
  <2> QED
    BY <1>1, <2>2, <2>3
<1>3. ASSUME NEW x \in S, NEW y \in S, x \in above[y]
      PROVE  Cardinality(above[x]) # Cardinality(above[y])
  <2>1. above[x] \subseteq above[y] /\ above[x] # above[y]
    BY <1>3
  <2> QED
    BY <1>2, <2>1, FS_Subset
<1>4. PICK rank : rank = [x \in S |-> Cardinality(above[x])]
  OBVIOUS
<1>5. rank \in [S -> 0 .. n - 1] /\ \A x, y \in S : rank[x] = rank[y] => x = y
  BY <1>2, <1>3, <1>4
<1>6. rank \in Injection(S, 0 .. n - 1)
  BY <1>5 DEF Injection, IsInjective
<1>7. IsFiniteSet(0 .. n - 1) /\ Cardinality(0 .. n - 1) = n
  <2>1. 0 \in Int /\ n - 1 \in Int
    BY <1>1
  <2>2. /\ IsFiniteSet(0 .. n - 1)
        /\ Cardinality(0 .. n - 1) = IF 0 > n - 1 THEN 0 ELSE n - 1 - 0 + 1
    BY <2>1, FS_Interval
  <2> QED
    BY <1>1, <2>2
<1>8. rank \in Surjection(S, 0 .. n - 1)
  BY <1>1, <1>6, <1>7, FS_Injection
<1>9. PICK x \in S : rank[x] = k - 1
  BY <1>1, <1>8 DEF Surjection
<1> QED
  BY <1>4, <1>9

-----------------------------------------------------------------------------
(* Texts *)

\* A slice has the words of its stretch, as far as there are any.
LEMMA SliceIs ==
    ASSUME NEW W, NEW text \in Seq(W), NEW from \in Nat, NEW to \in Nat
    PROVE  LET s == Slice(text, from, to)
               last == IF to <= Len(text) THEN to ELSE Len(text)
           IN  /\ s \in Seq(W)
               /\ Len(s) = IF from <= last THEN last - from ELSE 0
               /\ \A i \in 1 .. Len(s) : s[i] = text[from + i]
<1>1. PICK last \in Nat : last = IF to <= Len(text) THEN to ELSE Len(text)
  OBVIOUS
<1>2. last <= Len(text) /\ Slice(text, from, to) = SubSeq(text, from + 1, last)
  BY <1>1 DEF Slice
<1>3. CASE from + 1 <= last + 1
  <2>1. from + 1 \in 1 .. Len(text) + 1 /\ last \in from + 1 - 1 .. Len(text)
    BY <1>2, <1>3
  <2> QED
    BY <1>1, <1>2, <1>3, <2>1, SubSeqProperties
<1>4. CASE ~(from + 1 <= last + 1)
  <2>1. SubSeq(text, from + 1, last) = << >>
    BY <1>4
  <2> QED
    BY <1>1, <1>2, <1>4, <2>1
<1> QED
  BY <1>3, <1>4

\* Every word of a text is before a stretch, in it or after it.
LEMMA SlicesCover ==
    ASSUME NEW W, NEW text \in Seq(W), NEW from \in Nat, NEW to \in Nat, NEW w \in Range(text)
    PROVE  w \in Range(Slice(text, 0, from)) \cup Range(Slice(text, from, to))
                   \cup Range(Slice(text, to, Len(text)))
<1>1. PICK i \in 1 .. Len(text) : text[i] = w
  BY DEF Range
<1>2. Len(text) \in Nat
  OBVIOUS
<1>3. CASE i <= from
  <2>1. PICK s : s = Slice(text, 0, from)
    OBVIOUS
  <2>2. s \in Seq(W) /\ i \in 1 .. Len(s) /\ s[i] = text[0 + i]
    BY <1>2, <1>3, <2>1, SliceIs
  <2> QED
    BY <1>1, <2>1, <2>2 DEF Range
<1>4. CASE from < i /\ i <= to
  <2>1. PICK s : s = Slice(text, from, to)
    OBVIOUS
  <2>2. PICK j : j = i - from
    OBVIOUS
  <2>3. /\ s \in Seq(W) /\ \A m \in 1 .. Len(s) : s[m] = text[from + m]
        /\ Len(s) = LET last == IF to <= Len(text) THEN to ELSE Len(text)
                    IN  IF from <= last THEN last - from ELSE 0
    BY <1>2, <2>1, SliceIs, ZenonT(60)
  <2>4. j \in 1 .. Len(s) /\ from + j = i
    BY <1>2, <1>4, <2>2, <2>3
  <2>5. s[j] = w
    BY <1>1, <2>3, <2>4
  <2> QED
    BY <2>1, <2>3, <2>4, <2>5 DEF Range
<1>5. CASE to < i
  <2>1. PICK s : s = Slice(text, to, Len(text))
    OBVIOUS
  <2>2. PICK j : j = i - to
    OBVIOUS
  <2>3. /\ s \in Seq(W) /\ \A m \in 1 .. Len(s) : s[m] = text[to + m]
        /\ Len(s) = LET last == IF Len(text) <= Len(text) THEN Len(text) ELSE Len(text)
                    IN  IF to <= last THEN last - to ELSE 0
    BY <1>2, <2>1, SliceIs
  <2>4. j \in 1 .. Len(s) /\ to + j = i
    BY <1>2, <1>5, <2>2, <2>3
  <2>5. s[j] = w
    BY <1>1, <2>3, <2>4
  <2> QED
    BY <2>1, <2>3, <2>4, <2>5 DEF Range
<1> QED
  BY <1>3, <1>4, <1>5

\* Texts join in any order of joining.
LEMMA TextsAssociate ==
    \A s, t, u \in Seq(Words) : (s \o t) \o u = s \o (t \o u)
BY ConcatAssociative

LEMMA JoinedRange ==
    ASSUME NEW W, NEW s \in Seq(W), NEW t \in Seq(W)
    PROVE  s \o t \in Seq(W) /\ Range(s \o t) = Range(s) \cup Range(t)
<1>1. /\ s \o t \in Seq(W) /\ Len(s \o t) = Len(s) + Len(t)
      /\ \A i \in 1 .. Len(s) : (s \o t)[i] = s[i]
      /\ \A i \in 1 .. Len(t) : (s \o t)[Len(s) + i] = t[i]
  BY ConcatProperties
<1>2. \A i \in 1 .. Len(s \o t) : i \in 1 .. Len(s) \/ i - Len(s) \in 1 .. Len(t)
  BY <1>1
<1>3. /\ \A i \in 1 .. Len(s) : i \in 1 .. Len(s \o t)
      /\ \A i \in 1 .. Len(t) : Len(s) + i \in 1 .. Len(s \o t)
  BY <1>1
<1>4. Range(s \o t) \subseteq Range(s) \cup Range(t)
  BY <1>1, <1>2 DEF Range
<1>5. Range(s) \cup Range(t) \subseteq Range(s \o t)
  <2>1. ASSUME NEW i \in 1 .. Len(s)
        PROVE  s[i] \in Range(s \o t)
    BY <1>1, <1>3 DEF Range
  <2>2. ASSUME NEW i \in 1 .. Len(t)
        PROVE  t[i] \in Range(s \o t)
    <3>1. Len(s) + i \in DOMAIN (s \o t) /\ (s \o t)[Len(s) + i] = t[i]
      BY <1>1, <1>3
    <3> QED
      BY <3>1 DEF Range
  <2>3. DOMAIN s = 1 .. Len(s) /\ DOMAIN t = 1 .. Len(t)
    OBVIOUS
  <2>4. Range(s) \subseteq Range(s \o t)
    BY <2>1, <2>3 DEF Range
  <2>5. Range(t) \subseteq Range(s \o t)
    BY <2>2, <2>3 DEF Range
  <2> QED
    BY <2>4, <2>5
<1> QED
  BY <1>1, <1>4, <1>5

\* A splice loses no word but those of the stretch it replaces.
LEMMA SpliceKeeps ==
    ASSUME NEW W, NEW text \in Seq(W), NEW from \in Nat, NEW to \in Nat, NEW new \in Seq(W)
    PROVE  /\ Splice(text, from, to, new) \in Seq(W)
           /\ Range(new) \subseteq Range(Splice(text, from, to, new))
           /\ Range(text) \subseteq Range(Splice(text, from, to, new)) \cup Range(Slice(text, from, to))
<1>1. PICK a, b, c : /\ a = Slice(text, 0, from) /\ b = Slice(text, from, to)
                     /\ c = Slice(text, to, Len(text))
  OBVIOUS
<1>2. Len(text) \in Nat /\ 0 \in Nat
  OBVIOUS
<1>3. a \in Seq(W) /\ c \in Seq(W)
  BY <1>1, <1>2, SliceIs
<1>4. Range(text) \subseteq Range(a) \cup Range(b) \cup Range(c)
  BY <1>1, SlicesCover
<1>5. PICK d : d = a \o new
  OBVIOUS
<1>6. d \in Seq(W) /\ Range(d) = Range(a) \cup Range(new)
  BY <1>3, <1>5, JoinedRange
<1>7. Splice(text, from, to, new) \in Seq(W)
      /\ Range(Splice(text, from, to, new)) = Range(d) \cup Range(c)
  <2>1. d \o c \in Seq(W) /\ Range(d \o c) = Range(d) \cup Range(c)
    BY <1>3, <1>6, JoinedRange
  <2> QED
    BY <1>1, <1>5, <2>1 DEF Splice
<1> QED
  BY <1>1, <1>4, <1>5, <1>6, <1>7

\* Taking a word out loses no other.
LEMMA RemoveKeeps ==
    ASSUME NEW W, NEW text \in Seq(W), NEW at \in 1 .. Len(text)
    PROVE  /\ RemoveAt(text, at) \in Seq(W)
           /\ \A w \in Range(text) : w \in Range(RemoveAt(text, at)) \/ w = text[at]
<1>1. PICK a, b : a = SubSeq(text, 1, at - 1) /\ b = SubSeq(text, at + 1, Len(text))
  OBVIOUS
<1>2. Len(text) \in Nat
  OBVIOUS
<1>3. a \in Seq(W) /\ Len(a) = at - 1 /\ \A i \in 1 .. Len(a) : a[i] = text[i]
  BY <1>1, <1>2, SubSeqProperties
<1>4. b \in Seq(W) /\ Len(b) = Len(text) - at /\ \A i \in 1 .. Len(b) : b[i] = text[at + i]
  BY <1>1, <1>2, SubSeqProperties
<1>5. a \o b \in Seq(W) /\ Range(a \o b) = Range(a) \cup Range(b)
  BY <1>3, <1>4, JoinedRange
<1>6. ASSUME NEW w \in Range(text), w # text[at]
      PROVE  w \in Range(a) \cup Range(b)
  <2>1. PICK i \in 1 .. Len(text) : text[i] = w
    BY DEF Range
  <2>2. CASE i < at
    <3>1. i \in 1 .. Len(a) /\ a[i] = w
      BY <1>2, <1>3, <2>1, <2>2
    <3> QED
      BY <1>3, <3>1 DEF Range
  <2>3. CASE at < i
    <3>1. i - at \in 1 .. Len(b) /\ b[i - at] = text[at + (i - at)]
      BY <1>2, <1>4, <2>1, <2>3
    <3> QED
      BY <1>4, <2>1, <3>1 DEF Range
  <2> QED
    BY <1>6, <2>1, <2>2, <2>3
<1>7. RemoveAt(text, at) = a \o b
  BY <1>1 DEF RemoveAt
<1> QED
  BY <1>5, <1>6, <1>7

LEMMA InnerSlice ==
    ASSUME NEW W, NEW text \in Seq(W), NEW from \in Nat, NEW to \in Nat,
           from <= to, to <= Len(text)
    PROVE  LET s == Slice(text, from, to)
           IN  s \in Seq(W) /\ Len(s) = to - from /\ \A i \in 1 .. to - from : s[i] = text[from + i]
<1>1. PICK s : s = Slice(text, from, to)
  OBVIOUS
<1>2. s \in Seq(W) /\ Len(s) = to - from
  BY <1>1, SliceIs
<1>3. \A i \in 1 .. Len(s) : s[i] = text[from + i]
  BY <1>1, SliceIs
<1> QED
  BY <1>1, <1>2, <1>3

\* Two slices that meet are one, and the slice of all is the text.
LEMMA SlicesMeet ==
    ASSUME NEW W, NEW text \in Seq(W), NEW a \in Nat, NEW b \in Nat, NEW c \in Nat,
           a <= b, b <= c, c <= Len(text)
    PROVE  Slice(text, a, b) \o Slice(text, b, c) = Slice(text, a, c)
<1>1. b <= Len(text) /\ Len(text) \in Nat
  OBVIOUS
<1>2. /\ Slice(text, a, b) = SubSeq(text, a + 1, b) /\ Slice(text, b, c) = SubSeq(text, b + 1, c)
      /\ Slice(text, a, c) = SubSeq(text, a + 1, c)
  BY <1>1 DEF Slice
<1>3. a + 1 \in 1 .. Len(text) + 1 /\ b \in (a + 1) - 1 .. Len(text) /\ c \in b .. Len(text)
  BY <1>1
<1>4. SubSeq(text, a + 1, b) \o SubSeq(text, b + 1, c) = SubSeq(text, a + 1, c)
  BY <1>3, ConcatAdjacentSubSeq
<1> QED
  BY <1>2, <1>4

LEMMA SliceOfAll ==
    ASSUME NEW W, NEW text \in Seq(W)
    PROVE  Slice(text, 0, Len(text)) = text
<1>1. Slice(text, 0, Len(text)) = SubSeq(text, 1, Len(text))
  BY DEF Slice
<1> QED
  BY <1>1, SubSeqFull

\* The slices of three texts in a row are these texts.
LEMMA PartsAre ==
    ASSUME NEW W, NEW a \in Seq(W), NEW b \in Seq(W), NEW c \in Seq(W)
    PROVE  LET text == (a \o b) \o c
           IN  /\ text \in Seq(W) /\ Len(text) = Len(a) + Len(b) + Len(c)
               /\ Slice(text, 0, Len(a)) = a
               /\ Slice(text, Len(a), Len(a) + Len(b)) = b
               /\ Slice(text, Len(a) + Len(b), Len(text)) = c
<1>0. PICK text : text = (a \o b) \o c
  OBVIOUS
<1>1. PICK m \in Nat, n \in Nat, p \in Nat : m = Len(a) /\ n = Len(b) /\ p = Len(c)
  OBVIOUS
<1>q. PICK q \in Nat : q = m + n
  OBVIOUS
<1>2. /\ a \o b \in Seq(W) /\ Len(a \o b) = m + n
      /\ \A i \in 1 .. m + n : (a \o b)[i] = IF i <= m THEN a[i] ELSE b[i - m]
  BY <1>1, ConcatProperties
<1>3. /\ text \in Seq(W) /\ Len(text) = (m + n) + p
      /\ \A i \in 1 .. (m + n) + p :
            text[i] = IF i <= m + n THEN (a \o b)[i] ELSE c[i - (m + n)]
  BY <1>0, <1>1, <1>2, ConcatProperties
<1>t. text \in Seq(W)
  BY <1>3
<1>4. Slice(text, 0, m) = a
  <2>1. PICK s : s = Slice(text, 0, m)
    OBVIOUS
  <2>2. s \in Seq(W) /\ Len(s) = m /\ \A i \in 1 .. Len(s) : s[i] = text[0 + i]
    <3>1. m <= Len(text) /\ 0 <= m /\ m - 0 = m /\ 0 \in Nat
      BY <1>1, <1>3
    <3>a. 0 \in Nat /\ m \in Nat /\ 0 <= m /\ m <= Len(text)
      BY <1>1, <1>q, <3>1
    <3>2. LET r == Slice(text, 0, m)
          IN  r \in Seq(W) /\ Len(r) = m - 0 /\ \A i \in 1 .. m - 0 : r[i] = text[0 + i]
      BY <1>t, <3>a, InnerSlice, ZenonT(60)
    <3> QED
      BY <2>1, <3>1, <3>2
  <2>3. \A i \in 1 .. Len(s) : s[i] = a[i]
    BY <1>1, <1>2, <1>3, <2>2
  <2> QED
    BY <1>1, <2>1, <2>2, <2>3, SeqEqual
<1>5. Slice(text, m, q) = b
  <2>1. PICK s : s = Slice(text, m, q)
    OBVIOUS
  <2>2. s \in Seq(W) /\ Len(s) = n /\ \A i \in 1 .. Len(s) : s[i] = text[m + i]
    <3>1. q <= Len(text) /\ m <= q /\ q - m = n
      BY <1>1, <1>3, <1>q
    <3>a. m \in Nat /\ q \in Nat /\ m <= q /\ q <= Len(text)
      BY <1>1, <1>q, <3>1
    <3>2. LET r == Slice(text, m, q)
          IN  r \in Seq(W) /\ Len(r) = q - m /\ \A i \in 1 .. q - m : r[i] = text[m + i]
      BY <1>t, <3>a, InnerSlice, ZenonT(60)
    <3> QED
      BY <2>1, <3>1, <3>2
  <2>3. ASSUME NEW i \in 1 .. Len(s)
        PROVE  s[i] = b[i]
    <3>1. m + i \in 1 .. (m + n) + p /\ m + i <= m + n /\ ~(m + i <= m) /\ (m + i) - m = i
      BY <1>1, <2>2
    <3>2. text[m + i] = (a \o b)[m + i] /\ (a \o b)[m + i] = b[(m + i) - m]
      BY <1>1, <1>2, <1>3, <3>1
    <3> QED
      BY <2>2, <3>1, <3>2
  <2> QED
    BY <1>1, <2>1, <2>2, <2>3, SeqEqual
<1>6. Slice(text, q, Len(text)) = c
  <2>1. PICK s : s = Slice(text, q, Len(text))
    OBVIOUS
  <2>2. s \in Seq(W) /\ Len(s) = p /\ \A i \in 1 .. Len(s) : s[i] = text[q + i]
    <3>1. /\ Len(text) <= Len(text) /\ q <= Len(text) /\ Len(text) - q = p
          /\ Len(text) \in Nat
      BY <1>1, <1>3, <1>q
    <3>a. q \in Nat /\ Len(text) \in Nat /\ q <= Len(text) /\ Len(text) <= Len(text)
      BY <1>1, <1>q, <3>1
    <3>2. LET r == Slice(text, q, Len(text))
          IN  /\ r \in Seq(W) /\ Len(r) = Len(text) - q
              /\ \A i \in 1 .. Len(text) - q : r[i] = text[q + i]
      BY <1>t, <3>a, InnerSlice, ZenonT(60)
    <3> QED
      BY <2>1, <3>1, <3>2
  <2>3. ASSUME NEW i \in 1 .. Len(s)
        PROVE  s[i] = c[i]
    <3>1. q + i \in 1 .. (m + n) + p /\ ~(q + i <= m + n) /\ (q + i) - (m + n) = i
      BY <1>1, <1>q, <2>2
    <3>2. text[q + i] = c[(q + i) - (m + n)]
      BY <1>3, <3>1
    <3> QED
      BY <2>2, <3>1, <3>2
  <2> QED
    BY <1>1, <2>1, <2>2, <2>3, SeqEqual
<1> QED
  BY <1>0, <1>1, <1>q, <1>3, <1>4, <1>5, <1>6

\* What a splice inside a text leaves: what was before it, the new words and
\* what was after it; and it can be undone.
LEMMA SpliceIs ==
    ASSUME NEW W, NEW text \in Seq(W), NEW from \in Nat, NEW to \in Nat, NEW new \in Seq(W),
           from <= to, to <= Len(text)
    PROVE  LET after == Splice(text, from, to, new)
           IN  /\ after \in Seq(W) /\ Len(after) = from + Len(new) + (Len(text) - to)
               /\ Slice(after, 0, from) = Slice(text, 0, from)
               /\ Slice(after, from, from + Len(new)) = new
               /\ Slice(after, from + Len(new), Len(after)) = Slice(text, to, Len(text))
<1>1. PICK a, c : a = Slice(text, 0, from) /\ c = Slice(text, to, Len(text))
  OBVIOUS
<1>2. Len(text) \in Nat /\ from <= Len(text) /\ 0 \in Nat
  OBVIOUS
<1>3. a \in Seq(W) /\ Len(a) = from
  BY <1>1, <1>2, SliceIs
<1>4. c \in Seq(W) /\ Len(c) = Len(text) - to
  BY <1>1, <1>2, SliceIs
<1>5. LET after == (a \o new) \o c
      IN  /\ after \in Seq(W) /\ Len(after) = Len(a) + Len(new) + Len(c)
          /\ Slice(after, 0, Len(a)) = a
          /\ Slice(after, Len(a), Len(a) + Len(new)) = new
          /\ Slice(after, Len(a) + Len(new), Len(after)) = c
  <2>1. a \in Seq(W) /\ new \in Seq(W) /\ c \in Seq(W)
    BY <1>3, <1>4
  <2> QED
    BY <2>1, PartsAre
<1>6. (a \o new) \o c = Splice(text, from, to, new)
  BY <1>1 DEF Splice
<1> QED
  BY <1>1, <1>3, <1>4, <1>5, <1>6

LEMMA SpliceUndone ==
    ASSUME NEW W, NEW text \in Seq(W), NEW from \in Nat, NEW to \in Nat, NEW new \in Seq(W),
           from <= to, to <= Len(text)
    PROVE  Splice(Splice(text, from, to, new), from, from + Len(new), Slice(text, from, to)) = text
<1>1. PICK after : after = Splice(text, from, to, new)
  OBVIOUS
<1>2. /\ Slice(after, 0, from) = Slice(text, 0, from)
      /\ Slice(after, from + Len(new), Len(after)) = Slice(text, to, Len(text))
  BY <1>1, SpliceIs
<1>3. Splice(after, from, from + Len(new), Slice(text, from, to))
         = Slice(text, 0, from) \o Slice(text, from, to) \o Slice(text, to, Len(text))
  BY <1>2 DEF Splice
<1>4. Len(text) \in Nat /\ 0 \in Nat /\ 0 <= from /\ 0 <= to /\ Len(text) <= Len(text)
  OBVIOUS
<1>5. Slice(text, 0, from) \o Slice(text, from, to) = Slice(text, 0, to)
  BY <1>4, SlicesMeet
<1>6. Slice(text, 0, to) \o Slice(text, to, Len(text)) = Slice(text, 0, Len(text))
  BY <1>4, SlicesMeet
<1> QED
  BY <1>1, <1>3, <1>5, <1>6, SliceOfAll

\* Texts that begin alike have the same slices there.
LEMMA SlicesAgree ==
    ASSUME NEW W, NEW text \in Seq(W), NEW other \in Seq(W),
           NEW a \in Nat, NEW b \in Nat, NEW last \in Nat, b <= last,
           last <= Len(text), last <= Len(other), Slice(text, 0, last) = Slice(other, 0, last)
    PROVE  Slice(text, a, b) = Slice(other, a, b)
<1>1. PICK s : s = Slice(text, 0, last)
  OBVIOUS
<1>2. /\ Len(s) = last /\ \A i \in 1 .. Len(s) : s[i] = text[0 + i]
      /\ \A i \in 1 .. Len(s) : s[i] = other[0 + i]
  <2>1. 0 \in Nat /\ 0 <= last /\ last - 0 = last
    OBVIOUS
  <2>2. Len(s) = last - 0 /\ \A i \in 1 .. last - 0 : s[i] = text[0 + i]
    BY <1>1, <2>1, InnerSlice, ZenonT(60)
  <2>3. \A i \in 1 .. last - 0 : s[i] = other[0 + i]
    <3>1. s = Slice(other, 0, last)
      BY <1>1
    <3> QED
      BY <2>1, <3>1, InnerSlice, ZenonT(60)
  <2> QED
    BY <2>1, <2>2, <2>3
<1>3. \A i \in 1 .. last : text[i] = other[i]
  BY <1>2
<1>4. PICK t, u : t = Slice(text, a, b) /\ u = Slice(other, a, b)
  OBVIOUS
<1>5. b <= Len(text) /\ b <= Len(other)
  OBVIOUS
<1>6. CASE a <= b
  <2>1. t \in Seq(W) /\ Len(t) = b - a /\ \A i \in 1 .. b - a : t[i] = text[a + i]
    BY <1>4, <1>5, <1>6, InnerSlice
  <2>2. u \in Seq(W) /\ Len(u) = b - a /\ \A i \in 1 .. b - a : u[i] = other[a + i]
    BY <1>4, <1>5, <1>6, InnerSlice
  <2>3. \A i \in 1 .. b - a : a + i \in 1 .. last
    BY <1>6
  <2>4. Len(t) = Len(u) /\ \A i \in 1 .. Len(t) : t[i] = u[i]
    BY <1>3, <2>1, <2>2, <2>3
  <2> QED
    BY <1>4, <2>1, <2>2, <2>4, SeqEqual
<1>7. CASE ~(a <= b)
  <2>1. SubSeq(text, a + 1, b) = << >> /\ SubSeq(other, a + 1, b) = << >>
    <3>1. a + 1 \in Int /\ b \in Int /\ b < a + 1
      BY <1>7
    <3> QED
      BY <3>1, SubSeqEmpty
  <2> QED
    BY <1>5, <2>1 DEF Slice
<1> QED
  BY <1>6, <1>7

-----------------------------------------------------------------------------
(* The order of the hunks *)

LEMMA HunkTypes ==
    ASSUME NEW c \in Commands
    PROVE  /\ IsFiniteSet(Hunks[c]) /\ Cardinality(Hunks[c]) \in Nat
           /\ \A h \in Hunks[c] : /\ h.start \in Nat /\ h.end \in Nat /\ h.start <= h.end
                                  /\ h.old \in Seq(Words) /\ h.new \in Seq(Words)
                                  /\ h.end <= Len(Base) /\ Slice(Base, h.start, h.end) = h.old
BY HunksAssumption, FS_CardinalityType DEF Valid

\* The k-th hunk in the order of application has k - 1 before it.
LEMMA SortedIs ==
    ASSUME NEW c \in Commands, NEW k \in 1 .. Cardinality(Hunks[c])
    PROVE  /\ Sorted(c)[k] \in Hunks[c]
           /\ Cardinality({g \in Hunks[c] : HunkOrder(g, Sorted(c)[k])}) = k - 1
<1>1. PICK hunks, above : /\ hunks = Hunks[c]
                          /\ above = [h \in hunks |-> {g \in hunks : HunkOrder(g, h)}]
  OBVIOUS
<1>2. \A h, g \in hunks : g \in above[h] <=> HunkOrder(g, h)
  BY <1>1
<1>3. \A h, g \in hunks : h = g \/ HunkOrder(h, g) \/ HunkOrder(g, h)
  BY <1>1, HunkTypes, HunksAssumption DEF HunkOrder
<1>4. \A h \in hunks : ~HunkOrder(h, h)
  BY <1>1, HunkTypes DEF HunkOrder
<1>5. \A h, g, f \in hunks : HunkOrder(f, g) /\ HunkOrder(g, h) => HunkOrder(f, h)
  BY <1>1, HunkTypes DEF HunkOrder
<1>6. PICK h \in hunks : Cardinality(above[h]) = k - 1
  <2>1. above \in [hunks -> SUBSET hunks] /\ IsFiniteSet(hunks) /\ k \in 1 .. Cardinality(hunks)
    BY <1>1, HunkTypes
  <2>2. \A h, g \in hunks : h = g \/ h \in above[g] \/ g \in above[h]
    BY <1>2, <1>3
  <2>3. \A h \in hunks : h \notin above[h]
    BY <1>2, <1>4
  <2>4. \A h, g \in hunks : g \in above[h] => above[g] \subseteq above[h]
    BY <1>2, <1>5, <2>1
  <2> QED
    BY <2>1, <2>2, <2>3, <2>4, RanksAreHit
<1>7. Cardinality({g \in Hunks[c] : HunkOrder(g, h)}) = k - 1 /\ h \in Hunks[c]
  BY <1>1, <1>6
<1> QED
  BY <1>7 DEF Sorted, Ranked

-----------------------------------------------------------------------------
(* The invariant *)

Paragraphs == [id: 0 .. MaxParagraphs, text: Seq(Words)]
DocType == /\ doc \in Seq(Paragraphs) /\ Len(doc) \in 1 .. MaxParagraphs + 1
           /\ \A i, j \in DOMAIN doc : doc[i].id = doc[j].id => i = j
           /\ \A i \in DOMAIN doc : doc[i].id < Len(doc)

Applying == {"reading", "writing", "giving up", "checking", "undo reading", "undo writing",
             "verifying"}
ExecType ==
    /\ pc \in [Commands -> {"idle", "locating", "done"} \cup Applying]
    /\ index \in [Commands -> Nat] /\ step \in [Commands -> Nat] /\ undone \in [Commands -> Nat]
    /\ seen \in [Commands -> Seq(Words)] /\ live \in [Commands -> Seq(Words)]
    /\ journal \in [Commands -> Seq([hunk: UNION {Hunks[c] : c \in Commands}, text: Seq(Words)])]
    /\ undoFailed \in [Commands -> BOOLEAN]
    /\ result \in [Commands -> Statuses \cup {"none"}]
CommandInv(c) ==
    /\ index[c] <= Len(doc) /\ (pc[c] \in Applying => index[c] # 0)
    /\ step[c] <= Cardinality(Hunks[c]) /\ Len(journal[c]) = step[c] /\ undone[c] <= step[c]
    /\ \A i \in DOMAIN journal[c] : journal[c][i].hunk \in Hunks[c]
    /\ pc[c] = "writing" => step[c] < Cardinality(Hunks[c])
    /\ pc[c] = "undo writing" => undone[c] < step[c]
    /\ result[c] # "none" <=> pc[c] = "done"
ExecInv == \A c \in Commands : CommandInv(c)
WorldType == typed \subseteq Typed /\ deletions \in Nat /\ hostErrors \in Nat
TypeInv == DocType /\ ExecType /\ ExecInv /\ WorldType

\* The hunk under way, of a command or of its rollback.
Underway(c) == IF pc[c] = "writing" THEN Sorted(c)[step[c] + 1] ELSE RollbackActions(c)[undone[c] + 1]
\* While a Word.run is not interrupted, what it has loaded is what is there.
CallsInv ==
    /\ \A c, d \in Commands : pc[c] \in MidCall /\ pc[d] \in MidCall => c = d
    /\ \A c \in Commands : pc[c] \in MidCall =>
          seen[c] = TargetText(c) /\ SliceMatches(seen[c], Underway(c))

-----------------------------------------------------------------------------
(* Types *)

\* A slice holds words of its text alone.
LEMMA SliceRange ==
    ASSUME NEW W, NEW text \in Seq(W), NEW from \in Nat, NEW to \in Nat
    PROVE  Range(Slice(text, from, to)) \subseteq Range(text)
<1>1. PICK s : s = Slice(text, from, to)
  OBVIOUS
<1>2. /\ s \in Seq(W) /\ \A m \in 1 .. Len(s) : s[m] = text[from + m]
      /\ Len(s) = LET last == IF to <= Len(text) THEN to ELSE Len(text)
                  IN  IF from <= last THEN last - from ELSE 0
  BY <1>1, SliceIs
<1>3. \A m \in 1 .. Len(s) : from + m \in 1 .. Len(text)
  BY <1>2
<1>4. DOMAIN s = 1 .. Len(s) /\ DOMAIN text = 1 .. Len(text)
  BY <1>2
<1> QED
  BY <1>1, <1>2, <1>3, <1>4 DEF Range

\* The hunk under way is one of the command or undoes one, and takes out no word
\* the user has typed.
LEMMA UnderwayIs ==
    ASSUME TypeInv, NEW c \in Commands, pc[c] \in MidCall
    PROVE  LET h == Underway(c)
           IN  /\ h.start \in Nat /\ h.end \in Nat /\ h.old \in Seq(Words) /\ h.new \in Seq(Words)
               /\ \A w \in Typed : w \notin Range(h.old)
<1>1. CASE pc[c] = "writing"
  <2>1. Underway(c) = Sorted(c)[step[c] + 1] /\ step[c] + 1 \in 1 .. Cardinality(Hunks[c])
    <3>1. step[c] \in Nat /\ step[c] < Cardinality(Hunks[c])
      BY <1>1 DEF TypeInv, ExecInv, CommandInv, ExecType
    <3>2. Cardinality(Hunks[c]) \in Nat
      BY HunkTypes
    <3> QED
      BY <1>1, <3>1, <3>2 DEF Underway
  <2>2. PICK h \in Hunks[c] : h = Underway(c)
    BY <2>1, SortedIs
  <2>3. /\ h.start \in Nat /\ h.end \in Nat /\ h.old \in Seq(Words) /\ h.new \in Seq(Words)
        /\ h.old = Slice(Base, h.start, h.end)
    BY HunkTypes
  <2>4. Range(h.old) \subseteq Range(Base)
    BY <2>3, SliceRange, HunksAssumption
  <2> QED
    BY <2>2, <2>3, <2>4, TypedAssumption
<1>2. CASE pc[c] = "undo writing"
  <2>1. /\ Underway(c) = RollbackActions(c)[undone[c] + 1]
        /\ journal[c] \in Seq([hunk: UNION {Hunks[d] : d \in Commands}, text: Seq(Words)])
        /\ undone[c] \in Nat /\ undone[c] < Len(journal[c])
    BY <1>2 DEF TypeInv, ExecInv, CommandInv, ExecType, Underway
  <2>2. PICK n \in Nat, k \in Nat : n = Len(journal[c]) /\ k = undone[c] + 1 /\ k \in 1 .. n
    BY <2>1
  <2>3. PICK h \in Hunks[c] : h = journal[c][(n - k) + 1].hunk
    <3>1. (n - k) + 1 \in DOMAIN journal[c]
      BY <2>1, <2>2
    <3> QED
      BY <3>1 DEF TypeInv, ExecInv, CommandInv
  <2>4. Underway(c) = Compensation(h)
    <3>1. PICK actions : actions = [i \in 1 .. n |-> Compensation(journal[c][i].hunk)]
      OBVIOUS
    <3>2. Len(actions) = n /\ RollbackActions(c) = Reverse(actions)
      BY <2>2, <3>1 DEF RollbackActions
    <3>3. Reverse(actions)[k] = actions[(n - k) + 1]
      BY <2>2, <3>2 DEF Reverse
    <3>4. (n - k) + 1 \in 1 .. n /\ actions[(n - k) + 1] = Compensation(h)
      BY <2>2, <2>3, <3>1, SMTT(60)
    <3> QED
      BY <2>1, <2>2, <3>2, <3>3, <3>4
  <2>5. h.start \in Nat /\ h.old \in Seq(Words) /\ h.new \in Seq(Words) /\ Len(h.new) \in Nat
    BY HunkTypes
  <2> QED
    BY <2>4, <2>5, TypedAssumption DEF Compensation
<1> QED
  BY <1>1, <1>2 DEF MidCall

LEMMA ParagraphIs ==
    ASSUME DocType, NEW i \in DOMAIN doc
    PROVE  doc[i] \in Paragraphs /\ doc[i].text \in Seq(Words) /\ doc[i].id \in 0 .. MaxParagraphs
<1>1. doc[i] \in Paragraphs
  BY DEF DocType
<1> QED
  BY <1>1 DEF Paragraphs

\* A new text for one paragraph.
LEMMA TextChanges ==
    ASSUME DocType, NEW i \in DOMAIN doc, NEW text \in Seq(Words),
           doc' = [doc EXCEPT ![i].text = text]
    PROVE  /\ DocType' /\ Len(doc') = Len(doc) /\ doc'[i].text = text
           /\ \A j \in DOMAIN doc : doc'[j].id = doc[j].id /\ (j # i => doc'[j] = doc[j])
<1>1. PICK q \in Paragraphs : q = doc[i]
  BY ParagraphIs
<1>2. PICK p : p = [q EXCEPT !.text = text]
  OBVIOUS
<1>3. p \in Paragraphs /\ p.id = q.id /\ p.text = text
  BY <1>1, <1>2 DEF Paragraphs
<1>4. doc' = [doc EXCEPT ![i] = p] /\ doc \in Seq(Paragraphs) /\ i \in 1 .. Len(doc)
  BY <1>1, <1>2 DEF DocType
<1>5. /\ doc' \in Seq(Paragraphs) /\ Len(doc') = Len(doc)
      /\ \A j \in 1 .. Len(doc) : doc'[j] = IF j = i THEN p ELSE doc[j]
  <2>1. PICK d : d = [doc EXCEPT ![i] = p]
    OBVIOUS
  <2>2. /\ d \in Seq(Paragraphs) /\ Len(d) = Len(doc)
        /\ \A j \in 1 .. Len(doc) : d[j] = IF j = i THEN p ELSE doc[j]
    BY <1>3, <1>4, <2>1, ExceptSeq
  <2> QED
    BY <1>4, <2>1, <2>2
<1>6. DOMAIN doc' = DOMAIN doc /\ DOMAIN doc = 1 .. Len(doc)
  BY <1>4, <1>5
<1>7. DocType'
  BY <1>1, <1>3, <1>5, <1>6 DEF DocType
<1> QED
  BY <1>1, <1>3, <1>5, <1>6, <1>7

\* What a write does to the document.
LEMMA WriteDoes ==
    ASSUME DocType, ExecType, NEW c \in Commands, index[c] \in DOMAIN doc,
           NEW h, h.start \in Nat, h.end \in Nat, h.new \in Seq(Words), Write(c, h)
    PROVE  /\ DocType' /\ Len(doc') = Len(doc)
           /\ \A i \in DOMAIN doc : /\ doc'[i].id = doc[i].id
                                    /\ i # index[c] => doc'[i].text = doc[i].text
           /\ doc'[index[c]].text =
                 Splice(IF RangeSubstring THEN TargetText(c) ELSE seen[c], h.start, h.end, h.new)
<1>1. PICK text : text = Splice(IF RangeSubstring THEN TargetText(c) ELSE seen[c],
                                h.start, h.end, h.new)
  OBVIOUS
<1>2. doc' = [doc EXCEPT ![index[c]].text = text]
  BY <1>1 DEF Write, TargetText
<1>3. TargetText(c) \in Seq(Words) /\ seen[c] \in Seq(Words)
  BY ParagraphIs DEF ExecType, TargetText
<1>4. text \in Seq(Words)
  BY <1>1, <1>3, SpliceKeeps
<1> QED
  BY <1>1, <1>2, <1>4, TextChanges

LEMMA InitHasTypes == Init => TypeInv
<1> SUFFICES ASSUME Init PROVE TypeInv
  OBVIOUS
<1>1. DocType
  <2>1. MaxParagraphs \in Nat /\ Base \in Seq(Words)
    BY BoundsAssumption, HunksAssumption
  <2>2. PICK p : p = [id |-> Target, text |-> Base]
    OBVIOUS
  <2>3. p \in Paragraphs /\ p.id = 0
    BY <2>1, <2>2 DEF Paragraphs, Target
  <2>4. doc = <<p>> /\ doc \in Seq(Paragraphs) /\ Len(doc) = 1 /\ DOMAIN doc = {1} /\ doc[1] = p
    BY <2>2, <2>3 DEF Init
  <2> QED
    BY <2>1, <2>3, <2>4 DEF DocType
<1>2. ExecType
  BY DEF Init, ExecType, Statuses
<1>3. ExecInv
  <2>1. SUFFICES ASSUME NEW c \in Commands PROVE CommandInv(c)
    BY DEF ExecInv
  <2>2. Cardinality(Hunks[c]) \in Nat /\ Len(doc) \in Nat
    BY <1>1, HunkTypes DEF DocType
  <2> QED
    BY <2>2 DEF Init, CommandInv, Applying
<1>4. WorldType
  BY DEF Init, WorldType
<1> QED
  BY <1>1, <1>2, <1>3, <1>4 DEF TypeInv

\* A step of one command leaves the others as they were.
LEMMA OthersKeep ==
    ASSUME TypeInv, DocType', ExecType', WorldType', NEW c \in Commands, CommandInv(c)',
           Len(doc') = Len(doc),
           \A d \in Commands \ {c} :
              /\ pc'[d] = pc[d] /\ index'[d] = index[d] /\ step'[d] = step[d]
              /\ journal'[d] = journal[d] /\ undone'[d] = undone[d] /\ result'[d] = result[d]
    PROVE  TypeInv'
<1>1. ASSUME NEW d \in Commands, d # c
      PROVE  CommandInv(d)'
  BY <1>1 DEF TypeInv, ExecInv, CommandInv
<1> QED
  BY <1>1 DEF TypeInv, ExecInv

LEMMA DomainIs ==
    ASSUME TypeInv
    PROVE  /\ DOMAIN doc = 1 .. Len(doc) /\ Len(doc) \in Nat
           /\ \A i \in DOMAIN doc : i \in Nat /\ i <= Len(doc)
<1>1. doc \in Seq(Paragraphs)
  BY DEF TypeInv, DocType
<1> QED
  BY <1>1

\* The steps of the executor that change neither the document nor what was applied.
LEMMA PlaceChanges ==
    ASSUME TypeInv, NEW c \in Commands, NEW place \in {"idle", "locating", "done"} \cup Applying,
           Goto(c, place), UNCHANGED <<doc, step, journal, undone, worldVars, touched>>,
           hostErrors' \in Nat,
           \/ UNCHANGED index
           \/ \E i \in DOMAIN doc : index' = [index EXCEPT ![c] = i],
           \/ UNCHANGED result /\ place # "done" /\ pc[c] # "done"
           \/ \E status \in Statuses : result' = [result EXCEPT ![c] = status] /\ place = "done",
           UNCHANGED seen \/ \E text \in Seq(Words) : seen' = [seen EXCEPT ![c] = text],
           UNCHANGED live \/ \E text \in Seq(Words) : live' = [live EXCEPT ![c] = text],
           UNCHANGED undoFailed \/ undoFailed' = [undoFailed EXCEPT ![c] = TRUE],
           place \in Applying => index'[c] # 0,
           place = "writing" => step[c] < Cardinality(Hunks[c]),
           place = "undo writing" => undone[c] < step[c]
    PROVE  TypeInv'
<1>1. DocType' /\ Len(doc') = Len(doc)
  BY DEF TypeInv, DocType
<1>2. ExecType'
  <2>1. index' \in [Commands -> Nat]
    <3>1. index \in [Commands -> Nat]
      BY DEF TypeInv, ExecType
    <3>2. ASSUME NEW i \in DOMAIN doc, index' = [index EXCEPT ![c] = i]
          PROVE  index' \in [Commands -> Nat]
      <4>1. i \in Nat
        BY DomainIs
      <4> QED
        BY <3>1, <3>2, <4>1
    <3> QED
      BY <3>1, <3>2
  <2>2. result' \in [Commands -> Statuses \cup {"none"}]
    BY ZenonT(60) DEF TypeInv, ExecType
  <2>3. pc' \in [Commands -> {"idle", "locating", "done"} \cup Applying]
    BY DEF TypeInv, ExecType, Goto
  <2>4. seen' \in [Commands -> Seq(Words)] /\ live' \in [Commands -> Seq(Words)]
    <3>1. seen \in [Commands -> Seq(Words)] /\ live \in [Commands -> Seq(Words)]
      BY DEF TypeInv, ExecType
    <3>2. PICK W : W = Seq(Words)
      OBVIOUS
    <3>3. seen \in [Commands -> W] /\ (seen' = seen \/ \E text \in W : seen' = [seen EXCEPT ![c] = text])
      BY <3>1, <3>2
    <3>4. live \in [Commands -> W] /\ (live' = live \/ \E text \in W : live' = [live EXCEPT ![c] = text])
      BY <3>1, <3>2
    <3>5. seen' \in [Commands -> W]
      BY <3>3
    <3>6. live' \in [Commands -> W]
      BY <3>4
    <3> QED
      BY <3>2, <3>5, <3>6
  <2>5. undoFailed' \in [Commands -> BOOLEAN]
    BY DEF TypeInv, ExecType
  <2> QED
    BY <2>1, <2>2, <2>3, <2>4, <2>5 DEF TypeInv, ExecType
<1>3. WorldType'
  BY DEF TypeInv, WorldType, worldVars
<1>4. \A d \in Commands : /\ pc'[d] = IF d = c THEN place ELSE pc[d]
                          /\ d # c => index'[d] = index[d] /\ result'[d] = result[d]
  BY DEF TypeInv, ExecType, Goto
<1>5. index'[c] <= Len(doc)
  <2>1. index[c] <= Len(doc) /\ index \in [Commands -> Nat]
    BY DEF TypeInv, ExecInv, CommandInv, ExecType
  <2>2. \A i \in DOMAIN doc : i <= Len(doc)
    BY DomainIs
  <2> QED
    BY <2>1, <2>2
<1>6. result'[c] # "none" <=> place = "done"
  <2>1. "none" \notin Statuses
    BY DEF Statuses
  <2>2. result \in [Commands -> Statuses \cup {"none"}] /\ (result[c] # "none" <=> pc[c] = "done")
    BY DEF TypeInv, ExecInv, CommandInv, ExecType
  <2> QED
    BY <2>1, <2>2
<1>7. CommandInv(c)'
  BY <1>1, <1>4, <1>5, <1>6 DEF TypeInv, ExecInv, CommandInv
<1> QED
  BY <1>1, <1>2, <1>3, <1>4, <1>7, OthersKeep
LEMMA CommandIs ==
    ASSUME TypeInv, NEW c \in Commands
    PROVE  /\ CommandInv(c) /\ index[c] \in Nat /\ step[c] \in Nat /\ undone[c] \in Nat
           /\ Cardinality(Hunks[c]) \in Nat /\ hostErrors \in Nat
           /\ journal[c] \in Seq([hunk: UNION {Hunks[d] : d \in Commands}, text: Seq(Words)])
           /\ seen[c] \in Seq(Words) /\ live[c] \in Seq(Words)
BY HunkTypes DEF TypeInv, ExecInv, ExecType, WorldType

\* An executor at work has its paragraph.
LEMMA TargetIs ==
    ASSUME TypeInv, NEW c \in Commands, pc[c] \in Applying
    PROVE  index[c] \in DOMAIN doc /\ TargetText(c) \in Seq(Words)
<1>1. index[c] \in Nat /\ index[c] # 0 /\ index[c] <= Len(doc)
  BY CommandIs DEF CommandInv
<1>2. index[c] \in DOMAIN doc
  BY <1>1, DomainIs
<1> QED
  BY <1>2, ParagraphIs DEF TargetText, TypeInv

LEMMA ReadsKeepTypes ==
    ASSUME TypeInv, NEW c \in Commands,
           Begin(c) \/ Locate(c) \/ ReadForHunk(c) \/ Confirm(c) \/ GiveUp(c)
              \/ PreRollbackCheck(c) \/ UndoRead(c) \/ Verify(c)
    PROVE  TypeInv'
<1>1. CommandInv(c) /\ hostErrors \in Nat
  BY CommandIs
<1>a. hostErrors + 1 \in Nat
  BY <1>1
<1>2. CASE Begin(c)
  BY <1>2, PlaceChanges, <1>1 DEF Begin, Applying
<1>3. CASE Locate(c)
  <2>1. UNCHANGED <<doc, seen, step, journal, undone, undoFailed, worldVars, touched>>
    BY <1>3 DEF Locate
  <2>2. hostErrors' \in Nat
    BY <1>1, <1>a, <1>3 DEF Locate, HostError
  <2>3. \A i \in DOMAIN doc : i # 0 /\ doc[i].text \in Seq(Words)
    BY DomainIs, ParagraphIs DEF TypeInv
  <2>4. CASE /\ UNCHANGED <<index, live>> /\ Finish(c, "FAILED")
    BY <1>3, <2>1, <2>2, <2>4, PlaceChanges DEF Finish, Applying, Statuses
  <2>5. ASSUME NEW i \in DOMAIN doc, index' = [index EXCEPT ![c] = i],
               live' = [live EXCEPT ![c] = doc[i].text],
               \/ \E status \in {"STALE_REJECTED", "FAILED"} : Finish(c, status)
               \/ Goto(c, "reading") /\ UNCHANGED result
        PROVE  TypeInv'
    <3>1. index'[c] # 0
      BY <2>3, <2>5, CommandIs DEF TypeInv, ExecType
    <3>2. \E text \in Seq(Words) : live' = [live EXCEPT ![c] = text]
      BY <2>3, <2>5
    <3>3. CASE \E status \in {"STALE_REJECTED", "FAILED"} : Finish(c, status)
      BY <2>1, <2>2, <2>5, <3>1, <3>2, <3>3, PlaceChanges DEF Finish, Applying, Statuses
    <3>4. CASE Goto(c, "reading") /\ UNCHANGED result
      <4>1. pc[c] # "done"
        BY <1>3 DEF Locate
      <4> QED
        BY <2>1, <2>2, <2>5, <3>1, <3>2, <3>4, <4>1, PlaceChanges DEF Applying
    <3> QED
      BY <2>5, <3>3, <3>4
  <2> QED
    BY <1>3, <2>4, <2>5 DEF Locate
<1>4. CASE ReadForHunk(c)
  <2>1. /\ UNCHANGED <<doc, index, step, live, journal, undone, undoFailed, result, worldVars, touched>>
        /\ pc[c] = "reading" /\ step[c] < Cardinality(Hunks[c])
    BY <1>4 DEF ReadForHunk
  <2>2. hostErrors' \in Nat
    BY <1>1, <1>a, <1>4 DEF ReadForHunk, HostError
  <2>3. index'[c] # 0 /\ TargetText(c) \in Seq(Words)
    BY <1>1, <2>1, TargetIs DEF CommandInv, Applying
  <2>4. UNCHANGED seen \/ \E text \in Seq(Words) : seen' = [seen EXCEPT ![c] = text]
    BY <1>4, <2>3 DEF ReadForHunk
  <2>5. \E place \in {"writing", "giving up", "checking"} : Goto(c, place)
    BY <1>4 DEF ReadForHunk, Recover
  <2> QED
    BY <2>1, <2>2, <2>3, <2>4, <2>5, PlaceChanges DEF Applying
<1>5. CASE Confirm(c)
  <2>1. /\ UNCHANGED <<doc, index, seen, step, live, journal, undone, undoFailed, worldVars, touched>>
        /\ pc[c] = "reading"
    BY <1>5 DEF Confirm
  <2>2. hostErrors' \in Nat
    BY <1>1, <1>a, <1>5 DEF Confirm, HostError
  <2>3. index'[c] # 0
    BY <1>1, <2>1 DEF CommandInv, Applying
  <2>4. \/ \E status \in {"SUCCESS", "FAILED"} : Finish(c, status)
        \/ UNCHANGED result /\ \E place \in {"giving up", "checking"} : Goto(c, place)
    BY <1>5 DEF Confirm, Recover
  <2> QED
    BY <2>1, <2>2, <2>3, <2>4, PlaceChanges DEF Finish, Applying, Statuses
<1>6. CASE GiveUp(c)
  BY <1>1, <1>a, <1>6, PlaceChanges DEF GiveUp, Finish, HostError, Applying, Statuses
<1>7. CASE PreRollbackCheck(c)
  <2>1. /\ UNCHANGED <<doc, index, seen, step, live, journal, undone, undoFailed, worldVars, touched>>
        /\ pc[c] = "checking"
    BY <1>7 DEF PreRollbackCheck
  <2>2. hostErrors' \in Nat
    BY <1>1, <1>a, <1>7 DEF PreRollbackCheck, HostError
  <2>3. index'[c] # 0
    BY <1>1, <2>1 DEF CommandInv, Applying
  <2>4. \/ Finish(c, "ROLLBACK_ABORTED")
        \/ UNCHANGED result /\ Goto(c, "undo reading")
    BY <1>7 DEF PreRollbackCheck
  <2> QED
    BY <2>1, <2>2, <2>3, <2>4, PlaceChanges DEF Finish, Applying, Statuses
<1>8. CASE UndoRead(c)
  <2>1. /\ UNCHANGED <<doc, index, step, live, journal, undone, result, worldVars, touched>>
        /\ pc[c] = "undo reading" /\ undone[c] < Len(journal[c])
    BY <1>8 DEF UndoRead
  <2>2. hostErrors' \in Nat
    BY <1>1, <1>a, <1>8 DEF UndoRead, HostError
  <2>3. index'[c] # 0 /\ TargetText(c) \in Seq(Words) /\ undone[c] < step[c]
    BY <1>1, <2>1, TargetIs DEF CommandInv, Applying
  <2>4. UNCHANGED seen \/ \E text \in Seq(Words) : seen' = [seen EXCEPT ![c] = text]
    BY <1>8, <2>3 DEF UndoRead
  <2>5. UNCHANGED undoFailed \/ undoFailed' = [undoFailed EXCEPT ![c] = TRUE]
    BY <1>8 DEF UndoRead, StopUndo
  <2>6. \E place \in {"undo writing", "verifying"} : Goto(c, place)
    BY <1>8 DEF UndoRead, StopUndo
  <2> QED
    BY <2>1, <2>2, <2>3, <2>4, <2>5, <2>6, PlaceChanges DEF Applying
<1>9. CASE Verify(c)
  <2>1. /\ UNCHANGED <<doc, index, seen, step, live, journal, undone, undoFailed, worldVars, touched>>
        /\ \E status \in {"ROLLED_BACK", "FAILED"} : Finish(c, status)
    BY <1>9 DEF Verify
  <2>2. hostErrors' \in Nat
    BY <1>1, <1>a, <1>9 DEF Verify, HostError
  <2> QED
    BY <2>1, <2>2, PlaceChanges DEF Finish, Applying, Statuses
<1> QED
  BY <1>2, <1>3, <1>4, <1>5, <1>6, <1>7, <1>8, <1>9
LEMMA WriteHunkKeepsTypes ==
    ASSUME TypeInv, NEW c \in Commands, WriteHunk(c)
    PROVE  TypeInv'
<1> DEFINE h == Underway(c)
<1>1. /\ pc[c] = "writing" /\ h = Sorted(c)[step[c] + 1]
      /\ UNCHANGED <<index, seen, undone, undoFailed, result, worldVars>>
  BY DEF WriteHunk, Underway
<1>2. CommandInv(c) /\ hostErrors \in Nat /\ step[c] \in Nat /\ Cardinality(Hunks[c]) \in Nat
  BY CommandIs
<1>3. h.start \in Nat /\ h.end \in Nat /\ h.old \in Seq(Words) /\ h.new \in Seq(Words)
  BY <1>1, UnderwayIs DEF MidCall
<1>4. index[c] \in DOMAIN doc /\ TargetText(c) \in Seq(Words)
  BY <1>1, TargetIs DEF Applying
<1>5. CASE /\ HostError /\ Recover(c)
           /\ UNCHANGED <<doc, live, journal, step, touched>>
  <2>1. hostErrors' \in Nat /\ index'[c] # 0
    BY <1>1, <1>2, <1>5 DEF HostError, CommandInv, Applying
  <2>2. \E place \in {"giving up", "checking"} : Goto(c, place)
    BY <1>5 DEF Recover
  <2> QED
    BY <1>1, <1>5, <2>1, <2>2, PlaceChanges DEF Applying
<1>6. CASE /\ Write(c, h)
           /\ Record(c, h, Splice(live[c], h.start, h.end, h.new))
           /\ step' = [step EXCEPT ![c] = @ + 1] /\ Goto(c, "reading") /\ UNCHANGED hostErrors
  <2>1. DocType' /\ Len(doc') = Len(doc)
    BY <1>3, <1>4, <1>6, WriteDoes DEF TypeInv
  <2>2. h \in Hunks[c]
    <3>1. step[c] + 1 \in 1 .. Cardinality(Hunks[c])
      BY <1>1, <1>2 DEF CommandInv
    <3> QED
      BY <1>1, <3>1, SortedIs
  <2>3. PICK after : after = Splice(live[c], h.start, h.end, h.new)
    OBVIOUS
  <2>4. after \in Seq(Words)
    BY <1>3, <2>3, CommandIs, SpliceKeeps
  <2>5. PICK e : e = [hunk |-> h, text |-> after]
    OBVIOUS
  <2>6. e \in [hunk: UNION {Hunks[d] : d \in Commands}, text: Seq(Words)] /\ e.hunk = h
    BY <2>2, <2>4, <2>5
  <2>7. live' = [live EXCEPT ![c] = after] /\ journal' = [journal EXCEPT ![c] = Append(@, e)]
    BY <1>6, <2>3, <2>5 DEF Record
  <2>8. PICK j : j = Append(journal[c], e)
    OBVIOUS
  <2>9. /\ j \in Seq([hunk: UNION {Hunks[d] : d \in Commands}, text: Seq(Words)])
        /\ Len(j) = Len(journal[c]) + 1 /\ j[Len(j)] = e
        /\ \A i \in 1 .. Len(journal[c]) : j[i] = journal[c][i]
    BY <2>6, <2>8, CommandIs, AppendProperties
  <2>10. journal \in [Commands -> Seq([hunk: UNION {Hunks[d] : d \in Commands}, text: Seq(Words)])]
    BY DEF TypeInv, ExecType
  <2>11. /\ journal' \in [Commands -> Seq([hunk: UNION {Hunks[d] : d \in Commands}, text: Seq(Words)])]
         /\ journal'[c] = j /\ \A d \in Commands \ {c} : journal'[d] = journal[d]
    BY <2>7, <2>8, <2>9, <2>10
  <2>12. live' \in [Commands -> Seq(Words)]
    BY <2>4, <2>7 DEF TypeInv, ExecType
  <2>13. /\ step' \in [Commands -> Nat] /\ step'[c] = step[c] + 1
         /\ \A d \in Commands \ {c} : step'[d] = step[d]
    BY <1>2, <1>6 DEF TypeInv, ExecType
  <2>14. /\ pc' \in [Commands -> {"idle", "locating", "done"} \cup Applying] /\ pc'[c] = "reading"
         /\ \A d \in Commands \ {c} : pc'[d] = pc[d]
    BY <1>6 DEF TypeInv, ExecType, Goto, Applying
  <2>15. ExecType'
    BY <1>1, <2>11, <2>12, <2>13, <2>14 DEF TypeInv, ExecType
  <2>16. WorldType'
    BY <1>1, <1>6 DEF TypeInv, WorldType, worldVars
  <2>17. \A i \in DOMAIN j : j[i].hunk \in Hunks[c]
    <3>1. DOMAIN j = 1 .. Len(journal[c]) + 1 /\ Len(journal[c]) \in Nat
      BY <2>9, CommandIs
    <3>2. DOMAIN journal[c] = 1 .. Len(journal[c])
      BY CommandIs
    <3>3. \A i \in 1 .. Len(journal[c]) : journal[c][i].hunk \in Hunks[c]
      BY <1>2, <3>2 DEF CommandInv
    <3>4. j[Len(journal[c]) + 1] = e
      BY <2>9
    <3>5. \A i \in 1 .. Len(journal[c]) + 1 : i \in 1 .. Len(journal[c]) \/ i = Len(journal[c]) + 1
      BY <3>1
    <3> QED
      BY <2>2, <2>6, <2>9, <3>1, <3>3, <3>4, <3>5
  <2>18. CommandInv(c)'
    <3>1. /\ undone[c] <= step[c] /\ Len(journal[c]) = step[c] /\ step[c] < Cardinality(Hunks[c])
          /\ index[c] <= Len(doc) /\ index[c] # 0 /\ result[c] = "none"
      BY <1>1, <1>2 DEF CommandInv, Applying
    <3>2. undone[c] <= step[c] + 1 /\ step[c] + 1 <= Cardinality(Hunks[c])
      <4>1. undone[c] \in Nat
        BY CommandIs
      <4> QED
        BY <1>2, <3>1, <4>1
    <3> QED
      BY <1>1, <2>1, <2>9, <2>11, <2>13, <2>14, <2>17, <3>1, <3>2 DEF CommandInv
  <2> QED
    BY <1>1, <2>1, <2>11, <2>13, <2>14, <2>15, <2>16, <2>18, OthersKeep
<1> QED
  BY <1>1, <1>5, <1>6 DEF WriteHunk

LEMMA UndoWriteKeepsTypes ==
    ASSUME TypeInv, NEW c \in Commands, UndoWrite(c)
    PROVE  TypeInv'
<1> DEFINE h == Underway(c)
<1>1. /\ pc[c] = "undo writing" /\ h = RollbackActions(c)[undone[c] + 1]
      /\ UNCHANGED <<index, seen, step, live, journal, result, worldVars>>
  BY DEF UndoWrite, Underway
<1>2. CommandInv(c) /\ hostErrors \in Nat /\ undone[c] \in Nat /\ step[c] \in Nat
  BY CommandIs
<1>3. h.start \in Nat /\ h.end \in Nat /\ h.new \in Seq(Words)
  BY <1>1, UnderwayIs DEF MidCall
<1>4. index[c] \in DOMAIN doc
  BY <1>1, TargetIs DEF Applying
<1>5. CASE HostError /\ StopUndo(c) /\ UNCHANGED <<doc, undone, touched>>
  <2>1. hostErrors' \in Nat /\ index'[c] # 0
    <3>1. hostErrors + 1 \in Nat
      BY <1>2
    <3> QED
      BY <1>1, <1>2, <1>5, <3>1 DEF HostError, CommandInv, Applying
  <2> QED
    BY <1>1, <1>5, <2>1, PlaceChanges DEF StopUndo, Applying
<1>6. CASE /\ Write(c, h)
           /\ undone' = [undone EXCEPT ![c] = @ + 1]
           /\ Goto(c, "undo reading") /\ UNCHANGED <<undoFailed, hostErrors>>
  <2>1. DocType' /\ Len(doc') = Len(doc)
    BY <1>3, <1>4, <1>6, WriteDoes DEF TypeInv
  <2>2. /\ undone' \in [Commands -> Nat] /\ undone'[c] = undone[c] + 1
        /\ \A d \in Commands \ {c} : undone'[d] = undone[d]
    <3>1. undone[c] + 1 \in Nat
      BY <1>2
    <3> QED
      BY <1>6, <3>1 DEF TypeInv, ExecType
  <2>3. /\ pc' \in [Commands -> {"idle", "locating", "done"} \cup Applying] /\ pc'[c] = "undo reading"
        /\ \A d \in Commands \ {c} : pc'[d] = pc[d]
    BY <1>6 DEF TypeInv, ExecType, Goto, Applying
  <2>4. ExecType'
    BY <1>1, <1>6, <2>2, <2>3 DEF TypeInv, ExecType
  <2>5. WorldType'
    BY <1>1, <1>6 DEF TypeInv, WorldType, worldVars
  <2>6. CommandInv(c)'
    <3>1. /\ undone[c] < step[c] /\ Len(journal[c]) = step[c] /\ step[c] <= Cardinality(Hunks[c])
          /\ index[c] <= Len(doc) /\ index[c] # 0 /\ result[c] = "none"
          /\ \A i \in DOMAIN journal[c] : journal[c][i].hunk \in Hunks[c]
      BY <1>1, <1>2 DEF CommandInv, Applying
    <3>2. undone[c] + 1 <= step[c]
      BY <1>2, <3>1
    <3> QED
      BY <1>1, <2>1, <2>2, <2>3, <3>1, <3>2 DEF CommandInv
  <2> QED
    BY <1>1, <2>1, <2>2, <2>3, <2>4, <2>5, <2>6, OthersKeep
<1> QED
  BY <1>1, <1>5, <1>6 DEF UndoWrite
\* A new paragraph at the top leaves the others in their order.
LEMMA ParagraphAdded ==
    ASSUME DocType, NEW text \in Seq(Words), Len(doc) <= MaxParagraphs,
           doc' = <<[id |-> Len(doc), text |-> text]>> \o doc
    PROVE  /\ DocType' /\ Len(doc') = Len(doc) + 1
           /\ doc'[1].id = Len(doc) /\ \A i \in DOMAIN doc : doc'[i + 1] = doc[i]
<1>1. PICK n \in Nat : n = Len(doc)
  BY DEF DocType
<1>2. PICK p : p = [id |-> n, text |-> text]
  OBVIOUS
<1>3. p \in Paragraphs /\ p.id = n
  BY <1>1, <1>2, BoundsAssumption DEF Paragraphs
<1>4. doc \in Seq(Paragraphs) /\ doc' = <<p>> \o doc /\ <<p>> \in Seq(Paragraphs) /\ Len(<<p>>) = 1
  BY <1>1, <1>2, <1>3 DEF DocType
<1>5. /\ doc' \in Seq(Paragraphs) /\ Len(doc') = 1 + n /\ doc'[1] = p
      /\ \A i \in 1 .. n : doc'[1 + i] = doc[i]
  BY <1>1, <1>4, ConcatProperties
<1>6. DOMAIN doc = 1 .. n /\ DOMAIN doc' = 1 .. 1 + n
  BY <1>1, <1>4, <1>5
<1>7. \A i \in 1 .. 1 + n : i = 1 \/ (i - 1 \in 1 .. n /\ doc'[i] = doc[i - 1])
  BY <1>1, <1>5
<1>8. \A i \in 1 .. n : doc[i].id < n
  BY <1>1, <1>6 DEF DocType
<1>9. \A i \in 1 .. n : doc[i].id \in Nat
  <2>1. \A i \in DOMAIN doc : doc[i].id \in 0 .. MaxParagraphs
    BY ParagraphIs
  <2> QED
    BY <1>6, <2>1
<1>10. \A i, j \in DOMAIN doc' : doc'[i].id = doc'[j].id => i = j
  <2>1. \A i, j \in 1 .. n : doc[i].id = doc[j].id => i = j
    BY <1>6 DEF DocType
  <2>2. \A i \in 1 .. 1 + n : i # 1 => doc'[i].id # n
    BY <1>1, <1>7, <1>8, <1>9
  <2>3. ASSUME NEW i \in 1 .. 1 + n, NEW j \in 1 .. 1 + n, doc'[i].id = doc'[j].id
        PROVE  i = j
    <3>1. CASE i = 1 \/ j = 1
      BY <1>3, <1>5, <2>2, <2>3, <3>1
    <3>2. CASE i # 1 /\ j # 1
      <4>1. PICK a \in 1 .. n : a = i - 1 /\ doc'[i] = doc[a]
        BY <1>7, <3>2
      <4>2. PICK b \in 1 .. n : b = j - 1 /\ doc'[j] = doc[b]
        BY <1>7, <3>2
      <4>3. a = b
        BY <2>1, <2>3, <4>1, <4>2
      <4> QED
        BY <1>1, <4>1, <4>2, <4>3
    <3> QED
      BY <3>1, <3>2
  <2> QED
    BY <1>6, <2>3
<1>11. \A i \in DOMAIN doc' : doc'[i].id < Len(doc')
  BY <1>1, <1>3, <1>5, <1>6, <1>7, <1>8, <1>9
<1>12. Len(doc') \in 1 .. MaxParagraphs + 1
  BY <1>1, <1>5, BoundsAssumption DEF DocType
<1>13. DocType'
  BY <1>5, <1>10, <1>11, <1>12 DEF DocType
<1> QED
  BY <1>1, <1>3, <1>5, <1>6, <1>13

LEMMA UserKeepsTypes ==
    ASSUME TypeInv, User
    PROVE  TypeInv'
<1>1. UNCHANGED execVars /\ UNCHANGED hostErrors
  BY DEF User, UserTypes, UserDeletes, UserAddsParagraph
<1>2. /\ UNCHANGED <<pc, index, seen, step, live>>
      /\ UNCHANGED <<journal, undone, undoFailed, result>>
  BY <1>1 DEF execVars
<1>3. ExecType'
  BY <1>2 DEF TypeInv, ExecType
<1>4. ASSUME DocType', Len(doc') >= Len(doc), WorldType'
      PROVE  TypeInv'
  <2>1. SUFFICES ASSUME NEW c \in Commands PROVE CommandInv(c)'
    BY <1>3, <1>4 DEF TypeInv, ExecInv
  <2>2. index[c] <= Len(doc') /\ index[c] \in Nat
    <3>1. index[c] \in Nat /\ index[c] <= Len(doc)
      BY CommandIs DEF CommandInv
    <3>2. Len(doc) \in Nat /\ Len(doc') \in Nat
      BY <1>4, DomainIs DEF DocType
    <3> QED
      BY <1>4, <3>1, <3>2
  <2> QED
    BY <1>2, <2>2, CommandIs DEF CommandInv
<1>5. ASSUME NEW w \in Typed, UserTypes(w)
      PROVE  TypeInv'
  <2>1. PICK i, at :
          /\ i \in DOMAIN doc /\ at \in 0 .. Len(doc[i].text)
          /\ doc' = [doc EXCEPT ![i].text = Splice(@, at, at, <<w>>)]
    BY <1>5 DEF UserTypes
  <2>2. PICK text : text = Splice(doc[i].text, at, at, <<w>>)
    OBVIOUS
  <2>3. doc[i].text \in Seq(Words) /\ <<w>> \in Seq(Words) /\ at \in Nat
    BY <2>1, ParagraphIs DEF TypeInv, Words
  <2>4. text \in Seq(Words)
    BY <2>2, <2>3, SpliceKeeps
  <2>5. doc' = [doc EXCEPT ![i].text = text]
    BY <2>1, <2>2
  <2>6. DocType' /\ Len(doc') = Len(doc)
    BY <2>1, <2>4, <2>5, TextChanges DEF TypeInv
  <2>7. WorldType'
    BY <1>1, <1>5 DEF UserTypes, TypeInv, WorldType
  <2> QED
    BY <1>4, <2>6, <2>7, DomainIs
<1>6. CASE UserDeletes
  <2>1. PICK i, at :
          /\ i \in DOMAIN doc /\ at \in 1 .. Len(doc[i].text)
          /\ doc' = [doc EXCEPT ![i].text = RemoveAt(@, at)]
    BY <1>6 DEF UserDeletes
  <2>2. PICK text : text = RemoveAt(doc[i].text, at)
    OBVIOUS
  <2>3. doc[i].text \in Seq(Words)
    BY <2>1, ParagraphIs DEF TypeInv
  <2>4. text \in Seq(Words)
    BY <2>1, <2>2, <2>3, RemoveKeeps
  <2>5. doc' = [doc EXCEPT ![i].text = text]
    BY <2>1, <2>2
  <2>6. DocType' /\ Len(doc') = Len(doc)
    BY <2>1, <2>4, <2>5, TextChanges DEF TypeInv
  <2>7. WorldType'
    <3>1. deletions \in Nat /\ deletions' = deletions + 1
      BY <1>6 DEF UserDeletes, TypeInv, WorldType
    <3> QED
      BY <1>1, <1>6, <3>1 DEF UserDeletes, TypeInv, WorldType
  <2> QED
    BY <1>4, <2>6, <2>7, DomainIs
<1>7. CASE UserAddsParagraph
  <2>1. PICK text \in {<< >>, Base} : doc' = <<[id |-> Len(doc), text |-> text]>> \o doc
    BY <1>7 DEF UserAddsParagraph
  <2>2. text \in Seq(Words) /\ Len(doc) <= MaxParagraphs
    <3>1. Base \in Seq(Words) /\ << >> \in Seq(Words)
      BY HunksAssumption
    <3> QED
      BY <1>7, <3>1 DEF UserAddsParagraph
  <2>3. DocType' /\ Len(doc') = Len(doc) + 1
    BY <2>1, <2>2, ParagraphAdded DEF TypeInv
  <2>4. WorldType'
    BY <1>1, <1>7 DEF UserAddsParagraph, TypeInv, WorldType, worldVars
  <2>5. Len(doc') >= Len(doc)
    BY <2>3, DomainIs
  <2> QED
    BY <1>4, <2>3, <2>4, <2>5
<1> QED
  BY <1>5, <1>6, <1>7 DEF User
\* What TypeInv rests on is kept by every step.
THEOREM TypesInductive == Spec => []TypeInv
<1>1. TypeInv /\ [Next]_vars => TypeInv'
  <2>1. SUFFICES ASSUME TypeInv, [Next]_vars PROVE TypeInv'
    OBVIOUS
  <2>2. ASSUME NEW c \in Commands, Execute(c)
        PROVE  TypeInv'
    BY <2>1, <2>2, ReadsKeepTypes, WriteHunkKeepsTypes, UndoWriteKeepsTypes DEF Execute
  <2>3. CASE User
    BY <2>1, <2>3, UserKeepsTypes
  <2>4. CASE UNCHANGED vars
    <3>1. UNCHANGED <<doc, typed, deletions, hostErrors>>
      BY <2>4 DEF vars, worldVars
    <3>2. UNCHANGED <<pc, index, seen, step, live, journal, undone, undoFailed, result>>
      BY <2>4 DEF vars, execVars
    <3>3. DocType' /\ WorldType'
      BY <2>1, <3>1 DEF TypeInv, DocType, WorldType
    <3>4. ExecType'
      BY <2>1, <3>2 DEF TypeInv, ExecType
    <3>5. ExecInv'
      BY <2>1, <3>1, <3>2 DEF TypeInv, ExecInv, CommandInv
    <3> QED
      BY <3>3, <3>4, <3>5 DEF TypeInv
  <2> QED
    BY <2>1, <2>2, <2>3, <2>4 DEF Next
<1> QED
  BY InitHasTypes, <1>1, PTL DEF Spec

\* TypeInv says at least what TypeOK says.
LEMMA TypesMean ==
    ASSUME TypeInv
    PROVE  TypeOK
<1>1. ASSUME NEW i \in DOMAIN doc
      PROVE  doc[i].id \in 0 .. MaxParagraphs /\ Range(doc[i].text) \subseteq Words
  <2>1. doc[i].text \in Seq(Words) /\ doc[i].id \in 0 .. MaxParagraphs
    BY ParagraphIs DEF TypeInv
  <2> QED
    BY <2>1 DEF Range
<1>2. Cardinality({doc[i].id : i \in DOMAIN doc}) = Len(doc)
  <2>1. PICK n, ids : n \in Nat /\ n = Len(doc) /\ ids = {doc[i].id : i \in DOMAIN doc}
    BY DomainIs
  <2>2. PICK f : f = [i \in 1 .. n |-> doc[i].id]
    OBVIOUS
  <2>3. f \in Bijection(1 .. n, ids)
    BY <2>1, <2>2, DomainIs
       DEF TypeInv, DocType, Bijection, Injection, Surjection, IsInjective
  <2>4. ExistsBijection(1 .. n, ids)
    BY <2>3 DEF ExistsBijection
  <2> QED
    BY <2>1, <2>4, FS_CountingElements
<1>3. pc \in [Commands -> Places]
  BY DEF TypeInv, ExecType, Applying, Places
<1>4. ASSUME NEW c \in Commands
      PROVE  /\ index[c] \in 0 .. Len(doc) /\ step[c] \in 0 .. Cardinality(Hunks[c])
             /\ Len(journal[c]) = step[c] /\ undone[c] \in 0 .. step[c]
             /\ result[c] \in Statuses \cup {"none"} /\ (result[c] # "none" <=> pc[c] = "done")
  <2>1. CommandInv(c) /\ result[c] \in Statuses \cup {"none"}
    BY DEF TypeInv, ExecInv, ExecType
  <2>2. Len(doc) \in Nat
    BY DomainIs
  <2>3. /\ index[c] \in Nat /\ step[c] \in Nat /\ undone[c] \in Nat
        /\ Cardinality(Hunks[c]) \in Nat
    BY CommandIs
  <2>4. /\ index[c] <= Len(doc) /\ step[c] <= Cardinality(Hunks[c]) /\ Len(journal[c]) = step[c]
        /\ undone[c] <= step[c] /\ (result[c] # "none" <=> pc[c] = "done")
    BY <2>1 DEF CommandInv
  <2> QED
    BY <2>1, <2>2, <2>3, <2>4
<1> QED
  BY <1>1, <1>2, <1>3, <1>4 DEF TypeOK

\* The state of the document, of every executor and of every journal is of its
\* type: a paragraph keeps an identity of its own wherever the user puts others,
\* the pinned index stays in the document, the journal is as long as the hunks
\* applied (replacement_executor.ts, execute) and no more is undone than was done.
THEOREM TypesAreKept == Spec => []TypeOK
BY TypesInductive, TypesMean, PTL

-----------------------------------------------------------------------------
(* Nothing the user typed is lost *)

LEMMA StepGoes ==
    ASSUME NEW c \in Commands, Execute(c)
    PROVE  \E place : /\ Goto(c, place)
                      /\ place \in MidCall => ReadForHunk(c) \/ UndoRead(c)
<1> DEFINE quiet == {"locating", "done", "reading", "giving up", "checking", "undo reading",
                     "verifying"}
<1>1. CASE \E place \in quiet : Goto(c, place)
  BY <1>1 DEF MidCall
<1>2. Recover(c) => \E place \in quiet : Goto(c, place)
  BY DEF Recover
<1>3. CASE ~(ReadForHunk(c) \/ UndoRead(c))
  <2>1. Begin(c) => Goto(c, "locating")
    BY DEF Begin
  <2>2. Locate(c) => Goto(c, "done") \/ Goto(c, "reading")
    BY DEF Locate, Finish
  <2>3. Confirm(c) => Goto(c, "done") \/ Recover(c)
    BY DEF Confirm, Finish
  <2>4. GiveUp(c) \/ Verify(c) => Goto(c, "done")
    BY DEF GiveUp, Verify, Finish
  <2>5. PreRollbackCheck(c) => Goto(c, "undo reading") \/ Goto(c, "done")
    BY DEF PreRollbackCheck, Finish
  <2>6. WriteHunk(c) => Goto(c, "reading") \/ Recover(c)
    BY DEF WriteHunk
  <2>7. UndoWrite(c) => Goto(c, "undo reading") \/ Goto(c, "verifying")
    BY DEF UndoWrite, StopUndo
  <2>8. \E place \in quiet : Goto(c, place)
    BY <1>2, <1>3, <2>1, <2>2, <2>3, <2>4, <2>5, <2>6, <2>7 DEF Execute
  <2> QED
    BY <1>1, <2>8
<1>4. CASE ReadForHunk(c) \/ UndoRead(c)
  BY <1>4 DEF ReadForHunk, UndoRead, Recover, StopUndo
<1> QED
  BY <1>3, <1>4

LEMMA StepKeepsCalls ==
    ASSUME ~CallsInterleave, TypeInv, CallsInv, NEW c \in Commands, Execute(c)
    PROVE  CallsInv'
<1>1. pc \in [Commands -> {"idle", "locating", "done"} \cup Applying]
  BY DEF TypeInv, ExecType
<1>2. /\ \A d \in Commands \ {c} : pc'[d] = pc[d]
      /\ pc'[c] \in MidCall => ReadForHunk(c) \/ UndoRead(c)
  BY <1>1, StepGoes DEF Goto
<1>3. CASE Begin(c)
  <2>1. UNCHANGED <<doc, index, seen, step, journal, undone>> /\ pc'[c] \notin MidCall
    BY <1>1, <1>3 DEF Begin, Goto, MidCall
  <2>2. \A d \in Commands : pc'[d] \in MidCall => pc[d] \in MidCall /\ pc'[d] = pc[d]
    BY <1>2, <2>1
  <2> QED
    BY <2>1, <2>2 DEF CallsInv, TargetText, SliceMatches, Underway, RollbackActions
<1>4. CASE ~Begin(c)
  <2>1. \A d \in Commands \ {c} : pc[d] \notin MidCall
    <3>1. CASE WriteHunk(c) \/ UndoWrite(c)
      <4>1. pc[c] \in MidCall
        BY <3>1 DEF WriteHunk, UndoWrite, MidCall
      <4> QED
        BY <4>1 DEF CallsInv
    <3>2. CASE ~(WriteHunk(c) \/ UndoWrite(c))
      <4>1. MayAct(c)
        BY <1>4, <3>2 DEF Execute, Locate, ReadForHunk, Confirm, GiveUp, PreRollbackCheck,
                          UndoRead, Verify
      <4> QED
        BY <4>1 DEF MayAct
    <3> QED
      BY <3>1, <3>2
  <2>2. \A d \in Commands : pc'[d] \in MidCall => d = c
    BY <1>2, <2>1
  <2>3. ASSUME pc'[c] \in MidCall
        PROVE  seen'[c] = TargetText(c)' /\ SliceMatches(seen'[c], Underway(c)')
    <3>1. seen \in [Commands -> Seq(Words)]
      BY DEF TypeInv, ExecType
    <3>2. CASE ReadForHunk(c)
      <4>1. pc'[c] = "writing"
        BY <1>1, <2>3, <3>2 DEF ReadForHunk, Recover, Goto, MidCall
      <4>2. /\ SliceMatches(TargetText(c), Sorted(c)[step[c] + 1]) /\ seen'[c] = TargetText(c)
            /\ UNCHANGED <<doc, index, step>>
        BY <1>1, <3>1, <3>2, <4>1 DEF ReadForHunk, Recover, Goto
      <4> QED
        BY <4>1, <4>2 DEF TargetText, Underway, SliceMatches
    <3>3. CASE UndoRead(c)
      <4>1. pc'[c] = "undo writing"
        BY <1>1, <2>3, <3>3 DEF UndoRead, StopUndo, Goto, MidCall
      <4>2. /\ SliceMatches(TargetText(c), RollbackActions(c)[undone[c] + 1])
            /\ seen'[c] = TargetText(c) /\ UNCHANGED <<doc, index, undone, journal>>
        BY <1>1, <3>1, <3>3, <4>1 DEF UndoRead, StopUndo, Goto
      <4> QED
        BY <4>1, <4>2 DEF TargetText, Underway, SliceMatches, RollbackActions
    <3> QED
      BY <1>2, <2>3, <3>2, <3>3
  <2> QED
    BY <2>2, <2>3 DEF CallsInv, SliceMatches
<1> QED
  BY <1>3, <1>4

\* A write takes out the old words of its hunk, among which none was typed.
LEMMA WriteKeepsTyped ==
    ASSUME TypeInv, CallsInv, NothingTypedIsLost, NEW c \in Commands, pc[c] \in MidCall,
           Write(c, Underway(c)), UNCHANGED typed
    PROVE  NothingTypedIsLost'
<1>1. PICK h : h = Underway(c)
  OBVIOUS
<1>2. /\ h.start \in Nat /\ h.end \in Nat /\ h.old \in Seq(Words) /\ h.new \in Seq(Words)
      /\ \A w \in Typed : w \notin Range(h.old)
  BY <1>1, UnderwayIs
<1>3. index[c] \in DOMAIN doc /\ TargetText(c) \in Seq(Words)
  BY TargetIs DEF MidCall, Applying
<1>4. /\ DocType' /\ Len(doc') = Len(doc)
      /\ \A i \in DOMAIN doc : i # index[c] => doc'[i].text = doc[i].text
      /\ doc'[index[c]].text =
            Splice(IF RangeSubstring THEN TargetText(c) ELSE seen[c], h.start, h.end, h.new)
  BY <1>1, <1>2, <1>3, WriteDoes DEF TypeInv
<1>5. seen[c] = TargetText(c) /\ Slice(TargetText(c), h.start, h.end) = h.old
  BY <1>1 DEF CallsInv, SliceMatches
<1>6. doc'[index[c]].text = Splice(TargetText(c), h.start, h.end, h.new)
  BY <1>4, <1>5
<1>7. DOMAIN doc' = DOMAIN doc
  <2>1. doc \in Seq(Paragraphs) /\ doc' \in Seq(Paragraphs)
    BY <1>4 DEF TypeInv, DocType
  <2> QED
    BY <1>4, <2>1
<1>8. ASSUME NEW w \in typed
      PROVE  \E i \in DOMAIN doc' : w \in Range(doc'[i].text)
  <2>1. PICK i \in DOMAIN doc : w \in Range(doc[i].text)
    BY DEF NothingTypedIsLost
  <2>2. CASE i # index[c]
    BY <1>4, <1>7, <2>1, <2>2
  <2>3. CASE i = index[c]
    <3>1. w \in Range(TargetText(c)) /\ w \in Typed
      BY <2>1, <2>3 DEF TargetText, TypeInv, WorldType
    <3>2. w \notin Range(Slice(TargetText(c), h.start, h.end))
      BY <1>2, <1>5, <3>1
    <3>3. w \in Range(Splice(TargetText(c), h.start, h.end, h.new))
      BY <1>2, <1>3, <3>1, <3>2, SpliceKeeps
    <3> QED
      BY <1>3, <1>6, <1>7, <3>3
  <2> QED
    BY <2>2, <2>3
<1>9. typed' = typed
  OBVIOUS
<1> QED
  BY <1>8, <1>9 DEF NothingTypedIsLost
\* The user adds words and takes out none that was typed.
LEMMA UserKeepsTyped ==
    ASSUME TypeInv, NothingTypedIsLost, User
    PROVE  NothingTypedIsLost'
<1>1. ASSUME NEW w \in Typed, UserTypes(w)
      PROVE  NothingTypedIsLost'
  <2>1. PICK i, at :
          /\ i \in DOMAIN doc /\ at \in 0 .. Len(doc[i].text)
          /\ doc' = [doc EXCEPT ![i].text = Splice(@, at, at, <<w>>)]
    BY <1>1 DEF UserTypes
  <2>2. PICK old, text : old = doc[i].text /\ text = Splice(old, at, at, <<w>>)
    OBVIOUS
  <2>3. old \in Seq(Words) /\ <<w>> \in Seq(Words) /\ at \in Nat
    BY <2>1, <2>2, ParagraphIs DEF TypeInv, Words
  <2>4. /\ text \in Seq(Words) /\ Range(<<w>>) \subseteq Range(text)
        /\ Range(old) \subseteq Range(text) \cup Range(Slice(old, at, at))
    BY <2>2, <2>3, SpliceKeeps
  <2>5. Range(Slice(old, at, at)) = {}
    <3>1. PICK s : s = Slice(old, at, at)
      OBVIOUS
    <3>2. s \in Seq(Words) /\ Len(s) = LET last == IF at <= Len(old) THEN at ELSE Len(old)
                                       IN  IF at <= last THEN last - at ELSE 0
      BY <2>3, <3>1, SliceIs
    <3>3. Len(s) = 0 /\ DOMAIN s = 1 .. Len(s)
      BY <2>3, <3>2
    <3> QED
      BY <3>1, <3>3 DEF Range
  <2>6. /\ Len(doc') = Len(doc) /\ doc'[i].text = text /\ DocType'
        /\ \A j \in DOMAIN doc : j # i => doc'[j] = doc[j]
    BY <2>1, <2>2, <2>4, TextChanges DEF TypeInv
  <2>7. DOMAIN doc' = DOMAIN doc
    <3>1. doc \in Seq(Paragraphs) /\ doc' \in Seq(Paragraphs)
      BY <2>6 DEF TypeInv, DocType
    <3> QED
      BY <2>6, <3>1
  <2>8. i \in DOMAIN doc' /\ w \in Range(doc'[i].text)
    <3>1. w \in Range(<<w>>)
      BY DEF Range
    <3>2. i \in DOMAIN doc'
      BY <2>1, <2>7
    <3> QED
      BY <2>4, <2>6, <3>1, <3>2
  <2>9. ASSUME NEW v \in typed
        PROVE  \E j \in DOMAIN doc' : v \in Range(doc'[j].text)
    <3>1. PICK j \in DOMAIN doc : v \in Range(doc[j].text)
      BY DEF NothingTypedIsLost
    <3> QED
      BY <2>1, <2>2, <2>4, <2>5, <2>6, <2>7, <3>1
  <2>10. typed' = typed \cup {w}
    BY <1>1 DEF UserTypes
  <2> QED
    BY <2>8, <2>9, <2>10 DEF NothingTypedIsLost
<1>2. CASE UserDeletes
  <2>1. PICK i, at :
          /\ i \in DOMAIN doc /\ at \in 1 .. Len(doc[i].text) /\ doc[i].text[at] \notin Typed
          /\ doc' = [doc EXCEPT ![i].text = RemoveAt(@, at)]
    BY <1>2 DEF UserDeletes
  <2>2. PICK old, text : old = doc[i].text /\ text = RemoveAt(old, at)
    OBVIOUS
  <2>3. old \in Seq(Words)
    BY <2>1, <2>2, ParagraphIs DEF TypeInv
  <2>4. text \in Seq(Words) /\ \A w \in Range(old) : w \in Range(text) \/ w = old[at]
    BY <2>1, <2>2, <2>3, RemoveKeeps
  <2>5. /\ Len(doc') = Len(doc) /\ doc'[i].text = text /\ DocType'
        /\ \A j \in DOMAIN doc : j # i => doc'[j] = doc[j]
    BY <2>1, <2>2, <2>4, TextChanges DEF TypeInv
  <2>6. DOMAIN doc' = DOMAIN doc
    <3>1. doc \in Seq(Paragraphs) /\ doc' \in Seq(Paragraphs)
      BY <2>5 DEF TypeInv, DocType
    <3> QED
      BY <2>5, <3>1
  <2>7. ASSUME NEW v \in typed
        PROVE  \E j \in DOMAIN doc' : v \in Range(doc'[j].text)
    <3>1. PICK j \in DOMAIN doc : v \in Range(doc[j].text)
      BY DEF NothingTypedIsLost
    <3>2. v \in Typed
      BY DEF TypeInv, WorldType
    <3> QED
      BY <2>1, <2>2, <2>4, <2>5, <2>6, <3>1, <3>2
  <2>8. typed' = typed
    BY <1>2 DEF UserDeletes
  <2> QED
    BY <2>7, <2>8 DEF NothingTypedIsLost
<1>3. CASE UserAddsParagraph
  <2>1. PICK text \in {<< >>, Base} : doc' = <<[id |-> Len(doc), text |-> text]>> \o doc
    BY <1>3 DEF UserAddsParagraph
  <2>2. text \in Seq(Words) /\ Len(doc) <= MaxParagraphs
    <3>1. Base \in Seq(Words) /\ << >> \in Seq(Words)
      BY HunksAssumption
    <3> QED
      BY <1>3, <3>1 DEF UserAddsParagraph
  <2>3. DocType' /\ Len(doc') = Len(doc) + 1 /\ \A i \in DOMAIN doc : doc'[i + 1] = doc[i]
    BY <2>1, <2>2, ParagraphAdded DEF TypeInv
  <2>4. \A i \in DOMAIN doc : i + 1 \in DOMAIN doc'
    <3>1. doc' \in Seq(Paragraphs)
      BY <2>3 DEF DocType
    <3>2. DOMAIN doc' = 1 .. Len(doc')
      BY <3>1
    <3> QED
      BY <2>3, <3>2, DomainIs
  <2>5. ASSUME NEW v \in typed
        PROVE  \E j \in DOMAIN doc' : v \in Range(doc'[j].text)
    <3>1. PICK j \in DOMAIN doc : v \in Range(doc[j].text)
      BY DEF NothingTypedIsLost
    <3> QED
      BY <2>3, <2>4, <3>1
  <2>6. typed' = typed
    BY <1>3 DEF UserAddsParagraph, worldVars
  <2> QED
    BY <2>5, <2>6 DEF NothingTypedIsLost
<1> QED
  BY <1>1, <1>2, <1>3 DEF User

LEMMA StepKeepsTyped ==
    ASSUME TypeInv, CallsInv, NothingTypedIsLost, NEW c \in Commands, Execute(c)
    PROVE  NothingTypedIsLost'
<1>1. UNCHANGED typed
  BY DEF Execute, Begin, Locate, ReadForHunk, WriteHunk, Confirm, GiveUp, PreRollbackCheck,
         UndoRead, UndoWrite, Verify, worldVars
<1>2. CASE UNCHANGED doc
  BY <1>1, <1>2 DEF NothingTypedIsLost
<1>3. CASE ~UNCHANGED doc
  <2>1. \/ pc[c] = "writing" /\ Write(c, Sorted(c)[step[c] + 1])
        \/ pc[c] = "undo writing" /\ Write(c, RollbackActions(c)[undone[c] + 1])
    <3>1. WriteHunk(c) \/ UndoWrite(c)
      BY <1>3 DEF Execute, Begin, Locate, ReadForHunk, Confirm, GiveUp, PreRollbackCheck,
                  UndoRead, Verify
    <3> QED
      BY <1>3, <3>1 DEF WriteHunk, UndoWrite
  <2>2. pc[c] \in MidCall /\ Write(c, Underway(c))
    BY <2>1 DEF MidCall, Underway
  <2> QED
    BY <1>1, <2>2, WriteKeepsTyped
<1> QED
  BY <1>2, <1>3
\* What the user types is never lost, however many commands and rollbacks run
\* meanwhile, when the host lets nobody in between the two syncs of a Word.run:
\* applyHunk (replacement_executor.ts) compares the old words with the text it
\* is about to write over, and no hunk is about a word that was typed.
THEOREM TypedWordsSurvive ==
    ASSUME ~CallsInterleave
    PROVE  Spec => []NothingTypedIsLost
<1> DEFINE I == CallsInv /\ NothingTypedIsLost
<1>1. Init => I
  BY DEF Init, CallsInv, NothingTypedIsLost, MidCall
<1>2. TypeInv /\ I /\ [Next]_vars => I'
  <2>1. SUFFICES ASSUME TypeInv, I, [Next]_vars PROVE I'
    OBVIOUS
  <2>2. ASSUME NEW c \in Commands, Execute(c)
        PROVE  I'
    BY <2>1, <2>2, StepKeepsCalls, StepKeepsTyped
  <2>3. CASE User
    <3>1. UserMayAct /\ UNCHANGED pc
      BY <2>3 DEF User, UserTypes, UserDeletes, UserAddsParagraph, execVars
    <3>2. CallsInv'
      BY <3>1 DEF UserMayAct, CallsInv, SliceMatches
    <3> QED
      BY <2>1, <2>3, <3>2, UserKeepsTyped
  <2>4. CASE UNCHANGED vars
    <3>1. UNCHANGED <<doc, pc, index, seen, step, journal, undone, typed>>
      BY <2>4 DEF vars, execVars, worldVars
    <3>2. CallsInv'
      BY <2>1, <3>1 DEF CallsInv, TargetText, SliceMatches, Underway, RollbackActions
    <3>3. NothingTypedIsLost'
      BY <2>1, <3>1 DEF NothingTypedIsLost
    <3> QED
      BY <3>2, <3>3
  <2> QED
    BY <2>1, <2>2, <2>3, <2>4 DEF Next
<1>3. I => NothingTypedIsLost
  OBVIOUS
<1> HIDE DEF I
<1> QED
  BY TypesInductive, <1>1, <1>2, <1>3, PTL DEF Spec
-----------------------------------------------------------------------------
(* The text a command leads to *)

\* The hunks before a hunk in each of the two orders.
Above(c) == [h \in Hunks[c] |-> {g \in Hunks[c] : HunkOrder(g, h)}]
Below(c) == [h \in Hunks[c] |-> {g \in Hunks[c] : ForwardOrder(g, h)}]

\* How many come before tells the order.
LEMMA OrderIs ==
    ASSUME NEW c \in Commands
    PROVE  /\ Above(c) \in [Hunks[c] -> SUBSET Hunks[c]] /\ Below(c) \in [Hunks[c] -> SUBSET Hunks[c]]
           /\ \A h, g \in Hunks[c] : /\ g \in Above(c)[h] <=> HunkOrder(g, h)
                                     /\ g \in Below(c)[h] <=> HunkOrder(h, g)
                                     /\ h = g \/ HunkOrder(g, h) \/ HunkOrder(h, g)
                                     /\ ~(HunkOrder(g, h) /\ HunkOrder(h, g)) /\ ~HunkOrder(h, h)
           /\ \A h, g, f \in Hunks[c] : HunkOrder(f, g) /\ HunkOrder(g, h) => HunkOrder(f, h)
<1>1. \A h, g \in Hunks[c] : ForwardOrder(g, h) <=> HunkOrder(h, g)
  BY HunkTypes DEF HunkOrder, ForwardOrder
<1>2. \A h, g \in Hunks[c] : h = g \/ HunkOrder(h, g) \/ HunkOrder(g, h)
  BY HunkTypes, HunksAssumption DEF HunkOrder
<1>3. \A h, g \in Hunks[c] : ~(HunkOrder(g, h) /\ HunkOrder(h, g)) /\ ~HunkOrder(h, h)
  BY HunkTypes DEF HunkOrder
<1>4. \A h, g, f \in Hunks[c] : HunkOrder(f, g) /\ HunkOrder(g, h) => HunkOrder(f, h)
  BY HunkTypes DEF HunkOrder
<1> QED
  BY <1>1, <1>2, <1>3, <1>4 DEF Above, Below

\* A hunk is told by how many come before it, and those before and after it are
\* all the others.
LEMMA RankIs ==
    ASSUME NEW c \in Commands, NEW h \in Hunks[c]
    PROVE  LET n == Cardinality(Hunks[c]) IN
           /\ Cardinality(Above(c)[h]) \in 0 .. n - 1 /\ Cardinality(Below(c)[h]) \in 0 .. n - 1
           /\ Cardinality(Above(c)[h]) + Cardinality(Below(c)[h]) = n - 1
           /\ \A g \in Hunks[c] : g # h => \/ Cardinality(Above(c)[g]) < Cardinality(Above(c)[h])
                                              /\ HunkOrder(g, h)
                                           \/ Cardinality(Above(c)[h]) < Cardinality(Above(c)[g])
                                              /\ HunkOrder(h, g)
<1>1. PICK n, hunks, above, below :
         /\ n \in Nat /\ n = Cardinality(Hunks[c]) /\ hunks = Hunks[c] /\ above = Above(c) /\ below = Below(c)
  BY HunkTypes
<1>2. IsFiniteSet(hunks) /\ Cardinality(hunks) = n
  BY <1>1, HunkTypes
<1>3. /\ \A f \in hunks : above[f] \subseteq hunks /\ below[f] \subseteq hunks
      /\ \A f, g \in hunks : /\ g \in above[f] <=> HunkOrder(g, f)
                             /\ g \in below[f] <=> HunkOrder(f, g)
  BY <1>1, OrderIs
<1>4. \A g \in hunks : IsFiniteSet(above[g]) /\ Cardinality(above[g]) \in Nat
  BY <1>2, <1>3, FS_Subset, FS_CardinalityType
<1>5. IsFiniteSet(below[h]) /\ Cardinality(below[h]) \in Nat
  BY <1>1, <1>2, <1>3, FS_Subset, FS_CardinalityType
<1>6. Cardinality(above[h]) + Cardinality(below[h]) = n - 1
  <2>1. above[h] \cap below[h] = {} /\ h \notin above[h] \cup below[h]
    BY <1>1, <1>3, OrderIs
  <2>2. hunks = (above[h] \cup below[h]) \cup {h}
    BY <1>1, <1>3, OrderIs
  <2>3. PICK both : both = above[h] \cup below[h]
    OBVIOUS
  <2>4. /\ IsFiniteSet(both)
        /\ Cardinality(both) = Cardinality(above[h]) + Cardinality(below[h]) - Cardinality({})
    <3>1. PICK s, t : s = above[h] /\ t = below[h]
      OBVIOUS
    <3>2. IsFiniteSet(s) /\ IsFiniteSet(t) /\ both = s \cup t /\ s \cap t = {}
      BY <1>1, <1>4, <1>5, <2>1, <2>3, <3>1
    <3> QED
      BY <3>1, <3>2, FS_Union
  <2>5. Cardinality({}) = 0
    BY FS_EmptySet
  <2>6. Cardinality(both \cup {h}) = Cardinality(both) + 1
    BY <2>1, <2>3, <2>4, FS_AddElement
  <2> QED
    BY <1>1, <1>2, <1>4, <1>5, <2>2, <2>3, <2>4, <2>5, <2>6
<1>7. ASSUME NEW f \in hunks, NEW g \in hunks, HunkOrder(f, g)
      PROVE  Cardinality(above[f]) < Cardinality(above[g])
  <2>1. above[f] \subseteq above[g] /\ f \in above[g] /\ f \notin above[f]
    BY <1>1, <1>3, <1>7, OrderIs
  <2>2. Cardinality(above[f]) <= Cardinality(above[g]) /\ Cardinality(above[f]) # Cardinality(above[g])
    BY <1>4, <2>1, FS_Subset
  <2> QED
    BY <1>4, <2>2
<1>8. \A g \in hunks : g # h => HunkOrder(g, h) \/ HunkOrder(h, g)
  BY <1>1, OrderIs
<1>9. /\ Cardinality(above[h]) \in 0 .. n - 1 /\ Cardinality(below[h]) \in 0 .. n - 1
  BY <1>1, <1>4, <1>5, <1>6
<1> QED
  BY <1>1, <1>6, <1>7, <1>8, <1>9

\* The k-th hunk of the order of application, and of the order of the text.
LEMMA HunkAt ==
    ASSUME NEW c \in Commands, NEW k \in 1 .. Cardinality(Hunks[c])
    PROVE  /\ Sorted(c)[k] \in Hunks[c] /\ Cardinality(Above(c)[Sorted(c)[k]]) = k - 1
           /\ Forward(c)[(Cardinality(Hunks[c]) - k) + 1] = Sorted(c)[k]
<1>1. PICK n \in Nat : n = Cardinality(Hunks[c])
  BY HunkTypes
<1>2. PICK h \in Hunks[c] : h = Sorted(c)[k]
  BY SortedIs
<1>3. Cardinality(Above(c)[h]) = k - 1
  BY <1>2, SortedIs DEF Above
<1>4. Cardinality(Below(c)[h]) = n - k
  <2>1. PICK a \in Nat, b \in Nat : a = Cardinality(Above(c)[h]) /\ b = Cardinality(Below(c)[h])
    BY <1>1, RankIs
  <2>2. a + b = n - 1
    BY <1>1, <2>1, RankIs
  <2> QED
    BY <1>1, <1>3, <2>1, <2>2
<1>5. ASSUME NEW g \in Hunks[c], Cardinality(Below(c)[g]) = n - k
      PROVE  g = h
  <2>1. PICK a \in Nat : a = Cardinality(Above(c)[g])
    BY <1>1, RankIs
  <2>2. a + (n - k) = n - 1
    BY <1>1, <1>5, <2>1, RankIs
  <2>3. a = k - 1
    BY <1>1, <2>1, <2>2
  <2>4. ~(Cardinality(Above(c)[g]) < Cardinality(Above(c)[h]))
        /\ ~(Cardinality(Above(c)[h]) < Cardinality(Above(c)[g]))
    BY <1>3, <2>1, <2>3
  <2> QED
    BY <2>4, RankIs
<1>6. PICK j \in 1 .. n : j = (n - k) + 1 /\ j - 1 = n - k
  BY <1>1
<1>7. Forward(c)[j] = CHOOSE g \in Hunks[c] : Cardinality({f \in Hunks[c] : ForwardOrder(f, g)}) = n - k
  BY <1>1, <1>6 DEF Forward, Ranked
<1>8. \A g \in Hunks[c] : Cardinality({f \in Hunks[c] : ForwardOrder(f, g)}) = Cardinality(Below(c)[g])
  BY DEF Below
<1>9. Forward(c)[j] = h
  BY <1>4, <1>5, <1>7, <1>8
<1> QED
  BY <1>1, <1>2, <1>3, <1>6, <1>9
\* Of two hunks the one applied later ends before the other begins.
LEMMA HunksAreApart ==
    ASSUME NEW c \in Commands, NEW j \in 1 .. Cardinality(Hunks[c]),
           NEW k \in 1 .. Cardinality(Hunks[c]), j < k
    PROVE  Sorted(c)[k].end <= Sorted(c)[j].start
<1>1. PICK g \in Hunks[c], h \in Hunks[c] : g = Sorted(c)[j] /\ h = Sorted(c)[k]
  BY HunkAt
<1>2. Cardinality(Above(c)[g]) = j - 1 /\ Cardinality(Above(c)[h]) = k - 1
  BY <1>1, HunkAt
<1>3. Cardinality(Above(c)[g]) < Cardinality(Above(c)[h])
      /\ ~(Cardinality(Above(c)[h]) < Cardinality(Above(c)[g]))
  BY <1>2
<1>4. HunkOrder(g, h)
  BY <1>3, RankIs
<1>5. ForwardOrder(h, g)
  BY <1>4 DEF HunkOrder, ForwardOrder
<1>6. h.end <= g.start
  BY <1>5, HunksAssumption DEF Valid
<1> QED
  BY <1>1, <1>6

\* Where the text between hunks goes on, and where it ends.
LEMMA EndIs ==
    ASSUME NEW c \in Commands, NEW k \in 0 .. Cardinality(Hunks[c])
    PROVE  EndOf(c, k) \in Nat /\ EndOf(c, k) <= Len(Base)
<1>1. PICK n \in Nat : n = Cardinality(Hunks[c])
  BY HunkTypes
<1>2. CASE k = 0
  BY <1>2, HunksAssumption DEF EndOf
<1>3. CASE k # 0
  <2>1. PICK j \in 1 .. n : j = (n - k) + 1 /\ (n - j) + 1 = k
    BY <1>1, <1>3
  <2>2. Forward(c)[k] = Sorted(c)[j] /\ Sorted(c)[j] \in Hunks[c]
    BY <1>1, <2>1, HunkAt
  <2> QED
    BY <1>3, <2>2, HunkTypes DEF EndOf
<1> QED
  BY <1>2, <1>3

LEMMA ForwardIs ==
    ASSUME NEW c \in Commands, NEW k \in 1 .. Cardinality(Hunks[c])
    PROVE  Forward(c)[k] \in Hunks[c]
<1>1. PICK n \in Nat : n = Cardinality(Hunks[c])
  BY HunkTypes
<1>2. PICK j \in 1 .. n : j = (n - k) + 1 /\ (n - j) + 1 = k
  BY <1>1
<1> QED
  BY <1>1, <1>2, HunkAt

\* The text of the first hunks, one after another.
Stretch(c, k) == Slice(Base, EndOf(c, k - 1), Forward(c)[k].start)
JoinedUpTo(c, n, g) ==
    g = [k \in 0 .. n |-> IF k = 0 THEN << >> ELSE g[k - 1] \o Stretch(c, k) \o Forward(c)[k].new]

LEMMA JoinedExists ==
    ASSUME NEW c \in Commands, NEW n \in Nat
    PROVE  \E g : JoinedUpTo(c, n, g)
<1> DEFINE bad == {m \in Nat : ~ \E g : JoinedUpTo(c, m, g)}
<1>1. SUFFICES ASSUME bad # {} PROVE FALSE
  OBVIOUS
<1>2. PICK m \in bad : \A y \in bad : m <= y
  BY <1>1, LeastNumber
<1>3. CASE m = 0
  <2>1. PICK g : g = [k \in 0 .. 0 |-> << >>]
    OBVIOUS
  <2>2. JoinedUpTo(c, 0, g)
    BY <2>1 DEF JoinedUpTo
  <2> QED
    BY <1>3, <2>2
<1>4. CASE m # 0
  <2>1. m - 1 \in Nat /\ m - 1 \notin bad /\ m \in Nat
    BY <1>2, <1>4
  <2>2. PICK g : JoinedUpTo(c, m - 1, g)
    BY <2>1
  <2>3. PICK f : f = [k \in 0 .. m |-> IF k = m THEN g[m - 1] \o Stretch(c, m) \o Forward(c)[m].new
                                              ELSE g[k]]
    OBVIOUS
  <2>4. \A k \in 0 .. m - 1 : f[k] = g[k]
    BY <2>1, <2>3
  <2>5. ASSUME NEW k \in 0 .. m
        PROVE  f[k] = IF k = 0 THEN << >> ELSE f[k - 1] \o Stretch(c, k) \o Forward(c)[k].new
    <3>1. CASE k = m
      <4>1. f[k - 1] = g[m - 1]
        BY <2>1, <2>4, <3>1
      <4> QED
        BY <1>4, <2>3, <3>1, <4>1
    <3>2. CASE k # m
      <4>1. k \in 0 .. m - 1
        BY <2>1, <3>2
      <4>2. g[k] = IF k = 0 THEN << >> ELSE g[k - 1] \o Stretch(c, k) \o Forward(c)[k].new
        BY <2>2, <4>1 DEF JoinedUpTo
      <4>3. k # 0 => k - 1 \in 0 .. m - 1
        BY <2>1, <4>1
      <4> QED
        BY <2>4, <4>1, <4>2, <4>3
    <3> QED
      BY <3>1, <3>2
  <2>6. JoinedUpTo(c, m, f)
    BY <2>3, <2>5 DEF JoinedUpTo
  <2> QED
    BY <2>6
<1> QED
  BY <1>3, <1>4

LEMMA JoinedIs ==
    ASSUME NEW c \in Commands
    PROVE  /\ Joined(c)[0] = << >>
           /\ \A k \in 1 .. Cardinality(Hunks[c]) :
                 Joined(c)[k] = Joined(c)[k - 1] \o Stretch(c, k) \o Forward(c)[k].new
<1>1. PICK n \in Nat : n = Cardinality(Hunks[c])
  BY HunkTypes
<1>2. Joined(c) = CHOOSE g : g = [k \in 0 .. n |-> IF k = 0 THEN << >>
                                                   ELSE g[k - 1] \o Stretch(c, k) \o Forward(c)[k].new]
  BY <1>1 DEF Joined, Stretch
<1>3. PICK f : f = [k \in 0 .. n |-> IF k = 0 THEN << >>
                                     ELSE f[k - 1] \o Stretch(c, k) \o Forward(c)[k].new]
  BY JoinedExists DEF JoinedUpTo
<1>4. PICK g : /\ g = Joined(c)
               /\ g = [k \in 0 .. n |-> IF k = 0 THEN << >>
                                        ELSE g[k - 1] \o Stretch(c, k) \o Forward(c)[k].new]
  BY <1>2, <1>3
<1>5. g[0] = << >> /\ \A k \in 1 .. n : g[k] = g[k - 1] \o Stretch(c, k) \o Forward(c)[k].new
  <2>1. PICK e : /\ e = [k \in 0 .. n |-> IF k = 0 THEN << >>
                                          ELSE g[k - 1] \o Stretch(c, k) \o Forward(c)[k].new]
                 /\ g = e
    BY <1>4
  <2>2. \A k \in 0 .. n : e[k] = IF k = 0 THEN << >>
                                 ELSE g[k - 1] \o Stretch(c, k) \o Forward(c)[k].new
    BY <2>1
  <2>3. \A k \in 0 .. n : g[k] = IF k = 0 THEN << >>
                                 ELSE g[k - 1] \o Stretch(c, k) \o Forward(c)[k].new
    BY <2>1, <2>2
  <2>4. 0 \in 0 .. n /\ \A k \in 1 .. n : k \in 0 .. n /\ k # 0
    OBVIOUS
  <2> QED
    BY <2>3, <2>4
<1> QED
  BY <1>1, <1>4, <1>5
LEMMA StretchIs ==
    ASSUME NEW c \in Commands, NEW k \in 1 .. Cardinality(Hunks[c])
    PROVE  Stretch(c, k) \in Seq(Words) /\ Forward(c)[k].new \in Seq(Words)
<1>1. k - 1 \in 0 .. Cardinality(Hunks[c])
  BY HunkTypes
<1>2. EndOf(c, k - 1) \in Nat
  BY <1>1, EndIs
<1>3. PICK h \in Hunks[c] : h = Forward(c)[k]
  BY ForwardIs
<1>4. h.start \in Nat /\ h.new \in Seq(Words)
  BY HunkTypes
<1> QED
  BY <1>2, <1>3, <1>4, SliceIs, HunksAssumption DEF Stretch

LEMMA JoinedTypes ==
    ASSUME NEW c \in Commands, NEW k \in 0 .. Cardinality(Hunks[c])
    PROVE  Joined(c)[k] \in Seq(Words)
<1> DEFINE bad == {m \in 0 .. Cardinality(Hunks[c]) : Joined(c)[m] \notin Seq(Words)}
<1>1. SUFFICES ASSUME bad # {} PROVE FALSE
  OBVIOUS
<1>2. PICK n \in Nat : n = Cardinality(Hunks[c])
  BY HunkTypes
<1>3. PICK m \in bad : \A y \in bad : m <= y
  <2>1. bad \subseteq Nat
    BY <1>2
  <2> QED
    BY <1>1, <2>1, LeastNumber
<1>4. m # 0
  BY <1>3, JoinedIs, EmptySeq
<1>5. m \in 1 .. n /\ m - 1 \in 0 .. n /\ m - 1 \notin bad
  BY <1>2, <1>3, <1>4
<1>6. PICK before, stretch, new :
         /\ before = Joined(c)[m - 1] /\ stretch = Stretch(c, m) /\ new = Forward(c)[m].new
  OBVIOUS
<1>7. before \in Seq(Words) /\ stretch \in Seq(Words) /\ new \in Seq(Words)
  BY <1>2, <1>5, <1>6, StretchIs
<1>8. before \o stretch \in Seq(Words)
  BY <1>7, JoinedRange
<1>9. (before \o stretch) \o new \in Seq(Words)
  BY <1>7, <1>8, JoinedRange
<1>10. Joined(c)[m] = before \o stretch \o new
  BY <1>2, <1>5, <1>6, JoinedIs
<1> QED
  BY <1>3, <1>9, <1>10

\* How much of Base is as it was once the first k hunks are applied.
Kept(c, k) == IF k = 0 THEN Len(Base) ELSE Sorted(c)[k].start

LEMMA KeptIs ==
    ASSUME NEW c \in Commands, NEW k \in 0 .. Cardinality(Hunks[c])
    PROVE  /\ Kept(c, k) \in Nat /\ Kept(c, k) <= Len(Base)
           /\ k < Cardinality(Hunks[c]) => Sorted(c)[k + 1].end <= Kept(c, k)
<1>1. PICK n \in Nat : n = Cardinality(Hunks[c])
  BY HunkTypes
<1>2. Len(Base) \in Nat
  BY HunksAssumption
<1>3. CASE k = 0
  <2>1. k < n => Sorted(c)[k + 1] \in Hunks[c]
    BY <1>1, <1>3, HunkAt
  <2> QED
    BY <1>1, <1>2, <1>3, <2>1, HunkTypes DEF Kept
<1>4. CASE k # 0
  <2>1. PICK g \in Hunks[c] : g = Sorted(c)[k]
    BY <1>1, <1>4, HunkAt
  <2>2. g.start \in Nat /\ g.end \in Nat /\ g.start <= g.end /\ g.end <= Len(Base)
    BY HunkTypes
  <2>3. g.start <= Len(Base)
    BY <1>2, <2>2
  <2>4. ASSUME k < n
        PROVE  Sorted(c)[k + 1].end <= Sorted(c)[k].start
    <3>1. k \in 1 .. n /\ k + 1 \in 1 .. n /\ k < k + 1
      BY <1>1, <1>4, <2>4
    <3> QED
      BY <1>1, <3>1, HunksAreApart
  <2> QED
    BY <1>1, <1>4, <2>1, <2>2, <2>3, <2>4 DEF Kept
<1> QED
  BY <1>3, <1>4

\* A text with k hunks applied: it begins like Base, and with the hunks that are
\* still to come before it, it is the text expected.
Stage(c, k, text) ==
    /\ text \in Seq(Words)
    /\ Kept(c, k) <= Len(text) /\ Slice(text, 0, Kept(c, k)) = Slice(Base, 0, Kept(c, k))
    /\ LET m == Cardinality(Hunks[c]) - k
       IN  Joined(c)[m] \o Slice(text, EndOf(c, m), Len(text)) = Expected(c)

LEMMA StageFirst ==
    ASSUME NEW c \in Commands
    PROVE  Stage(c, 0, Base)
<1>1. PICK n \in Nat : n = Cardinality(Hunks[c]) /\ n - 0 = n
  BY HunkTypes
<1>2. Len(Base) \in Nat /\ Base \in Seq(Words)
  BY HunksAssumption
<1>3. Joined(c)[n - 0] \o Slice(Base, EndOf(c, n - 0), Len(Base)) = Expected(c)
  BY <1>1 DEF Expected
<1>4. Kept(c, 0) = Len(Base)
  BY DEF Kept
<1>5. Kept(c, 0) <= Len(Base)
  BY <1>2, <1>4
<1> QED
  BY <1>1, <1>2, <1>3, <1>4, <1>5 DEF Stage

\* The text with all hunks applied is the text expectedHash stands for.
LEMMA StageLast ==
    ASSUME NEW c \in Commands, NEW text, Stage(c, Cardinality(Hunks[c]), text)
    PROVE  text = Expected(c)
<1>1. PICK n \in Nat : n = Cardinality(Hunks[c]) /\ n - n = 0
  BY HunkTypes
<1>2. Joined(c)[0] \o Slice(text, EndOf(c, 0), Len(text)) = Expected(c) /\ text \in Seq(Words)
  BY <1>1 DEF Stage
<1>3. EndOf(c, 0) = 0 /\ Joined(c)[0] = << >>
  BY JoinedIs DEF EndOf
<1>4. Slice(text, 0, Len(text)) = text /\ << >> \o text = text
  BY <1>2, SliceOfAll, ConcatEmptySeq
<1> QED
  BY <1>2, <1>3, <1>4

\* The next hunk finds its old words, and applied it leads to the next stage.
LEMMA StageNext ==
    ASSUME NEW c \in Commands, NEW k \in 0 .. Cardinality(Hunks[c]) - 1, NEW text, Stage(c, k, text)
    PROVE  LET h == Sorted(c)[k + 1]
           IN  /\ h \in Hunks[c] /\ h.end <= Len(text) /\ SliceMatches(text, h)
               /\ Stage(c, k + 1, Splice(text, h.start, h.end, h.new))
<1>1. PICK n \in Nat : n = Cardinality(Hunks[c])
  BY HunkTypes
<1>2. k \in 0 .. n /\ k + 1 \in 1 .. n /\ k < n /\ k \in Nat
  BY <1>1
<1>3. PICK h \in Hunks[c] : h = Sorted(c)[k + 1]
  BY <1>1, <1>2, HunkAt
<1>4. PICK from \in Nat, to \in Nat, new \in Seq(Words) : from = h.start /\ to = h.end /\ new = h.new
  BY HunkTypes
<1>5. from <= to /\ Slice(Base, from, to) = h.old
  BY <1>4, HunkTypes
<1>6. PICK last \in Nat : last = Kept(c, k) /\ last <= Len(Base) /\ to <= last
  BY <1>1, <1>2, <1>3, <1>4, KeptIs
<1>7. /\ text \in Seq(Words) /\ last <= Len(text) /\ Slice(text, 0, last) = Slice(Base, 0, last)
      /\ Base \in Seq(Words)
  BY <1>6, HunksAssumption DEF Stage
<1>8. Slice(text, from, to) = h.old /\ to <= Len(text)
  <2>1. Slice(text, from, to) = Slice(Base, from, to)
    BY <1>6, <1>7, SlicesAgree
  <2> QED
    BY <1>5, <1>6, <1>7, <2>1
<1>9. PICK after : after = Splice(text, from, to, new)
  OBVIOUS
<1>10. /\ after \in Seq(Words) /\ Len(after) = from + Len(new) + (Len(text) - to)
       /\ Slice(after, 0, from) = Slice(text, 0, from)
       /\ Slice(after, from, from + Len(new)) = new
       /\ Slice(after, from + Len(new), Len(after)) = Slice(text, to, Len(text))
  <2>1. /\ text \in Seq(Words) /\ from \in Nat /\ to \in Nat /\ new \in Seq(Words)
        /\ from <= to /\ to <= Len(text)
    BY <1>4, <1>5, <1>7, <1>8
  <2>2. LET a == Splice(text, from, to, new)
        IN  /\ a \in Seq(Words) /\ Len(a) = from + Len(new) + (Len(text) - to)
            /\ Slice(a, 0, from) = Slice(text, 0, from)
            /\ Slice(a, from, from + Len(new)) = new
            /\ Slice(a, from + Len(new), Len(a)) = Slice(text, to, Len(text))
    BY <2>1, SpliceIs
  <2> QED
    BY <1>9, <2>2
<1>11. from <= Len(after) /\ from + Len(new) <= Len(after) /\ Len(new) \in Nat /\ Len(after) \in Nat
  BY <1>7, <1>8, <1>10
<1>12. Slice(after, 0, from) = Slice(Base, 0, from)
  <2>1. Slice(text, 0, from) = Slice(Base, 0, from)
    <3>1. from <= last /\ 0 \in Nat
      BY <1>5, <1>6
    <3> QED
      BY <1>6, <1>7, <3>1, SlicesAgree
  <2> QED
    BY <1>10, <2>1
<1>13. PICK m \in 1 .. n : m = n - k /\ m - 1 = n - (k + 1) /\ m - 1 \in 0 .. n
  BY <1>1, <1>2
<1>14. Forward(c)[m] = h /\ EndOf(c, m) = to
  <2>1. m = (n - (k + 1)) + 1 /\ m # 0
    BY <1>2, <1>13
  <2>2. Forward(c)[m] = h
    BY <1>1, <1>2, <1>3, <2>1, HunkAt
  <2> QED
    BY <1>4, <2>1, <2>2 DEF EndOf
<1>15. PICK e \in Nat : e = EndOf(c, m - 1) /\ e <= from
  <2>1. EndOf(c, m - 1) \in Nat
    BY <1>1, <1>13, EndIs
  <2>2. CASE m = 1
    BY <2>2, <2>1 DEF EndOf
  <2>3. CASE m # 1
    <3>1. k + 2 \in 1 .. n /\ m - 1 = (n - (k + 2)) + 1 /\ m - 1 # 0 /\ k + 1 < k + 2
      BY <1>2, <1>13, <2>3
    <3>2. Forward(c)[m - 1] = Sorted(c)[k + 2]
      BY <1>1, <3>1, HunkAt
    <3>3. Sorted(c)[k + 2].end <= Sorted(c)[k + 1].start
      BY <1>1, <1>2, <3>1, HunksAreApart
    <3> QED
      BY <1>3, <1>4, <2>1, <3>1, <3>2, <3>3 DEF EndOf
  <2> QED
    BY <2>2, <2>3
<1>16. PICK stretch, rest, before :
          /\ stretch = Slice(Base, e, from) /\ rest = Slice(text, to, Len(text))
          /\ before = Joined(c)[m - 1]
  OBVIOUS
<1>17. stretch \in Seq(Words) /\ rest \in Seq(Words) /\ before \in Seq(Words)
  <2>1. before \in Seq(Words)
    BY <1>1, <1>13, <1>16, JoinedTypes
  <2>2. stretch \in Seq(Words)
    BY <1>7, <1>16, SliceIs
  <2>3. rest \in Seq(Words)
    BY <1>7, <1>16, SliceIs
  <2> QED
    BY <2>1, <2>2, <2>3
<1>18. Slice(after, e, Len(after)) = (stretch \o new) \o rest
  <2>1. Slice(after, e, from) = stretch
    <3>1. from <= Len(Base) /\ from <= from
      BY <1>5, <1>6, <1>7
    <3> QED
      BY <1>7, <1>10, <1>11, <1>12, <1>16, <3>1, SlicesAgree
  <2>2. Slice(after, e, from) \o Slice(after, from, from + Len(new)) = Slice(after, e, from + Len(new))
    <3>1. PICK d \in Nat : d = from + Len(new) /\ from <= d /\ d <= Len(after)
      BY <1>11
    <3>2. Slice(after, e, from) \o Slice(after, from, d) = Slice(after, e, d)
      <4>1. /\ after \in Seq(Words) /\ e \in Nat /\ from \in Nat /\ d \in Nat
            /\ e <= from /\ from <= d /\ d <= Len(after)
        BY <1>4, <1>10, <1>15, <3>1
      <4> QED
        BY <4>1, SlicesMeet
    <3> QED
      BY <3>1, <3>2
  <2>3. Slice(after, e, from + Len(new)) \o Slice(after, from + Len(new), Len(after))
           = Slice(after, e, Len(after))
    <3>1. PICK d \in Nat : d = from + Len(new) /\ e <= d /\ d <= Len(after)
      BY <1>11, <1>15
    <3>2. Len(after) \in Nat /\ Len(after) <= Len(after)
      BY <1>11
    <3>3. Slice(after, e, d) \o Slice(after, d, Len(after)) = Slice(after, e, Len(after))
      <4>1. /\ after \in Seq(Words) /\ e \in Nat /\ d \in Nat /\ Len(after) \in Nat
            /\ e <= d /\ d <= Len(after) /\ Len(after) <= Len(after)
        BY <1>10, <1>15, <3>1, <3>2
      <4> QED
        BY <4>1, SlicesMeet, ZenonT(60)
    <3> QED
      BY <3>1, <3>3
  <2> QED
    BY <1>10, <1>16, <2>1, <2>2, <2>3
<1>19. before \o ((stretch \o new) \o rest) = ((before \o stretch) \o new) \o rest
  <2>1. stretch \in Seq(Words) /\ rest \in Seq(Words) /\ before \in Seq(Words) /\ new \in Seq(Words)
    BY <1>4, <1>17
  <2>2. stretch \o new \in Seq(Words)
    BY <2>1, JoinedRange
  <2>3. (before \o (stretch \o new)) \o rest = before \o ((stretch \o new) \o rest)
    BY <2>1, <2>2, TextsAssociate, ZenonT(60)
  <2>4. (before \o stretch) \o new = before \o (stretch \o new)
    BY <2>1, TextsAssociate, Zenon
  <2> QED
    BY <2>3, <2>4
<1>20. Joined(c)[m] = (before \o stretch) \o new
  <2>1. m \in 1 .. Cardinality(Hunks[c])
    BY <1>1
  <2>2. Joined(c)[m] = Joined(c)[m - 1] \o Stretch(c, m) \o Forward(c)[m].new
    BY <2>1, JoinedIs
  <2>3. Stretch(c, m) = stretch
    BY <1>4, <1>14, <1>15, <1>16 DEF Stretch
  <2> QED
    BY <1>4, <1>14, <1>16, <2>2, <2>3
<1>21. Joined(c)[m] \o rest = Expected(c)
  <2>1. Joined(c)[m] \o Slice(text, EndOf(c, m), Len(text)) = Expected(c)
    BY <1>1, <1>13 DEF Stage
  <2> QED
    BY <1>14, <1>16, <2>1
<1>22. Joined(c)[m - 1] \o Slice(after, EndOf(c, m - 1), Len(after)) = Expected(c)
  BY <1>15, <1>16, <1>18, <1>19, <1>20, <1>21
<1>23. Kept(c, k + 1) = from
  BY <1>2, <1>3, <1>4 DEF Kept
<1>24. Stage(c, k + 1, after)
  BY <1>1, <1>10, <1>11, <1>12, <1>13, <1>22, <1>23 DEF Stage
<1> QED
  BY <1>3, <1>4, <1>8, <1>9, <1>24 DEF SliceMatches
-----------------------------------------------------------------------------
(* All or nothing *)

\* The text of a command's journal after its first k hunks.
TextAt(c, k) == IF k = 0 THEN Base ELSE journal[c][k].text

\* A journal is the hunks in the order of application, each entry a stage on the
\* way from Base to the text expected, whatever the document is meanwhile.
ChainInv(c) ==
    /\ \A k \in 0 .. Len(journal[c]) : Stage(c, k, TextAt(c, k))
    /\ \A k \in 1 .. Len(journal[c]) :
          LET h == journal[c][k].hunk
          IN  h = Sorted(c)[k] /\ TextAt(c, k) = Splice(TextAt(c, k - 1), h.start, h.end, h.new)
JournalInv(c) ==
    /\ ChainInv(c)
    /\ pc[c] \in {"idle", "locating"} => journal[c] = << >>
    /\ pc[c] \in Applying => live[c] = TextAt(c, Len(journal[c]))
    /\ undone[c] # 0 => pc[c] \in {"undo reading", "undo writing", "verifying", "done"}

\* While nobody else touches the document it is what is left of the journal, and
\* only a rejected sync makes the executor recover.
Recovering == {"giving up", "checking", "undo reading", "undo writing", "verifying"}
Now(c) == TextAt(c, Len(journal[c]) - undone[c])
OutcomeInv(c) ==
    hostErrors <= 1 =>
        /\ pc[c] # "verifying" /\ ~undoFailed[c]
        /\ pc[c] = "done" => /\ doc[1].text = (IF result[c] = "SUCCESS" THEN Expected(c) ELSE Base)
                             /\ hostErrors = 0 => result[c] = "SUCCESS"
QuietInv(c) ==
    Undisturbed(c) =>
        /\ doc[1].text = Now(c)
        /\ pc[c] \in MidCall => seen[c] = Now(c)
        /\ pc[c] = "giving up" => journal[c] = << >>
        /\ pc[c] = "checking" => journal[c] # << >>
        /\ pc[c] \in Recovering => hostErrors >= 1
        /\ OutcomeInv(c)
TransactionInv == \A c \in Commands : JournalInv(c) /\ QuietInv(c)

LEMMA CountsAre ==
    ASSUME TypeInv, NEW c \in Commands
    PROVE  /\ Len(journal[c]) \in Nat /\ undone[c] \in Nat /\ undone[c] <= Len(journal[c])
           /\ step[c] = Len(journal[c]) /\ Len(journal[c]) <= Cardinality(Hunks[c])
           /\ DOMAIN journal[c] = 1 .. Len(journal[c])
<1>1. CommandInv(c)
  BY CommandIs
<1>2. undone[c] \in Nat
  BY CommandIs
<1>3. journal[c] \in Seq([hunk: UNION {Hunks[d] : d \in Commands}, text: Seq(Words)])
  BY CommandIs
<1>4. Len(journal[c]) \in Nat /\ DOMAIN journal[c] = 1 .. Len(journal[c])
  BY <1>3
<1> QED
  BY <1>1, <1>2, <1>4 DEF CommandInv

\* The k-th text of a journal is a stage.
LEMMA TextIs ==
    ASSUME TypeInv, NEW c \in Commands, ChainInv(c), NEW k \in 0 .. Len(journal[c])
    PROVE  TextAt(c, k) \in Seq(Words) /\ Stage(c, k, TextAt(c, k))
BY DEF ChainInv, Stage

LEMMA ActionIs ==
    ASSUME TypeInv, NEW c \in Commands, NEW k \in 1 .. Len(journal[c])
    PROVE  RollbackActions(c)[k] = Compensation(journal[c][(Len(journal[c]) - k) + 1].hunk)
<1>1. PICK n \in Nat : n = Len(journal[c])
  BY CountsAre
<1>2. PICK actions : actions = [i \in 1 .. n |-> Compensation(journal[c][i].hunk)]
  OBVIOUS
<1>3. Len(actions) = n /\ RollbackActions(c) = Reverse(actions)
  BY <1>1, <1>2 DEF RollbackActions
<1>4. Reverse(actions)[k] = actions[(n - k) + 1]
  BY <1>1, <1>3 DEF Reverse
<1>5. (n - k) + 1 \in 1 .. n
  BY <1>1
<1> QED
  BY <1>1, <1>2, <1>3, <1>4, <1>5

\* The rollback finds the new words of the hunk it undoes, and leaves the text
\* from before that hunk.
LEMMA UndoIs ==
    ASSUME TypeInv, NEW c \in Commands, ChainInv(c), undone[c] < Len(journal[c])
    PROVE  LET h == RollbackActions(c)[undone[c] + 1]
           IN  /\ SliceMatches(Now(c), h)
               /\ Splice(Now(c), h.start, h.end, h.new)
                     = TextAt(c, Len(journal[c]) - (undone[c] + 1))
<1>1. PICK n \in Nat, u \in Nat : n = Len(journal[c]) /\ u = undone[c] /\ u < n
  BY CountsAre
<1>2. PICK k \in 1 .. n : k = n - u /\ k - 1 = n - (u + 1) /\ k - 1 \in 0 .. n /\ k # 0
  <2>1. n - u \in 1 .. n
    BY <1>1
  <2>2. PICK k \in 1 .. n : k = n - u
    BY <2>1
  <2>3. k - 1 = n - (u + 1) /\ k - 1 \in 0 .. n /\ k # 0
    BY <1>1, <2>2
  <2> QED
    BY <2>2, <2>3
<1>3. PICK g : g = journal[c][k].hunk
  OBVIOUS
<1>4. RollbackActions(c)[undone[c] + 1] = Compensation(g)
  <2>1. u + 1 \in 1 .. n
    BY <1>1
  <2>2. (n - (u + 1)) + 1 = k
    BY <1>1, <1>2
  <2> QED
    BY <1>1, <1>3, <2>1, <2>2, ActionIs
<1>5. g = Sorted(c)[k] /\ TextAt(c, k) = Splice(TextAt(c, k - 1), g.start, g.end, g.new)
  BY <1>1, <1>3 DEF ChainInv
<1>6. PICK text : text = TextAt(c, k - 1)
  OBVIOUS
<1>7. text \in Seq(Words) /\ Stage(c, k - 1, text)
  BY <1>1, <1>2, <1>6, TextIs
<1>8. g \in Hunks[c] /\ g.end <= Len(text) /\ SliceMatches(text, g)
  <2>1. n <= Cardinality(Hunks[c]) /\ Cardinality(Hunks[c]) \in Nat
    BY <1>1, CountsAre, HunkTypes
  <2>2. PICK j : j = k - 1 /\ j \in 0 .. Cardinality(Hunks[c]) - 1 /\ j + 1 = k
    BY <1>1, <1>2, <2>1, SMTT(60)
  <2> QED
    BY <1>5, <1>7, <2>2, StageNext
<1>9. PICK from \in Nat, to \in Nat, new \in Seq(Words), old \in Seq(Words) :
         from = g.start /\ to = g.end /\ new = g.new /\ old = g.old
  BY <1>8, HunkTypes
<1>10. from <= to /\ to <= Len(text) /\ old = Slice(text, from, to)
  BY <1>8, <1>9, HunkTypes DEF SliceMatches
<1>11. Splice(Splice(text, from, to, new), from, from + Len(new), old) = text
  <2>1. Splice(Splice(text, from, to, new), from, from + Len(new), Slice(text, from, to)) = text
    BY <1>7, <1>9, <1>10, SpliceUndone
  <2> QED
    BY <1>10, <2>1
<1>12. Slice(Splice(text, from, to, new), from, from + Len(new)) = new
  <2>1. /\ text \in Seq(Words) /\ from \in Nat /\ to \in Nat /\ new \in Seq(Words)
        /\ from <= to /\ to <= Len(text)
    BY <1>7, <1>9, <1>10
  <2> QED
    BY <2>1, SpliceIs
<1>13. Now(c) = Splice(text, from, to, new)
  BY <1>1, <1>2, <1>5, <1>6, <1>9 DEF Now
<1>14. PICK h : h = Compensation(g)
  OBVIOUS
<1>15. h.start = from /\ h.end = from + Len(new) /\ h.old = new /\ h.new = old
  BY <1>9, <1>14 DEF Compensation
<1> QED
  BY <1>1, <1>2, <1>4, <1>6, <1>11, <1>12, <1>13, <1>14, <1>15 DEF SliceMatches
\* A step of one command leaves the executors of the others alone.
LEMMA OthersFrame ==
    ASSUME TypeInv, NEW c \in Commands, NEW d \in Commands, d # c, Execute(d)
    PROVE  /\ pc'[c] = pc[c] /\ seen'[c] = seen[c] /\ live'[c] = live[c]
           /\ journal'[c] = journal[c] /\ undone'[c] = undone[c]
           /\ undoFailed'[c] = undoFailed[c] /\ result'[c] = result[c]
<1>1. /\ pc \in [Commands -> {"idle", "locating", "done"} \cup Applying]
      /\ undoFailed \in [Commands -> BOOLEAN] /\ undone \in [Commands -> Nat]
      /\ result \in [Commands -> Statuses \cup {"none"}]
      /\ seen \in [Commands -> Seq(Words)] /\ live \in [Commands -> Seq(Words)]
      /\ journal \in [Commands -> Seq([hunk: UNION {Hunks[e] : e \in Commands}, text: Seq(Words)])]
  BY DEF TypeInv, ExecType
<1>2. pc'[c] = pc[c]
  <2>1. PICK place : pc' = [pc EXCEPT ![d] = place]
    BY StepGoes DEF Goto
  <2> QED
    BY <1>1, <2>1
<1>3. live'[c] = live[c]
  <2>1. live' = live \/ \E text : live' = [live EXCEPT ![d] = text]
    BY DEF Execute, Begin, Locate, ReadForHunk, WriteHunk, Confirm, GiveUp, PreRollbackCheck,
           UndoRead, UndoWrite, Verify, Record
  <2> QED
    BY <1>1, <2>1
<1>4. seen'[c] = seen[c]
  <2>1. seen' = seen \/ \E text : seen' = [seen EXCEPT ![d] = text]
    BY DEF Execute, Begin, Locate, ReadForHunk, WriteHunk, Confirm, GiveUp, PreRollbackCheck,
           UndoRead, UndoWrite, Verify
  <2> QED
    BY <1>1, <2>1
<1>5. journal'[c] = journal[c]
  <2>1. journal' = journal \/ \E j : journal' = [journal EXCEPT ![d] = j]
    BY DEF Execute, Begin, Locate, ReadForHunk, WriteHunk, Confirm, GiveUp, PreRollbackCheck,
           UndoRead, UndoWrite, Verify, Record
  <2> QED
    BY <1>1, <2>1
<1>6. undone'[c] = undone[c]
  <2>1. undone' = undone \/ \E n : undone' = [undone EXCEPT ![d] = n]
    BY DEF Execute, Begin, Locate, ReadForHunk, WriteHunk, Confirm, GiveUp, PreRollbackCheck,
           UndoRead, UndoWrite, Verify
  <2> QED
    BY <1>1, <2>1
<1>7. undoFailed'[c] = undoFailed[c]
  <2>1. undoFailed' = undoFailed \/ undoFailed' = [undoFailed EXCEPT ![d] = TRUE]
    BY DEF Execute, Begin, Locate, ReadForHunk, WriteHunk, Confirm, GiveUp, PreRollbackCheck,
           UndoRead, UndoWrite, Verify, StopUndo
  <2> QED
    BY <1>1, <2>1
<1>8. result'[c] = result[c]
  <2>1. result' = result \/ \E status : result' = [result EXCEPT ![d] = status]
    BY DEF Execute, Begin, Locate, ReadForHunk, WriteHunk, Confirm, GiveUp, PreRollbackCheck,
           UndoRead, UndoWrite, Verify, Finish
  <2> QED
    BY <1>1, <2>1
<1> QED
  BY <1>2, <1>3, <1>4, <1>5, <1>6, <1>7, <1>8

\* What a step may do to the document and to the count of rejected syncs.
LEMMA WorldStep ==
    ASSUME TypeInv, NEW d \in Commands, Execute(d)
    PROVE  /\ hostErrors' \in Nat /\ hostErrors <= hostErrors' /\ UNCHANGED <<typed, deletions>>
           /\ \/ doc' = doc /\ touched' = touched
              \/ touched' = touched \cup {<<d, doc[index[d]].id>>} /\ (WriteHunk(d) \/ UndoWrite(d))
<1>1. hostErrors \in Nat
  BY DEF TypeInv, WorldType
<1>2. hostErrors' = hostErrors \/ hostErrors' = hostErrors + 1
  BY DEF Execute, Begin, Locate, ReadForHunk, WriteHunk, Confirm, GiveUp, PreRollbackCheck,
         UndoRead, UndoWrite, Verify, HostError
<1>3. UNCHANGED <<typed, deletions>>
  BY DEF Execute, Begin, Locate, ReadForHunk, WriteHunk, Confirm, GiveUp, PreRollbackCheck,
         UndoRead, UndoWrite, Verify, worldVars
<1>4. \/ doc' = doc /\ touched' = touched
      \/ touched' = touched \cup {<<d, doc[index[d]].id>>} /\ (WriteHunk(d) \/ UndoWrite(d))
  <2>1. WriteHunk(d) \/ UndoWrite(d) \/ (doc' = doc /\ touched' = touched)
    BY DEF Execute, Begin, Locate, ReadForHunk, Confirm, GiveUp, PreRollbackCheck, UndoRead, Verify
  <2>2. WriteHunk(d) \/ UndoWrite(d) => \/ doc' = doc /\ touched' = touched
                                        \/ touched' = touched \cup {<<d, doc[index[d]].id>>}
    BY DEF WriteHunk, UndoWrite, Write
  <2> QED
    BY <2>1, <2>2
<1> QED
  BY <1>1, <1>2, <1>3, <1>4

LEMMA WriteKeepsLength ==
    ASSUME TypeInv, NEW d \in Commands, pc[d] \in MidCall, Write(d, Underway(d))
    PROVE  Len(doc') = Len(doc)
<1>1. PICK h : h = Underway(d)
  OBVIOUS
<1>2. h.start \in Nat /\ h.end \in Nat /\ h.new \in Seq(Words)
  BY <1>1, UnderwayIs
<1>3. index[d] \in DOMAIN doc
  BY TargetIs DEF MidCall, Applying
<1> QED
  BY <1>1, <1>2, <1>3, WriteDoes DEF TypeInv

\* Nobody becomes the only one at work again.
LEMMA StaysDisturbed ==
    ASSUME TypeInv, NEW c \in Commands, NEW d \in Commands, Execute(d), Undisturbed(c)'
    PROVE  Undisturbed(c) /\ (d # c => UNCHANGED <<doc, touched>>)
<1>1. /\ UNCHANGED <<typed, deletions>>
      /\ \/ doc' = doc /\ touched' = touched
         \/ touched' = touched \cup {<<d, doc[index[d]].id>>} /\ (WriteHunk(d) \/ UndoWrite(d))
  BY WorldStep
<1>2. typed = {} /\ deletions = 0 /\ \A w \in touched' : w[1] = c
  BY <1>1 DEF Undisturbed
<1>3. \A w \in touched : w[1] = c
  BY <1>1, <1>2
<1>4. Len(doc') = Len(doc)
  <2>1. CASE doc' = doc
    BY <2>1
  <2>2. CASE WriteHunk(d) /\ doc' # doc
    <3>1. pc[d] = "writing" /\ Write(d, Sorted(d)[step[d] + 1])
      BY <2>2 DEF WriteHunk
    <3>2. PICK h : h = Underway(d) /\ Write(d, h)
      BY <3>1 DEF Underway
    <3> QED
      BY <3>1, <3>2, WriteKeepsLength DEF MidCall
  <2>3. CASE UndoWrite(d) /\ doc' # doc
    <3>1. pc[d] = "undo writing" /\ Write(d, RollbackActions(d)[undone[d] + 1])
      BY <2>3 DEF UndoWrite
    <3>2. PICK h : h = Underway(d) /\ Write(d, h)
      BY <3>1 DEF Underway
    <3> QED
      BY <3>1, <3>2, WriteKeepsLength DEF MidCall
  <2> QED
    BY <1>1, <2>1, <2>2, <2>3
<1>5. Undisturbed(c)
  BY <1>2, <1>3, <1>4 DEF Undisturbed
<1>6. d # c => UNCHANGED <<doc, touched>>
  <2>1. SUFFICES ASSUME d # c, touched' = touched \cup {<<d, doc[index[d]].id>>} PROVE FALSE
    BY <1>1
  <2>2. <<d, doc[index[d]].id>> \in touched' /\ <<d, doc[index[d]].id>>[1] = d
    BY <2>1
  <2> QED
    BY <1>2, <2>1, <2>2
<1> QED
  BY <1>5, <1>6
LEMMA ChainKept ==
    ASSUME NEW c \in Commands, ChainInv(c), journal'[c] = journal[c]
    PROVE  ChainInv(c)' /\ \A k : TextAt(c, k)' = TextAt(c, k)
<1>1. \A k : TextAt(c, k)' = TextAt(c, k)
  BY DEF TextAt
<1> QED
  BY <1>1 DEF ChainInv, Stage

\* A write lengthens the journal by the next stage.
LEMMA WriteHunkKeepsJournal ==
    ASSUME TypeInv, NEW c \in Commands, JournalInv(c), WriteHunk(c), journal' # journal
    PROVE  /\ JournalInv(c)'
           /\ LET h == Underway(c)
              IN  /\ Len(journal'[c]) = Len(journal[c]) + 1
                  /\ TextAt(c, Len(journal[c]))'
                        = Splice(TextAt(c, Len(journal[c])), h.start, h.end, h.new)
<1>0. PICK h : h = Underway(c)
  OBVIOUS
<1>1. /\ pc[c] = "writing" /\ h = Sorted(c)[step[c] + 1] /\ UNCHANGED undone
      /\ Record(c, h, Splice(live[c], h.start, h.end, h.new)) /\ Goto(c, "reading")
  BY <1>0 DEF WriteHunk, Underway
<1>2. PICK n \in Nat : n = Len(journal[c]) /\ n = step[c] /\ n + 1 \in Nat
  BY CountsAre
<1>3. n \in 0 .. Cardinality(Hunks[c]) - 1
  <2>1. step[c] < Cardinality(Hunks[c]) /\ Cardinality(Hunks[c]) \in Nat
    BY <1>1, CommandIs DEF CommandInv
  <2> QED
    BY <1>2, <2>1
<1>4. PICK text : text = TextAt(c, n)
  OBVIOUS
<1>5. live[c] = text /\ Stage(c, n, text)
  <2>1. ChainInv(c) /\ live[c] = TextAt(c, Len(journal[c]))
    BY <1>1 DEF JournalInv, Applying
  <2>2. n \in 0 .. Len(journal[c])
    BY <1>2
  <2> QED
    BY <1>2, <1>4, <2>1, <2>2, TextIs
<1>6. PICK after : after = Splice(text, h.start, h.end, h.new)
  OBVIOUS
<1>7. Stage(c, n + 1, after) /\ h = Sorted(c)[n + 1]
  BY <1>1, <1>2, <1>3, <1>5, <1>6, StageNext
<1>8. PICK e : e = [hunk |-> h, text |-> after] /\ e.hunk = h /\ e.text = after
  <2>1. PICK d : d = [hunk |-> h, text |-> after]
    OBVIOUS
  <2>2. d.hunk = h /\ d.text = after
    BY <2>1
  <2> QED
    BY <2>1, <2>2
<1>9. live' = [live EXCEPT ![c] = after] /\ journal' = [journal EXCEPT ![c] = Append(@, e)]
  BY <1>1, <1>5, <1>6, <1>8 DEF Record
<1>10. PICK j : j = Append(journal[c], e)
  OBVIOUS
<1>11. Len(j) = n + 1 /\ j[n + 1] = e /\ \A i \in 1 .. n : j[i] = journal[c][i]
  <2>1. PICK E : e \in E /\ journal[c] \in Seq(E)
    <3>1. PICK D : D = [hunk: UNION {Hunks[d] : d \in Commands}, text: Seq(Words)]
      OBVIOUS
    <3>2. journal[c] \in Seq(D \cup {e})
      BY <3>1, CommandIs, SeqMonotonic
    <3> QED
      BY <3>2
  <2>2. PICK s : s = journal[c]
    OBVIOUS
  <2>3. /\ Append(s, e) \in Seq(E) /\ Len(Append(s, e)) = Len(s) + 1
        /\ \A i \in 1 .. Len(s) : Append(s, e)[i] = s[i]
        /\ Append(s, e)[Len(s) + 1] = e
    BY <2>1, <2>2, AppendProperties
  <2> QED
    BY <1>2, <1>10, <2>2, <2>3
<1>12. journal'[c] = j /\ live'[c] = after /\ pc'[c] = "reading" /\ undone'[c] = undone[c]
  <2>1. /\ pc \in [Commands -> {"idle", "locating", "done"} \cup Applying]
        /\ live \in [Commands -> Seq(Words)]
        /\ journal \in [Commands -> Seq([hunk: UNION {Hunks[d] : d \in Commands}, text: Seq(Words)])]
    BY DEF TypeInv, ExecType
  <2> QED
    BY <1>1, <1>9, <1>10, <2>1 DEF Goto
<1>13. TextAt(c, n + 1)' = after /\ \A k \in 0 .. n : TextAt(c, k)' = TextAt(c, k)
  BY <1>2, <1>8, <1>11, <1>12 DEF TextAt
<1>14. ASSUME NEW k \in 0 .. n + 1
       PROVE  Stage(c, k, TextAt(c, k))'
  <2>1. CASE k = n + 1
    BY <1>7, <1>13, <2>1 DEF Stage
  <2>2. CASE k # n + 1
    <3>1. k \in 0 .. n
      BY <2>2
    <3>2. Stage(c, k, TextAt(c, k))
      BY <1>2, <3>1 DEF JournalInv, ChainInv
    <3> QED
      BY <1>13, <3>1, <3>2 DEF Stage
  <2> QED
    BY <2>1, <2>2
<1>15. ASSUME NEW k \in 1 .. n + 1
       PROVE  LET g == j[k].hunk
              IN  /\ g = Sorted(c)[k]
                  /\ TextAt(c, k)' = Splice(TextAt(c, k - 1)', g.start, g.end, g.new)
  <2>1. CASE k = n + 1
    <3>1. TextAt(c, k - 1)' = text
      BY <1>4, <1>13, <2>1
    <3> QED
      BY <1>6, <1>7, <1>8, <1>11, <1>13, <2>1, <3>1
  <2>2. CASE k # n + 1
    <3>1. k \in 1 .. n /\ k \in 0 .. n /\ k - 1 \in 0 .. n
      BY <2>2
    <3>2. LET g == journal[c][k].hunk
          IN  g = Sorted(c)[k] /\ TextAt(c, k) = Splice(TextAt(c, k - 1), g.start, g.end, g.new)
      BY <1>2, <3>1 DEF JournalInv, ChainInv
    <3> QED
      BY <1>11, <1>13, <3>1, <3>2
  <2> QED
    BY <2>1, <2>2
<1>16. ChainInv(c)'
  BY <1>11, <1>12, <1>14, <1>15 DEF ChainInv
<1>17. undone[c] = 0
  <2>1. pc[c] \notin {"undo reading", "undo writing", "verifying", "done"}
    BY <1>1
  <2> QED
    BY <2>1 DEF JournalInv
<1>18. JournalInv(c)'
  BY <1>11, <1>12, <1>13, <1>16, <1>17 DEF JournalInv
<1>19. TextAt(c, Len(journal[c]))' = Splice(TextAt(c, Len(journal[c])), h.start, h.end, h.new)
  <2>1. Len(journal[c])' = n + 1
    BY <1>11, <1>12
  <2> QED
    BY <1>2, <1>4, <1>6, <1>13, <2>1
<1>20. Len(journal'[c]) = Len(journal[c]) + 1
  BY <1>2, <1>11, <1>12
<1> QED
  BY <1>0, <1>18, <1>19, <1>20

\* No other step changes a journal.
LEMMA StepKeepsJournal ==
    ASSUME TypeInv, NEW c \in Commands, JournalInv(c), Execute(c)
    PROVE  JournalInv(c)'
<1>1. /\ pc \in [Commands -> {"idle", "locating", "done"} \cup Applying]
      /\ live \in [Commands -> Seq(Words)] /\ undone \in [Commands -> Nat]
  BY DEF TypeInv, ExecType
<1>2. CASE WriteHunk(c) /\ journal' # journal
  BY <1>2, WriteHunkKeepsJournal
<1>3. CASE ~(WriteHunk(c) /\ journal' # journal)
  <2>1. UNCHANGED journal
    BY <1>3 DEF Execute, Begin, Locate, ReadForHunk, Confirm, GiveUp, PreRollbackCheck,
                UndoRead, UndoWrite, Verify
  <2>2. ChainInv(c)' /\ \A k : TextAt(c, k)' = TextAt(c, k)
    BY <2>1, ChainKept DEF JournalInv
  <2>3. CASE Locate(c)
    <3>1. pc[c] = "locating" /\ journal[c] = << >> /\ undone[c] = 0 /\ undone' = undone
      BY <2>3 DEF Locate, JournalInv
    <3>2. \/ pc'[c] = "done"
          \/ pc'[c] = "reading" /\ live'[c] = Base
      <4>1. \/ Finish(c, "FAILED") \/ Finish(c, "STALE_REJECTED")
            \/ \E i \in DOMAIN doc : doc[i].text = Base /\ Goto(c, "reading")
                                        /\ live' = [live EXCEPT ![c] = doc[i].text]
        BY <2>3 DEF Locate
      <4> QED
        BY <1>1, <4>1 DEF Finish, Goto
    <3>3. TextAt(c, Len(journal[c])) = Base
      BY <3>1 DEF TextAt
    <3> QED
      BY <2>1, <2>2, <3>1, <3>2, <3>3 DEF JournalInv, Applying
  <2>4. CASE Begin(c)
    <3>1. pc[c] = "idle" /\ pc'[c] = "locating" /\ UNCHANGED <<live, undone>>
      BY <1>1, <2>4 DEF Begin, Goto
    <3> QED
      BY <2>1, <2>2, <3>1 DEF JournalInv, Applying
  <2>5. CASE ~Locate(c) /\ ~Begin(c)
    <3>1. UNCHANGED live
      <4>1. WriteHunk(c) => UNCHANGED live
        <5>1. ASSUME WriteHunk(c), Record(c, Sorted(c)[step[c] + 1],
                        Splice(live[c], Sorted(c)[step[c] + 1].start, Sorted(c)[step[c] + 1].end,
                               Sorted(c)[step[c] + 1].new))
              PROVE  FALSE
          <6>1. PICK e : journal' = [journal EXCEPT ![c] = Append(@, e)]
            BY <5>1 DEF Record
          <6>2. /\ journal \in [Commands -> Seq([hunk: UNION {Hunks[d] : d \in Commands},
                                                 text: Seq(Words)])]
            BY DEF TypeInv, ExecType
          <6>3. Append(journal[c], e) = journal[c]
            BY <2>1, <6>1, <6>2
          <6>4. PICK E : e \in E /\ journal[c] \in Seq(E)
            <7>1. PICK D : D = [hunk: UNION {Hunks[d] : d \in Commands}, text: Seq(Words)]
              OBVIOUS
            <7>2. journal[c] \in Seq(D \cup {e})
              BY <7>1, CommandIs, SeqMonotonic
            <7> QED
              BY <7>2
          <6> QED
            BY <6>3, <6>4, AppendProperties
        <5> QED
          BY <5>1 DEF WriteHunk
      <4> QED
        BY <2>5, <4>1 DEF Execute, ReadForHunk, Confirm, GiveUp, PreRollbackCheck, UndoRead,
                          UndoWrite, Verify
    <3>2. /\ pc[c] \in Applying
          /\ pc'[c] \notin {"idle", "locating"}
      <4>1. PICK place \in {"done"} \cup Applying : Goto(c, place)
        <5>1. Recover(c) => \E place \in {"done"} \cup Applying : Goto(c, place)
          BY DEF Recover, Applying
        <5>2. ReadForHunk(c) \/ UndoRead(c) => \E place \in {"done"} \cup Applying : Goto(c, place)
          BY <5>1 DEF ReadForHunk, UndoRead, StopUndo, Applying
        <5>3. WriteHunk(c) \/ UndoWrite(c) => \E place \in {"done"} \cup Applying : Goto(c, place)
          BY <5>1 DEF WriteHunk, UndoWrite, StopUndo, Applying
        <5>4. Confirm(c) \/ GiveUp(c) => \E place \in {"done"} \cup Applying : Goto(c, place)
          BY <5>1 DEF Confirm, GiveUp, Finish
        <5>5. PreRollbackCheck(c) \/ Verify(c) =>
                 \E place \in {"done"} \cup Applying : Goto(c, place)
          BY DEF PreRollbackCheck, Verify, Finish, Applying
        <5> QED
          BY <2>5, <5>2, <5>3, <5>4, <5>5 DEF Execute
      <4>2. pc'[c] \notin {"idle", "locating"}
        BY <1>1, <4>1 DEF Goto, Applying
      <4>3. pc[c] \in Applying
        BY <2>5 DEF Execute, ReadForHunk, WriteHunk, Confirm, GiveUp, PreRollbackCheck, UndoRead,
                    UndoWrite, Verify, Applying
      <4> QED
        BY <4>2, <4>3
    <3>3. undone'[c] # 0 => pc'[c] \in {"undo reading", "undo writing", "verifying", "done"}
      <4>1. CASE UndoWrite(c)
        BY <1>1, <4>1 DEF UndoWrite, Goto, StopUndo
      <4>2. CASE UndoRead(c) \/ Verify(c)
        BY <1>1, <4>2 DEF UndoRead, Verify, Goto, StopUndo, Finish
      <4>3. CASE PreRollbackCheck(c) \/ GiveUp(c)
        BY <1>1, <4>3 DEF PreRollbackCheck, GiveUp, Goto, Finish
      <4>4. CASE ReadForHunk(c) \/ WriteHunk(c) \/ Confirm(c)
        <5>1. pc[c] \in {"reading", "writing"} /\ undone' = undone
          BY <4>4 DEF ReadForHunk, WriteHunk, Confirm
        <5> QED
          BY <5>1 DEF JournalInv
      <4> QED
        BY <2>5, <4>1, <4>2, <4>3, <4>4 DEF Execute
    <3> QED
      BY <2>1, <2>2, <3>1, <3>2, <3>3 DEF JournalInv
  <2> QED
    BY <2>3, <2>4, <2>5
<1> QED
  BY <1>2, <1>3
\* The paragraph of an undisturbed command is the only one.
LEMMA OnlyOne ==
    ASSUME TypeInv, NEW c \in Commands, Undisturbed(c)
    PROVE  /\ DOMAIN doc = {1} /\ doc[1].id = Target /\ TargetNow = 1
           /\ pc[c] \in Applying => index[c] = 1 /\ TargetText(c) = doc[1].text
<1>1. Len(doc) = 1 /\ DOMAIN doc = {1}
  BY DomainIs DEF Undisturbed
<1>2. doc[1].id \in 0 .. MaxParagraphs /\ doc[1].id < 1
  <2>1. 1 \in DOMAIN doc
    BY <1>1
  <2>2. doc[1].id < Len(doc)
    BY <2>1 DEF TypeInv, DocType
  <2> QED
    BY <1>1, <2>1, <2>2, ParagraphIs DEF TypeInv
<1>3. doc[1].id = Target
  BY <1>2 DEF Target
<1>4. TargetNow = 1
  BY <1>1, <1>3 DEF TargetNow
<1>5. pc[c] \in Applying => index[c] = 1
  BY <1>1, TargetIs
<1> QED
  BY <1>1, <1>3, <1>4, <1>5 DEF TargetText

\* An undisturbed command that is not touched by a step.
LEMMA OthersKeepQuiet ==
    ASSUME TypeInv, NEW c \in Commands, NEW d \in Commands, d # c, Execute(d),
           JournalInv(c), QuietInv(c)
    PROVE  JournalInv(c)' /\ QuietInv(c)'
<1>1. /\ pc'[c] = pc[c] /\ seen'[c] = seen[c] /\ live'[c] = live[c]
      /\ journal'[c] = journal[c] /\ undone'[c] = undone[c]
      /\ undoFailed'[c] = undoFailed[c] /\ result'[c] = result[c]
  BY OthersFrame
<1>2. ChainInv(c)' /\ \A k : TextAt(c, k)' = TextAt(c, k)
  BY <1>1, ChainKept DEF JournalInv
<1>3. JournalInv(c)'
  BY <1>1, <1>2 DEF JournalInv
<1>4. QuietInv(c)'
  <2>1. SUFFICES ASSUME Undisturbed(c)' PROVE QuietInv(c)'
    BY DEF QuietInv
  <2>2. Undisturbed(c) /\ UNCHANGED doc
    BY <2>1, StaysDisturbed
  <2>3. hostErrors \in Nat /\ hostErrors' \in Nat /\ hostErrors <= hostErrors'
    BY WorldStep, CommandIs
  <2>4. Now(c)' = Now(c)
    BY <1>1, <1>2 DEF Now
  <2>5. OutcomeInv(c)'
    <3>1. hostErrors' <= 1 => hostErrors <= 1
      BY <2>3
    <3>2. hostErrors' = 0 => hostErrors = 0
      BY <2>3
    <3> QED
      BY <1>1, <2>2, <3>1, <3>2 DEF QuietInv, OutcomeInv
  <2>6. hostErrors >= 1 => hostErrors' >= 1
    BY <2>3
  <2> QED
    BY <1>1, <2>2, <2>4, <2>5, <2>6 DEF QuietInv
<1> QED
  BY <1>3, <1>4

\* Where a command goes.
LEMMA PlaceIs ==
    ASSUME TypeInv, NEW c \in Commands
    PROVE  /\ \A place : Goto(c, place) => pc'[c] = place
           /\ \A status : Finish(c, status) => pc'[c] = "done" /\ result'[c] = status
           /\ Recover(c) => \/ pc'[c] = "giving up" /\ journal[c] = << >>
                            \/ pc'[c] = "checking" /\ journal[c] # << >>
           /\ StopUndo(c) => pc'[c] = "verifying"
           /\ HostError => hostErrors' = hostErrors + 1
           /\ hostErrors \in Nat
<1>1. pc \in [Commands -> {"idle", "locating", "done"} \cup Applying]
  BY DEF TypeInv, ExecType
<1>2. result \in [Commands -> Statuses \cup {"none"}]
  BY DEF TypeInv, ExecType
<1>3. \A place : Goto(c, place) => pc'[c] = place
  BY <1>1 DEF Goto
<1>4. \A status : Finish(c, status) => pc'[c] = "done" /\ result'[c] = status
  BY <1>2, <1>3 DEF Finish
<1>5. Recover(c) => \/ pc'[c] = "giving up" /\ journal[c] = << >>
                    \/ pc'[c] = "checking" /\ journal[c] # << >>
  BY <1>3 DEF Recover
<1>6. StopUndo(c) => pc'[c] = "verifying"
  BY <1>3 DEF StopUndo
<1>7. HostError => hostErrors' = hostErrors + 1
  BY DEF HostError
<1>8. hostErrors \in Nat
  BY CommandIs
<1> QED
  BY <1>3, <1>4, <1>5, <1>6, <1>7, <1>8

\* A step of an undisturbed command that writes nothing.
LEMMA QuietStep ==
    ASSUME TypeInv, NEW c \in Commands, JournalInv(c), QuietInv(c), Undisturbed(c),
           UNCHANGED <<doc, journal, undone>>,
           pc'[c] \in MidCall => seen'[c] = Now(c),
           pc'[c] = "giving up" => journal[c] = << >>,
           pc'[c] = "checking" => journal[c] # << >>,
           pc'[c] \in Recovering => hostErrors' >= 1,
           hostErrors' <= 1 =>
              /\ pc'[c] # "verifying" /\ ~undoFailed'[c]
              /\ pc'[c] = "done" =>
                    /\ doc[1].text = (IF result'[c] = "SUCCESS" THEN Expected(c) ELSE Base)
                    /\ hostErrors' = 0 => result'[c] = "SUCCESS"
    PROVE  QuietInv(c)'
<1>1. \A k : TextAt(c, k)' = TextAt(c, k)
  BY DEF TextAt
<1>2. Now(c)' = Now(c)
  BY <1>1 DEF Now
<1>3. doc'[1].text = Now(c)
  BY DEF QuietInv
<1>4. OutcomeInv(c)'
  BY DEF OutcomeInv
<1> QED
  BY <1>2, <1>3, <1>4 DEF QuietInv

\* What an undisturbed command that has yet to undo anything sees.
LEMMA QuietIs ==
    ASSUME TypeInv, NEW c \in Commands, JournalInv(c), QuietInv(c), Undisturbed(c)
    PROVE  /\ doc[1].text = Now(c) /\ OutcomeInv(c)
           /\ pc[c] \in Applying => TargetText(c) = Now(c) /\ index[c] = 1
           /\ pc[c] \notin {"undo reading", "undo writing", "verifying", "done"} =>
                 undone[c] = 0 /\ Now(c) = TextAt(c, step[c])
           /\ \A k \in 0 .. Len(journal[c]) : Stage(c, k, TextAt(c, k))
           /\ pc[c] \in Recovering => hostErrors >= 1
<1>1. doc[1].text = Now(c) /\ OutcomeInv(c) /\ (pc[c] \in Recovering => hostErrors >= 1)
  BY DEF QuietInv
<1>2. pc[c] \in Applying => TargetText(c) = Now(c) /\ index[c] = 1
  BY <1>1, OnlyOne
<1>3. PICK n \in Nat : n = Len(journal[c]) /\ n = step[c] /\ n - 0 = n
  BY CountsAre
<1>4. ASSUME pc[c] \notin {"undo reading", "undo writing", "verifying", "done"}
      PROVE  undone[c] = 0 /\ Now(c) = TextAt(c, step[c])
  <2>1. undone[c] = 0
    BY <1>4 DEF JournalInv
  <2> QED
    BY <1>3, <2>1 DEF Now
<1>5. \A k \in 0 .. Len(journal[c]) : Stage(c, k, TextAt(c, k))
  BY DEF JournalInv, ChainInv
<1> QED
  BY <1>1, <1>2, <1>4, <1>5

LEMMA BeginIsQuiet ==
    ASSUME TypeInv, NEW c \in Commands, JournalInv(c), QuietInv(c), Undisturbed(c), Begin(c)
    PROVE  QuietInv(c)'
<1>1. pc'[c] = "locating" /\ UNCHANGED <<doc, journal, undone, undoFailed, hostErrors>>
  BY PlaceIs DEF Begin
<1>2. hostErrors <= 1 => ~undoFailed[c]
  BY QuietIs DEF OutcomeInv
<1> QED
  BY <1>1, <1>2, QuietStep DEF MidCall, Recovering

\* The lookup finds the paragraph, and it is the one the hunks fit.
LEMMA LocateIsQuiet ==
    ASSUME TypeInv, NEW c \in Commands, JournalInv(c), QuietInv(c), Undisturbed(c), Locate(c)
    PROVE  QuietInv(c)'
<1>1. pc[c] = "locating" /\ UNCHANGED <<doc, journal, undone, undoFailed>>
  BY DEF Locate
<1>2. journal[c] = << >> /\ undone[c] = 0
  BY <1>1 DEF JournalInv
<1>3. doc[1].text = Base
  <2>1. Len(journal[c]) = 0 /\ 0 - 0 = 0
    BY <1>2
  <2> QED
    BY <1>2, <2>1, QuietIs DEF Now, TextAt
<1>4. hostErrors <= 1 => ~undoFailed[c]
  BY QuietIs DEF OutcomeInv
<1>5. {i \in DOMAIN doc : doc[i].text = Base} = {1}
  BY <1>3, OnlyOne
<1>6. Cardinality({i \in DOMAIN doc : doc[i].text = Base}) = 1
  BY <1>5, FS_Singleton
<1>7. Valid(Base, Hunks[c])
  BY HunksAssumption
<1>8. \/ pc'[c] = "reading" /\ UNCHANGED hostErrors
      \/ pc'[c] = "done" /\ result'[c] = "FAILED" /\ hostErrors' = hostErrors + 1
  BY <1>3, <1>5, <1>6, <1>7, PlaceIs DEF Locate
<1>9. CASE pc'[c] = "reading" /\ UNCHANGED hostErrors
  BY <1>1, <1>4, <1>9, QuietStep DEF MidCall, Recovering
<1>10. CASE pc'[c] = "done" /\ result'[c] = "FAILED" /\ hostErrors' = hostErrors + 1
  <2>1. hostErrors' # 0 /\ (hostErrors' <= 1 => ~undoFailed[c])
    <3>1. hostErrors \in Nat
      BY CommandIs
    <3> QED
      BY <1>4, <1>10, <3>1
  <2> QED
    BY <1>1, <1>3, <1>10, <2>1, QuietStep DEF MidCall, Recovering
<1> QED
  BY <1>8, <1>9, <1>10

\* The next hunk finds its old words.
LEMMA ReadForHunkIsQuiet ==
    ASSUME TypeInv, NEW c \in Commands, JournalInv(c), QuietInv(c), Undisturbed(c), ReadForHunk(c)
    PROVE  QuietInv(c)'
<1>1. /\ pc[c] = "reading" /\ UNCHANGED <<doc, journal, undone, undoFailed>>
      /\ step[c] < Cardinality(Hunks[c])
  BY DEF ReadForHunk
<1>2. TargetText(c) = Now(c) /\ Now(c) = TextAt(c, step[c])
  BY <1>1, QuietIs DEF Applying
<1>3. PICK k \in Nat : k = step[c] /\ k = Len(journal[c]) /\ k \in 0 .. Cardinality(Hunks[c]) - 1
  <2>1. step[c] = Len(journal[c]) /\ step[c] \in Nat /\ Cardinality(Hunks[c]) \in Nat
    BY CountsAre, HunkTypes
  <2> QED
    BY <1>1, <2>1
<1>4. Stage(c, k, Now(c))
  <2>1. k \in 0 .. Len(journal[c])
    BY <1>3
  <2> QED
    BY <1>2, <1>3, <2>1, QuietIs
<1>5. SliceMatches(Now(c), Sorted(c)[k + 1])
  BY <1>3, <1>4, StageNext
<1>6. hostErrors <= 1 => ~undoFailed[c]
  BY QuietIs DEF OutcomeInv
<1>7. \/ /\ seen' = [seen EXCEPT ![c] = TargetText(c)]
         /\ Goto(c, "writing") /\ UNCHANGED hostErrors
      \/ HostError /\ Recover(c)
  BY <1>2, <1>3, <1>5 DEF ReadForHunk
<1>8. CASE /\ seen' = [seen EXCEPT ![c] = TargetText(c)]
           /\ Goto(c, "writing") /\ UNCHANGED hostErrors
  <2>1. pc'[c] = "writing"
    BY <1>8, PlaceIs
  <2>2. seen'[c] = Now(c)
    BY <1>2, <1>8 DEF TypeInv, ExecType
  <2> QED
    BY <1>1, <1>6, <1>8, <2>1, <2>2, QuietStep DEF MidCall, Recovering
<1>9. CASE HostError /\ Recover(c)
  <2>1. \/ pc'[c] = "giving up" /\ journal[c] = << >>
        \/ pc'[c] = "checking" /\ journal[c] # << >>
    BY <1>9, PlaceIs
  <2>2. hostErrors' >= 1 /\ (hostErrors' <= 1 => ~undoFailed[c])
    <3>1. hostErrors' = hostErrors + 1 /\ hostErrors \in Nat
      BY <1>9, PlaceIs
    <3> QED
      BY <1>6, <3>1
  <2> QED
    BY <1>1, <2>1, <2>2, QuietStep DEF MidCall, Recovering
<1> QED
  BY <1>7, <1>8, <1>9

\* A write of an undisturbed command, on a sub-range or on the text it has loaded,
\* acts on the text that is there.
LEMMA QuietWrite ==
    ASSUME TypeInv, NEW c \in Commands, QuietInv(c), Undisturbed(c), pc[c] \in MidCall,
           Write(c, Underway(c))
    PROVE  LET h == Underway(c)
           IN  doc'[1].text = Splice(Now(c), h.start, h.end, h.new)
<1>1. PICK h : h = Underway(c)
  OBVIOUS
<1>2. h.start \in Nat /\ h.end \in Nat /\ h.new \in Seq(Words)
  BY <1>1, UnderwayIs
<1>3. index[c] \in DOMAIN doc /\ index[c] = 1 /\ TargetText(c) = doc[1].text
  BY TargetIs, OnlyOne DEF MidCall, Applying
<1>4. doc[1].text = Now(c) /\ seen[c] = Now(c)
  BY DEF QuietInv
<1>5. doc'[index[c]].text =
         Splice(IF RangeSubstring THEN TargetText(c) ELSE seen[c], h.start, h.end, h.new)
  BY <1>1, <1>2, <1>3, WriteDoes DEF TypeInv
<1> QED
  BY <1>1, <1>3, <1>4, <1>5

LEMMA WriteHunkIsQuiet ==
    ASSUME TypeInv, NEW c \in Commands, JournalInv(c), QuietInv(c), Undisturbed(c), WriteHunk(c)
    PROVE  QuietInv(c)'
<1>1. pc[c] = "writing" /\ UNCHANGED <<undone, undoFailed>>
  BY DEF WriteHunk
<1>2. hostErrors <= 1 => ~undoFailed[c]
  BY QuietIs DEF OutcomeInv
<1>3. PICK h : h = Underway(c) /\ h = Sorted(c)[step[c] + 1]
  BY <1>1 DEF Underway
<1>4. CASE /\ Write(c, h) /\ Record(c, h, Splice(live[c], h.start, h.end, h.new))
           /\ Goto(c, "reading") /\ UNCHANGED hostErrors
  <2>1. undone[c] = 0 /\ undone'[c] = 0 /\ Now(c) = TextAt(c, step[c])
    BY <1>1, QuietIs
  <2>2. PICK n \in Nat : n = Len(journal[c]) /\ n = step[c] /\ n + 1 # n /\ (n + 1) - 0 = n + 1
    BY CountsAre
  <2>3. journal'[c] = Append(journal[c], [hunk |-> h, text |-> Splice(live[c], h.start, h.end, h.new)])
    BY <1>4 DEF Record, TypeInv, ExecType
  <2>4. journal'[c] # journal[c]
    <3>1. PICK e : journal'[c] = Append(journal[c], e)
      BY <2>3
    <3>2. PICK E : journal[c] \in Seq(E) /\ e \in E
      <4>1. PICK D : journal[c] \in Seq(D)
        BY CommandIs
      <4>2. journal[c] \in Seq(D \cup {e})
        BY <4>1, SeqMonotonic
      <4> QED
        BY <4>2
    <3>3. Len(journal'[c]) = Len(journal[c]) + 1
      BY <3>1, <3>2, AppendProperties
    <3> QED
      BY <2>2, <3>3
  <2>5. /\ Len(journal'[c]) = Len(journal[c]) + 1
        /\ TextAt(c, Len(journal[c]))' = Splice(TextAt(c, Len(journal[c])), h.start, h.end, h.new)
    BY <1>3, <2>4, WriteHunkKeepsJournal
  <2>6. Now(c)' = TextAt(c, Len(journal[c]))'
    BY <2>1, <2>2, <2>5 DEF Now
  <2>7. doc'[1].text = Splice(Now(c), h.start, h.end, h.new)
    BY <1>1, <1>3, <1>4, QuietWrite DEF MidCall
  <2>8. doc'[1].text = Now(c)'
    BY <2>1, <2>2, <2>5, <2>6, <2>7
  <2>9. pc'[c] = "reading"
    BY <1>4, PlaceIs
  <2>10. OutcomeInv(c)'
    BY <1>1, <1>2, <1>4, <2>9 DEF OutcomeInv
  <2> QED
    BY <2>8, <2>9, <2>10 DEF QuietInv, MidCall, Recovering
<1>5. CASE HostError /\ Recover(c) /\ UNCHANGED <<doc, live, journal, step, touched>>
  <2>1. \/ pc'[c] = "giving up" /\ journal[c] = << >>
        \/ pc'[c] = "checking" /\ journal[c] # << >>
    BY <1>5, PlaceIs
  <2>2. hostErrors' >= 1 /\ (hostErrors' <= 1 => ~undoFailed[c])
    <3>1. hostErrors' = hostErrors + 1 /\ hostErrors \in Nat
      BY <1>5, PlaceIs
    <3> QED
      BY <1>2, <3>1
  <2> QED
    BY <1>1, <1>5, <2>1, <2>2, QuietStep DEF MidCall, Recovering
<1> QED
  BY <1>3, <1>4, <1>5 DEF WriteHunk

\* The text that is read back is the text expected.
LEMMA ConfirmIsQuiet ==
    ASSUME TypeInv, NEW c \in Commands, JournalInv(c), QuietInv(c), Undisturbed(c), Confirm(c)
    PROVE  QuietInv(c)'
<1>1. /\ pc[c] = "reading" /\ UNCHANGED <<doc, journal, undone, undoFailed>>
      /\ step[c] = Cardinality(Hunks[c])
  BY DEF Confirm
<1>2. TargetText(c) = Now(c) /\ Now(c) = TextAt(c, step[c]) /\ doc[1].text = Now(c)
  BY <1>1, QuietIs DEF Applying
<1>3. Now(c) = Expected(c)
  <2>1. step[c] \in 0 .. Len(journal[c])
    BY CountsAre
  <2>2. Stage(c, Cardinality(Hunks[c]), Now(c))
    BY <1>1, <1>2, <2>1, QuietIs
  <2> QED
    BY <2>2, StageLast
<1>4. hostErrors <= 1 => ~undoFailed[c]
  BY QuietIs DEF OutcomeInv
<1>5. CASE Finish(c, IF Confirmed(TargetText(c), c) THEN "SUCCESS" ELSE "FAILED")
              /\ UNCHANGED hostErrors
  <2>1. Confirmed(TargetText(c), c)
    BY <1>2, <1>3 DEF Confirmed
  <2>2. pc'[c] = "done" /\ result'[c] = "SUCCESS"
    BY <1>5, <2>1, PlaceIs
  <2> QED
    BY <1>1, <1>2, <1>3, <1>4, <1>5, <2>2, QuietStep DEF MidCall, Recovering
<1>6. CASE HostError /\ Recover(c)
  <2>1. \/ pc'[c] = "giving up" /\ journal[c] = << >>
        \/ pc'[c] = "checking" /\ journal[c] # << >>
    BY <1>6, PlaceIs
  <2>2. hostErrors' >= 1 /\ (hostErrors' <= 1 => ~undoFailed[c])
    <3>1. hostErrors' = hostErrors + 1 /\ hostErrors \in Nat
      BY <1>6, PlaceIs
    <3> QED
      BY <1>4, <3>1
  <2> QED
    BY <1>1, <2>1, <2>2, QuietStep DEF MidCall, Recovering
<1> QED
  BY <1>5, <1>6 DEF Confirm

\* Nothing was written: the paragraph is as it was.
LEMMA GiveUpIsQuiet ==
    ASSUME TypeInv, NEW c \in Commands, JournalInv(c), QuietInv(c), Undisturbed(c), GiveUp(c)
    PROVE  QuietInv(c)'
<1>1. pc[c] = "giving up" /\ UNCHANGED <<doc, journal, undone, undoFailed>> /\ Finish(c, "FAILED")
  BY DEF GiveUp
<1>2. journal[c] = << >> /\ hostErrors >= 1
  BY <1>1 DEF QuietInv, Recovering
<1>3. doc[1].text = Base
  <2>1. step[c] = 0
    BY <1>2, CountsAre
  <2> QED
    BY <1>1, <2>1, QuietIs DEF TextAt
<1>4. hostErrors' >= 1 /\ (hostErrors' <= 1 => ~undoFailed[c])
  <2>1. hostErrors' \in Nat /\ hostErrors <= hostErrors'
    BY WorldStep DEF Execute
  <2>2. hostErrors <= 1 => ~undoFailed[c]
    BY QuietIs DEF OutcomeInv
  <2>3. hostErrors \in Nat
    BY CommandIs
  <2> QED
    BY <1>2, <2>1, <2>2, <2>3
<1>5. pc'[c] = "done" /\ result'[c] = "FAILED"
  BY <1>1, PlaceIs
<1>6. hostErrors' # 0
  BY <1>4
<1> QED
  BY <1>1, <1>3, <1>4, <1>5, <1>6, QuietStep DEF MidCall, Recovering

\* The document has the last text of the journal, unless a second sync is rejected.
LEMMA PreRollbackCheckIsQuiet ==
    ASSUME TypeInv, NEW c \in Commands, JournalInv(c), QuietInv(c), Undisturbed(c),
           PreRollbackCheck(c)
    PROVE  QuietInv(c)'
<1>1. pc[c] = "checking" /\ UNCHANGED <<doc, journal, undone, undoFailed>>
  BY DEF PreRollbackCheck
<1>2. journal[c] # << >> /\ hostErrors >= 1 /\ hostErrors \in Nat
  BY <1>1, CommandIs DEF QuietInv, Recovering
<1>3. TargetText(c) = Now(c) /\ Now(c) = TextAt(c, step[c])
  BY <1>1, QuietIs DEF Applying
<1>4. Intact(TargetText(c), c)
  <2>1. step[c] = Len(journal[c]) /\ step[c] # 0
    BY <1>2, CountsAre, EmptySeq, CommandIs
  <2>2. TextAt(c, step[c]) = journal[c][Len(journal[c])].text
    BY <2>1 DEF TextAt
  <2> QED
    BY <1>3, <2>2 DEF Intact, LatestIntermediate, Last
<1>5. hostErrors <= 1 => ~undoFailed[c]
  BY QuietIs DEF OutcomeInv
<1>6. \/ Goto(c, "undo reading") /\ UNCHANGED hostErrors
      \/ HostError /\ (Goto(c, "undo reading") \/ Finish(c, "ROLLBACK_ABORTED"))
  BY <1>4 DEF PreRollbackCheck
<1>7. CASE Goto(c, "undo reading") /\ UNCHANGED hostErrors
  <2>1. pc'[c] = "undo reading"
    BY <1>7, PlaceIs
  <2> QED
    BY <1>1, <1>2, <1>5, <1>7, <2>1, QuietStep DEF MidCall, Recovering
<1>8. CASE HostError /\ (Goto(c, "undo reading") \/ Finish(c, "ROLLBACK_ABORTED"))
  <2>1. pc'[c] \in {"undo reading", "done"}
    BY <1>8, PlaceIs
  <2>2. hostErrors' >= 1 /\ ~(hostErrors' <= 1)
    <3>1. hostErrors' = hostErrors + 1
      BY <1>8, PlaceIs
    <3> QED
      BY <1>2, <3>1
  <2> QED
    BY <1>1, <2>1, <2>2, QuietStep DEF MidCall, Recovering
<1> QED
  BY <1>6, <1>7, <1>8

\* The rollback finds the words it is to take back, unless a second sync is rejected.
LEMMA UndoReadIsQuiet ==
    ASSUME TypeInv, NEW c \in Commands, JournalInv(c), QuietInv(c), Undisturbed(c), UndoRead(c)
    PROVE  QuietInv(c)'
<1>1. /\ pc[c] = "undo reading" /\ UNCHANGED <<doc, journal, undone>>
      /\ undone[c] < Len(journal[c])
  BY DEF UndoRead
<1>2. TargetText(c) = Now(c) /\ hostErrors >= 1 /\ hostErrors \in Nat
  BY <1>1, QuietIs, CommandIs DEF Applying, Recovering
<1>3. SliceMatches(Now(c), RollbackActions(c)[undone[c] + 1])
  BY <1>1, UndoIs DEF JournalInv
<1>4. hostErrors <= 1 => ~undoFailed[c]
  BY QuietIs DEF OutcomeInv
<1>5. \/ /\ seen' = [seen EXCEPT ![c] = TargetText(c)]
         /\ Goto(c, "undo writing") /\ UNCHANGED <<undoFailed, hostErrors>>
      \/ HostError /\ StopUndo(c)
  BY <1>2, <1>3 DEF UndoRead
<1>6. CASE /\ seen' = [seen EXCEPT ![c] = TargetText(c)]
           /\ Goto(c, "undo writing") /\ UNCHANGED <<undoFailed, hostErrors>>
  <2>1. pc'[c] = "undo writing"
    BY <1>6, PlaceIs
  <2>2. seen'[c] = Now(c)
    BY <1>2, <1>6 DEF TypeInv, ExecType
  <2> QED
    BY <1>1, <1>2, <1>4, <1>6, <2>1, <2>2, QuietStep DEF MidCall, Recovering
<1>7. CASE HostError /\ StopUndo(c)
  <2>1. pc'[c] = "verifying"
    BY <1>7, PlaceIs
  <2>2. hostErrors' >= 1 /\ ~(hostErrors' <= 1)
    <3>1. hostErrors' = hostErrors + 1
      BY <1>7, PlaceIs
    <3> QED
      BY <1>2, <3>1
  <2> QED
    BY <1>1, <2>1, <2>2, QuietStep DEF MidCall, Recovering
<1> QED
  BY <1>5, <1>6, <1>7

LEMMA UndoWriteIsQuiet ==
    ASSUME TypeInv, NEW c \in Commands, JournalInv(c), QuietInv(c), Undisturbed(c), UndoWrite(c)
    PROVE  QuietInv(c)'
<1>1. pc[c] = "undo writing" /\ UNCHANGED journal
  BY DEF UndoWrite
<1>2. hostErrors >= 1 /\ hostErrors \in Nat
  BY <1>1, QuietIs, CommandIs DEF Recovering
<1>3. hostErrors <= 1 => ~undoFailed[c]
  BY QuietIs DEF OutcomeInv
<1>4. PICK h : h = Underway(c) /\ h = RollbackActions(c)[undone[c] + 1]
  BY <1>1 DEF Underway
<1>5. CASE /\ Write(c, h) /\ undone' = [undone EXCEPT ![c] = @ + 1]
           /\ Goto(c, "undo reading") /\ UNCHANGED <<undoFailed, hostErrors>>
  <2>1. PICK n \in Nat, u \in Nat : n = Len(journal[c]) /\ u = undone[c]
    BY CountsAre
  <2>2. u < n
    BY <1>1, <2>1, CountsAre, CommandIs DEF CommandInv
  <2>3. undone'[c] = u + 1
    BY <1>5, <2>1 DEF TypeInv, ExecType
  <2>4. Splice(Now(c), h.start, h.end, h.new) = TextAt(c, n - (u + 1))
    BY <1>4, <2>1, <2>2, UndoIs DEF JournalInv
  <2>5. doc'[1].text = Splice(Now(c), h.start, h.end, h.new)
    BY <1>1, <1>4, <1>5, QuietWrite DEF MidCall
  <2>6. Now(c)' = TextAt(c, n - (u + 1))
    BY <1>1, <2>1, <2>3 DEF Now, TextAt
  <2>7. pc'[c] = "undo reading"
    BY <1>5, PlaceIs
  <2>8. OutcomeInv(c)'
    BY <1>3, <1>5, <2>7 DEF OutcomeInv
  <2>9. doc'[1].text = Now(c)' /\ hostErrors' >= 1
    BY <1>2, <1>5, <2>4, <2>5, <2>6
  <2> QED
    BY <2>7, <2>8, <2>9 DEF QuietInv, MidCall, Recovering
<1>6. CASE HostError /\ StopUndo(c) /\ UNCHANGED <<doc, undone, touched>>
  <2>1. pc'[c] = "verifying"
    BY <1>6, PlaceIs
  <2>2. hostErrors' >= 1 /\ ~(hostErrors' <= 1)
    <3>1. hostErrors' = hostErrors + 1
      BY <1>6, PlaceIs
    <3> QED
      BY <1>2, <3>1
  <2> QED
    BY <1>1, <1>6, <2>1, <2>2, QuietStep DEF MidCall, Recovering
<1> QED
  BY <1>4, <1>5, <1>6 DEF UndoWrite

\* With all actions played the paragraph is as it was.
LEMMA VerifyIsQuiet ==
    ASSUME TypeInv, NEW c \in Commands, JournalInv(c), QuietInv(c), Undisturbed(c), Verify(c)
    PROVE  QuietInv(c)'
<1>1. /\ pc[c] \in {"verifying", "undo reading"} /\ UNCHANGED <<doc, journal, undone, undoFailed>>
      /\ pc[c] # "verifying" => undone[c] = Len(journal[c])
  BY DEF Verify
<1>2. hostErrors >= 1 /\ hostErrors \in Nat
  BY <1>1, QuietIs, CommandIs DEF Recovering
<1>3. pc'[c] = "done" /\ result'[c] \in {"ROLLED_BACK", "FAILED"}
  BY PlaceIs DEF Verify
<1>4. hostErrors' \in Nat /\ hostErrors <= hostErrors'
  BY WorldStep DEF Execute
<1>5. hostErrors' >= 1 /\ hostErrors' # 0
  BY <1>2, <1>4
<1>6. hostErrors' <= 1 => ~undoFailed[c] /\ doc[1].text = Base
  <2>1. SUFFICES ASSUME hostErrors' <= 1 PROVE ~undoFailed[c] /\ doc[1].text = Base
    OBVIOUS
  <2>2. hostErrors <= 1
    BY <1>2, <1>4, <2>1
  <2>3. ~undoFailed[c] /\ pc[c] # "verifying"
    BY <2>2, QuietIs DEF OutcomeInv
  <2>4. Len(journal[c]) - undone[c] = 0
    <3>1. undone[c] = Len(journal[c]) /\ Len(journal[c]) \in Nat
      BY <1>1, <2>3, CountsAre
    <3> QED
      BY <3>1
  <2>5. doc[1].text = Now(c)
    BY QuietIs
  <2> QED
    BY <2>3, <2>4, <2>5 DEF Now, TextAt
<1> QED
  BY <1>1, <1>3, <1>5, <1>6, QuietStep DEF MidCall, Recovering

LEMMA ExecuteIsQuiet ==
    ASSUME TypeInv, NEW c \in Commands, JournalInv(c), QuietInv(c), Execute(c)
    PROVE  JournalInv(c)' /\ QuietInv(c)'
<1>1. JournalInv(c)'
  BY StepKeepsJournal
<1>2. QuietInv(c)'
  <2>1. SUFFICES ASSUME Undisturbed(c)' PROVE QuietInv(c)'
    BY DEF QuietInv
  <2>2. Undisturbed(c)
    BY <2>1, StaysDisturbed
  <2> QED
    BY <2>2, BeginIsQuiet, LocateIsQuiet, ReadForHunkIsQuiet, WriteHunkIsQuiet, ConfirmIsQuiet,
       GiveUpIsQuiet, PreRollbackCheckIsQuiet, UndoReadIsQuiet, UndoWriteIsQuiet, VerifyIsQuiet
       DEF Execute
<1> QED
  BY <1>1, <1>2

\* After a step of the user no command is undisturbed; the journals stay.
LEMMA UserDisturbs ==
    ASSUME TypeInv, NEW c \in Commands, JournalInv(c), User
    PROVE  JournalInv(c)' /\ QuietInv(c)'
<1>1. UNCHANGED execVars
  BY DEF User, UserTypes, UserDeletes, UserAddsParagraph
<1>2. JournalInv(c)'
  <2>1. pc' = pc /\ journal' = journal /\ live' = live /\ undone' = undone
    BY <1>1 DEF execVars
  <2>2. ChainInv(c)' /\ \A k : TextAt(c, k)' = TextAt(c, k)
    BY <2>1, ChainKept DEF JournalInv
  <2> QED
    BY <2>1, <2>2 DEF JournalInv
<1>3. ~Undisturbed(c)'
  <2>1. CASE \E w \in Typed : UserTypes(w)
    <3>1. typed' # {}
      BY <2>1 DEF UserTypes
    <3> QED
      BY <3>1 DEF Undisturbed
  <2>2. CASE UserDeletes
    <3>1. deletions \in Nat /\ deletions' = deletions + 1
      BY <2>2 DEF UserDeletes, TypeInv, WorldType
    <3>2. deletions' # 0
      BY <3>1
    <3> QED
      BY <3>2 DEF Undisturbed
  <2>3. CASE UserAddsParagraph
    <3>1. PICK p : doc' = << p >> \o doc
      BY <2>3 DEF UserAddsParagraph
    <3>2. doc \in Seq(Paragraphs) /\ Len(doc) \in 1 .. MaxParagraphs + 1
      BY DEF TypeInv, DocType
    <3>3. PICK E : doc \in Seq(E) /\ << p >> \in Seq(E)
      <4>1. doc \in Seq(Paragraphs \cup {p})
        BY <3>2, SeqMonotonic
      <4> QED
        BY <4>1
    <3>4. Len(doc') = 1 + Len(doc)
      <4>1. Len(<< p >> \o doc) = Len(<< p >>) + Len(doc) /\ Len(<< p >>) = 1
        BY <3>3, ConcatProperties
      <4> QED
        BY <3>1, <4>1
    <3>5. Len(doc') # 1
      BY <3>2, <3>4, BoundsAssumption
    <3> QED
      BY <3>5 DEF Undisturbed
  <2> QED
    BY <2>1, <2>2, <2>3 DEF User
<1> QED
  BY <1>2, <1>3 DEF QuietInv

\* The document, the journals and the outcome of every transaction stay what
\* TransactionInv says, whatever the hunks are and whatever else goes on.
THEOREM TransactionsInductive == Spec => []TransactionInv
<1>1. Init => TransactionInv
  <2>1. SUFFICES ASSUME Init PROVE TransactionInv
    OBVIOUS
  <2>2. ASSUME NEW c \in Commands
        PROVE  JournalInv(c) /\ QuietInv(c)
    <3>1. /\ pc[c] = "idle" /\ journal[c] = << >> /\ undone[c] = 0 /\ ~undoFailed[c]
          /\ doc[1].text = Base /\ Len(journal[c]) = 0 /\ 0 - 0 = 0
      BY <2>1 DEF Init
    <3>2. \A k \in 0 .. 0 : k = 0
      OBVIOUS
    <3>3. TextAt(c, 0) = Base /\ Stage(c, 0, Base)
      BY StageFirst DEF TextAt
    <3>4. ChainInv(c)
      BY <3>1, <3>2, <3>3 DEF ChainInv
    <3>5. JournalInv(c)
      BY <3>1, <3>4 DEF JournalInv, Applying
    <3>6. Now(c) = Base
      BY <3>1, <3>3 DEF Now
    <3>7. QuietInv(c)
      BY <3>1, <3>6 DEF QuietInv, OutcomeInv, MidCall, Recovering
    <3> QED
      BY <3>5, <3>7
  <2> QED
    BY <2>2 DEF TransactionInv
<1>2. TypeInv /\ TransactionInv /\ [Next]_vars => TransactionInv'
  <2>1. SUFFICES ASSUME TypeInv, TransactionInv, [Next]_vars PROVE TransactionInv'
    OBVIOUS
  <2>2. SUFFICES ASSUME NEW c \in Commands PROVE JournalInv(c)' /\ QuietInv(c)'
    BY DEF TransactionInv
  <2>3. JournalInv(c) /\ QuietInv(c)
    BY <2>1 DEF TransactionInv
  <2>4. ASSUME NEW d \in Commands, Execute(d)
        PROVE  JournalInv(c)' /\ QuietInv(c)'
    BY <2>1, <2>3, <2>4, ExecuteIsQuiet, OthersKeepQuiet
  <2>5. CASE User
    BY <2>1, <2>3, <2>5, UserDisturbs
  <2>6. CASE UNCHANGED vars
    <3>1. \A k : TextAt(c, k)' = TextAt(c, k)
      BY <2>6 DEF vars, execVars, TextAt
    <3>2. ChainInv(c)'
      BY <2>3, <2>6, ChainKept DEF vars, execVars, JournalInv
    <3>3. JournalInv(c)'
      BY <2>3, <2>6, <3>1, <3>2 DEF vars, execVars, JournalInv
    <3>4. Now(c)' = Now(c) /\ (Undisturbed(c)' <=> Undisturbed(c))
      BY <2>6, <3>1 DEF vars, execVars, worldVars, Now, Undisturbed
    <3>5. QuietInv(c)'
      BY <2>3, <2>6, <3>4 DEF vars, execVars, QuietInv, OutcomeInv
    <3> QED
      BY <3>3, <3>5
  <2> QED
    BY <2>1, <2>4, <2>5, <2>6 DEF Next
<1> QED
  BY <1>1, <1>2, TypesInductive, PTL DEF Spec

\* A transaction nobody disturbs succeeds when no sync is rejected, leaves the
\* suggested text or the paragraph as it was when one is, and its journal ends
\* with the text in the document (replacement_executor.ts, execute and
\* handleRollbackFlow): for any hunks of a diff, any number of commands and any
\* interleaving of their runner calls.
THEOREM TransactionsAreSound == Spec => []TransactionIsSound
<1>1. TypeInv /\ TransactionInv => TransactionIsSound
  <2>1. SUFFICES ASSUME TypeInv, TransactionInv PROVE TransactionIsSound
    OBVIOUS
  <2>2. ASSUME NEW c \in Commands, pc[c] = "done", Undisturbed(c), hostErrors <= 1
        PROVE  /\ doc[TargetNow].text = (IF result[c] = "SUCCESS" THEN Expected(c) ELSE Base)
               /\ hostErrors = 0 => result[c] = "SUCCESS"
    <3>1. TargetNow = 1
      BY <2>1, <2>2, OnlyOne
    <3>2. OutcomeInv(c)
      BY <2>1, <2>2 DEF TransactionInv, QuietInv
    <3> QED
      BY <2>2, <3>1, <3>2 DEF OutcomeInv
  <2>3. ASSUME NEW c \in Commands, Undisturbed(c), journal[c] # << >>, undone[c] = 0
        PROVE  LatestIntermediate(c) = doc[TargetNow].text
    <3>1. doc[TargetNow].text = Now(c)
      BY <2>1, <2>3, OnlyOne DEF TransactionInv, QuietInv
    <3>2. PICK n \in Nat : n = Len(journal[c]) /\ n - 0 = n
      BY <2>1, CountsAre
    <3>3. n # 0
      BY <2>1, <2>3, <3>2, CommandIs, EmptySeq
    <3>4. Now(c) = journal[c][Len(journal[c])].text
      BY <2>3, <3>2, <3>3 DEF Now, TextAt
    <3> QED
      BY <3>1, <3>4 DEF LatestIntermediate, Last
  <2>4. AllOrNothing
    BY <2>2 DEF AllOrNothing
  <2>5. JournalMatchesDocument
    BY <2>3 DEF JournalMatchesDocument
  <2>6. TypeOK
    BY <2>1, TypesMean
  <2> QED
    BY <2>4, <2>5, <2>6 DEF TransactionIsSound
<1> QED
  BY <1>1, TypesInductive, TransactionsInductive, PTL
=============================================================================
