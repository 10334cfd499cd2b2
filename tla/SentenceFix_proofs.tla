-------------------------- MODULE SentenceFix_proofs --------------------------
(***************************************************************************)
(* Proofs about SentenceFix and the diff engine under it, for any          *)
(* alphabet, any paragraphs and any cards.                                 *)
(*                                                                         *)
(* The search of the diff engine takes every diagonal at least as far as   *)
(* the table of common words allows, so the script found on the way back   *)
(* has as few edits as any: FewestWords.  The hunks built along the script *)
(* "make" the new text of the old one (Makes): in ascending order, apart,  *)
(* each on its own old text.  Trimming, lifting to the place of a card,    *)
(* concatenating and sorting keep that, so the hunks of a plan can be      *)
(* applied from the last to the first (Ready) and deliver the text that    *)
(* the cards, each at its one place, write: FixesAreExact.  Elements are   *)
(* flattened the same way: RichFollowsPlain.                               *)
(*                                                                         *)
(* The inductive invariants are Planned, Applying and Following.           *)
(***************************************************************************)
EXTENDS SentenceFix, FiniteSetTheorems, WellFoundedInduction, SequenceTheorems, TLAPS

----------------
(* Numbers: the facts the proofs use instead of induction. *)

\* Every set of numbers that is not empty has a least one.
LEMMA LeastNumber ==
    ASSUME NEW T, T \subseteq Nat, T # {}
    PROVE  \E x \in T : \A y \in T : x <= y
<1> DEFINE Below == {0 .. n : n \in T}
<1>1. Below \subseteq FiniteSubsetsOf(Nat) /\ Below # {}
  <2>1. \A n \in T : 0 .. n \subseteq Nat /\ IsFiniteSet(0 .. n)
    BY FS_Interval
  <2> QED
    BY <2>1 DEF FiniteSubsetsOf
<1>2. PICK least \in Below : \A y \in Below : ~(<<y, least>> \in StrictSubsetOrdering(Nat))
  BY <1>1, FS_StrictSubsetOrderingWellFounded, WFMin
<1>3. PICK x \in T : least = 0 .. x
  BY <1>2
<1>4. ASSUME NEW y \in T, ~(x <= y)
      PROVE  FALSE
  <2>1. 0 .. y \subseteq 0 .. x /\ x \in 0 .. x /\ x \notin 0 .. y
    BY <1>4
  <2>2. <<0 .. y, 0 .. x>> \in StrictSubsetOrdering(Nat)
    BY <2>1 DEF StrictSubsetOrdering
  <2> QED
    BY <1>2, <1>3, <1>4, <2>2
<1> QED
  BY <1>4

\* Where a finite set is ordered, how many elements come before one tells which it
\* is: every rank has one.
LEMMA RanksAreHit ==
    ASSUME NEW S, IsFiniteSet(S), NEW above \in [S -> SUBSET S],
           NEW k \in 1 .. Cardinality(S),
           \A x, y \in S : x = y \/ x \in above[y] \/ y \in above[x],
           \A x \in S : x \notin above[x],
           \A x, y \in S : y \in above[x] => above[y] \subseteq above[x]
    PROVE  \E x \in S : Cardinality(above[x]) = k - 1
<1>1. PICK n \in Nat : n = Cardinality(S)
  BY FS_CardinalityType
<1>2. ASSUME NEW x \in S
      PROVE  IsFiniteSet(above[x]) /\ Cardinality(above[x]) \in 0 .. n - 1
  <2>1. above[x] \subseteq S /\ above[x] # S
    OBVIOUS
  <2>2. /\ IsFiniteSet(above[x]) /\ Cardinality(above[x]) <= n
        /\ Cardinality(above[x]) # n
    BY <1>1, <2>1, FS_Subset
  <2>3. Cardinality(above[x]) \in Nat
    BY <2>2, FS_CardinalityType
  <2> QED
    BY <1>1, <2>2, <2>3
<1>3. ASSUME NEW x \in S, NEW y \in S, x \in above[y]
      PROVE  Cardinality(above[x]) # Cardinality(above[y])
  <2>1. above[x] \subseteq above[y] /\ above[x] # above[y]
    BY <1>3
  <2> QED
    BY <1>2, <2>1, FS_Subset
<1>4. PICK rank : rank = [x \in S |-> Cardinality(above[x])]
  OBVIOUS
<1>5. rank \in [S -> 0 .. n - 1] /\ \A x, y \in S : rank[x] = rank[y] => x = y
  BY <1>2, <1>3, <1>4
<1>6. rank \in Injection(S, 0 .. n - 1)
  BY <1>5 DEF Injection, IsInjective
<1>7. IsFiniteSet(0 .. n - 1) /\ Cardinality(0 .. n - 1) = n
  <2>1. 0 \in Int /\ n - 1 \in Int
    BY <1>1
  <2>2. /\ IsFiniteSet(0 .. n - 1)
        /\ Cardinality(0 .. n - 1) = IF 0 > n - 1 THEN 0 ELSE n - 1 - 0 + 1
    BY <2>1, FS_Interval
  <2> QED
    BY <1>1, <2>2
<1>8. rank \in Surjection(S, 0 .. n - 1)
  BY <1>1, <1>6, <1>7, FS_Injection
<1>9. PICK x \in S : rank[x] = k - 1
  BY <1>1, <1>8 DEF Surjection
<1> QED
  BY <1>4, <1>9

\* Induction over the numbers up to N, for the set of those a fact holds of.
LEMMA UpTo ==
    ASSUME NEW N \in Nat, NEW T, 0 \in T, \A n \in 1 .. N : n - 1 \in T => n \in T
    PROVE  \A n \in 0 .. N : n \in T
<1> DEFINE Bad == {n \in 0 .. N : n \notin T}
<1>1. CASE Bad = {}
  BY <1>1
<1>2. CASE Bad # {}
  <2>1. Bad \subseteq Nat
    OBVIOUS
  <2>2. PICK m \in Bad : \A y \in Bad : m <= y
    <3> HIDE DEF Bad
    <3> QED
      BY <1>2, <2>1, LeastNumber
  <2>3. m \in 1 .. N /\ m \notin T
    BY <2>2
  <2>4. m - 1 \notin Bad
    <3> HIDE DEF Bad
    <3> QED
      BY <2>1, <2>2, <2>3
  <2> QED
    BY <2>3, <2>4
<1> QED
  BY <1>1, <1>2

\* A recursion over the numbers up to N, each step a function on one set, has
\* a function that follows it.
LEMMA RecursionExists ==
    ASSUME NEW S, NEW b \in S, NEW N \in Nat, NEW step \in [1 .. N -> [S -> S]]
    PROVE  \E f \in [0 .. N -> S] : f[0] = b /\ \A n \in 1 .. N : f[n] = step[n][f[n - 1]]
<1> DEFINE Bad == {m \in 0 .. N : ~\E f \in [0 .. m -> S] :
                      f[0] = b /\ \A n \in 1 .. m : f[n] = step[n][f[n - 1]]}
<1>1. CASE Bad = {}
  <2>1. N \notin Bad
    <3> HIDE DEF Bad
    <3> QED
      BY <1>1
  <2> QED
    BY <2>1
<1>2. CASE Bad # {}
  <2>1. PICK m \in Bad : \A y \in Bad : m <= y
    <3>1. Bad \subseteq Nat
      OBVIOUS
    <3> HIDE DEF Bad
    <3> QED
      BY <1>2, <3>1, LeastNumber
  <2>2. m # 0
    <3>1. [x \in 0 .. 0 |-> b] \in [0 .. 0 -> S] /\ [x \in 0 .. 0 |-> b][0] = b
      OBVIOUS
    <3>2. \A n \in 1 .. 0 : FALSE
      OBVIOUS
    <3> QED
      BY <2>1, <3>1, <3>2
  <2>3. m - 1 \in 0 .. N /\ m - 1 \notin Bad /\ m \in 1 .. N
    <3>1. m \in 0 .. N
      BY <2>1
    <3>2. m - 1 \notin Bad
      <4> HIDE DEF Bad
      <4> QED
        BY <2>1, <3>1
    <3> QED
      BY <2>2, <3>1, <3>2
  <2>4. PICK f \in [0 .. m - 1 -> S] :
          f[0] = b /\ \A n \in 1 .. m - 1 : f[n] = step[n][f[n - 1]]
    BY <2>3
  <2> DEFINE g == [n \in 0 .. m |-> IF n = m THEN step[m][f[m - 1]] ELSE f[n]]
  <2>5. g \in [0 .. m -> S]
    BY <2>3, <2>4
  <2>6. g[0] = b
    BY <2>3, <2>4
  <2>7. ASSUME NEW n \in 1 .. m
        PROVE  g[n] = step[n][g[n - 1]]
    <3>1. n - 1 \in 0 .. m - 1 /\ n - 1 # m /\ g[n - 1] = f[n - 1]
      BY <2>3
    <3>2. CASE n = m
      BY <3>1, <3>2
    <3>3. CASE n # m
      BY <2>3, <2>4, <3>1, <3>3
    <3> QED
      BY <3>2, <3>3
  <2>8. m \notin Bad
    BY <2>5, <2>6, <2>7
  <2> QED
    BY <2>1, <2>8
<1> QED
  BY <1>1, <1>2

Recursion(S, b, N, step) ==
    CHOOSE f \in [0 .. N -> S] : f[0] = b /\ \A n \in 1 .. N : f[n] = step[n][f[n - 1]]

\* That function starts at the given value and takes each step.
LEMMA RecursionIs ==
    ASSUME NEW S, NEW b \in S, NEW N \in Nat, NEW step \in [1 .. N -> [S -> S]]
    PROVE  /\ Recursion(S, b, N, step) \in [0 .. N -> S]
           /\ Recursion(S, b, N, step)[0] = b
           /\ \A n \in 1 .. N : Recursion(S, b, N, step)[n] = step[n][Recursion(S, b, N, step)[n - 1]]
<1> DEFINE Follows(f) == f[0] = b /\ \A n \in 1 .. N : f[n] = step[n][f[n - 1]]
<1>1. \E f \in [0 .. N -> S] : Follows(f)
  BY RecursionExists
<1>2. Recursion(S, b, N, step) = CHOOSE f \in [0 .. N -> S] : Follows(f)
  BY DEF Recursion
<1>3. Recursion(S, b, N, step) \in [0 .. N -> S] /\ Follows(Recursion(S, b, N, step))
  <2> HIDE DEF Follows
  <2> QED
    BY <1>1, <1>2
<1> QED
  BY <1>3

----------------
\* Texts and their slices.  A set of sequences is kept folded where it is the
\* set of elements of other sequences: the provers get lost in Seq(Seq(C)).
Str(C) == Seq(C)

\* The empty text, and the letters and the length of every text.
LEMMA StrProperties ==
    ASSUME NEW C
    PROVE  /\ <<>> \in Str(C) /\ Len(<<>>) = 0
           /\ \A s \in Str(C) : Len(s) \in Nat /\ DOMAIN s = 1 .. Len(s) /\ (Len(s) = 0 <=> s = <<>>)
           /\ \A s \in Str(C) : \A i \in 1 .. Len(s) : s[i] \in C
  BY EmptySeq, LenProperties, ElementOfSeq DEF Str

\* Texts of one length with the same letters are the same.
LEMMA StrEqual ==
    ASSUME NEW C, NEW s \in Str(C), NEW t \in Str(C), Len(s) = Len(t),
           \A i \in 1 .. Len(s) : s[i] = t[i]
    PROVE  s = t
  BY SeqEqual DEF Str

\* Texts one behind another, in whatever order they are joined.
LEMMA StrConcat ==
    ASSUME NEW C
    PROVE  /\ \A s, t \in Str(C) : /\ s \o t \in Str(C)
                                   /\ Len(s \o t) = Len(s) + Len(t)
           /\ \A s \in Str(C) : s \o <<>> = s /\ <<>> \o s = s
           /\ \A s, t, u \in Str(C) : (s \o t) \o u = s \o (t \o u)
  BY ConcatProperties, ConcatEmptySeq, ConcatAssociative DEF Str

\* The length and the letters of a slice.
LEMMA SliceProperties ==
    ASSUME NEW C, NEW t \in Str(C), NEW a \in 0 .. Len(t), NEW b \in a .. Len(t)
    PROVE  /\ Slice(t, a, b) \in Str(C)
           /\ Len(Slice(t, a, b)) = b - a
           /\ \A i \in 1 .. b - a : Slice(t, a, b)[i] = t[a + i]
<1> USE DEF Str
<1>1. Len(t) \in Nat /\ a + 1 \in Int /\ b \in Int /\ a <= b
  BY LenProperties
<1>2. \A i \in a + 1 .. b : t[i] \in C
  BY <1>1, ElementOfSeq
<1>3. /\ SubSeq(t, a + 1, b) \in Str(C)
      /\ Len(SubSeq(t, a + 1, b)) = IF a + 1 <= b THEN b - (a + 1) + 1 ELSE 0
      /\ \A i \in 1 .. b - (a + 1) + 1 : SubSeq(t, a + 1, b)[i] = t[a + 1 + i - 1]
  BY <1>1, <1>2, SubSeqProperties
<1> QED
  BY <1>1, <1>3 DEF Slice

\* A text is the slice of all of it.
LEMMA SliceWhole ==
    ASSUME NEW C, NEW t \in Str(C)
    PROVE  Slice(t, 0, Len(t)) = t
  BY SubSeqFull DEF Slice, Str

\* The slice between a place and itself is empty.
LEMMA SliceEmpty ==
    ASSUME NEW C, NEW t \in Str(C), NEW a \in 0 .. Len(t)
    PROVE  Slice(t, a, a) = <<>>
<1> USE DEF Str
<1>1. a \in Int /\ a + 1 \in Int /\ a < a + 1
  BY LenProperties
<1> QED
  BY <1>1, SubSeqEmpty DEF Slice

\* Two slices that meet are one.
LEMMA SliceJoin ==
    ASSUME NEW C, NEW t \in Str(C), NEW a \in 0 .. Len(t), NEW b \in a .. Len(t), NEW c \in b .. Len(t)
    PROVE  Slice(t, a, b) \o Slice(t, b, c) = Slice(t, a, c)
<1> USE DEF Str
<1>1. /\ a + 1 \in 1 .. Len(t) + 1
      /\ b \in (a + 1) - 1 .. Len(t)
      /\ c \in b .. Len(t)
  BY LenProperties
<1> QED
  BY <1>1, ConcatAdjacentSubSeq DEF Slice

\* A slice of the front of a text, and of its back.
LEMMA SliceOfFront ==
    ASSUME NEW C, NEW s \in Str(C), NEW t \in Str(C), NEW a \in 0 .. Len(s), NEW b \in a .. Len(s)
    PROVE  Slice(s \o t, a, b) = Slice(s, a, b)
<1> USE DEF Str
<1>1. /\ s \o t \in Str(C) /\ Len(s \o t) = Len(s) + Len(t)
      /\ \A i \in 1 .. Len(s) + Len(t) : (s \o t)[i] = IF i <= Len(s) THEN s[i] ELSE t[i - Len(s)]
  BY ConcatProperties
<1>2. Len(s) \in Nat /\ Len(t) \in Nat
  BY LenProperties
<1> DEFINE st == s \o t
<1>3. st \in Str(C) /\ a \in 0 .. Len(st) /\ b \in a .. Len(st)
  BY <1>1, <1>2
<1>5. \A i \in 1 .. b - a : st[a + i] = s[a + i]
  BY <1>1, <1>2
<1> HIDE DEF st
<1>4. /\ Slice(st, a, b) \in Str(C) /\ Len(Slice(st, a, b)) = b - a
      /\ \A i \in 1 .. b - a : Slice(st, a, b)[i] = st[a + i]
  BY ONLY <1>3, SliceProperties
<1>6. /\ Slice(s, a, b) \in Str(C) /\ Len(Slice(s, a, b)) = b - a
      /\ \A i \in 1 .. b - a : Slice(s, a, b)[i] = s[a + i]
  BY SliceProperties
<1> DEFINE u == Slice(st, a, b)
           v == Slice(s, a, b)
<1>7. \A i \in 1 .. Len(u) : u[i] = v[i]
  BY <1>4, <1>5, <1>6
<1>8. u \in Seq(C) /\ v \in Seq(C) /\ Len(u) = Len(v)
  BY <1>4, <1>6
<1> HIDE DEF u, v
<1>9. u = v
  BY ONLY <1>7, <1>8, SeqEqual
<1> QED
  BY <1>9 DEF st, u, v

\* A slice behind the front of two texts is a slice of the second.
LEMMA SliceOfBack ==
    ASSUME NEW C, NEW s \in Str(C), NEW t \in Str(C), NEW a \in 0 .. Len(t), NEW b \in a .. Len(t)
    PROVE  Slice(s \o t, Len(s) + a, Len(s) + b) = Slice(t, a, b)
<1> USE DEF Str
<1>1. /\ s \o t \in Str(C) /\ Len(s \o t) = Len(s) + Len(t)
      /\ \A i \in 1 .. Len(s) + Len(t) : (s \o t)[i] = IF i <= Len(s) THEN s[i] ELSE t[i - Len(s)]
  BY ConcatProperties
<1>2. Len(s) \in Nat /\ Len(t) \in Nat
  BY LenProperties
<1>3. Len(s) + a \in 0 .. Len(s \o t) /\ Len(s) + b \in Len(s) + a .. Len(s \o t)
  BY <1>1, <1>2
<1> DEFINE st == s \o t
           la == Len(s) + a
           lb == Len(s) + b
<1>4. /\ Slice(st, la, lb) \in Str(C)
      /\ Len(Slice(st, la, lb)) = lb - la
      /\ \A i \in 1 .. lb - la : Slice(st, la, lb)[i] = st[la + i]
  <2>1. st \in Str(C)
    BY <1>1
  <2>2. la \in 0 .. Len(st)
    BY <1>3
  <2>3. lb \in la .. Len(st)
    BY <1>3
  <2> HIDE DEF st, la, lb
  <2> QED
    BY ONLY <2>1, <2>2, <2>3, SliceProperties
<1>5. /\ Slice(t, a, b) \in Str(C) /\ Len(Slice(t, a, b)) = b - a
      /\ \A i \in 1 .. b - a : Slice(t, a, b)[i] = t[a + i]
  BY SliceProperties
<1>6. lb - la = b - a /\ \A i \in 1 .. b - a : st[la + i] = t[a + i]
  BY <1>1, <1>2
<1> HIDE DEF st, la, lb
<1>7. \A i \in 1 .. Len(Slice(st, la, lb)) : Slice(st, la, lb)[i] = Slice(t, a, b)[i]
  BY <1>4, <1>5, <1>6
<1>8. Slice(st, la, lb) = Slice(t, a, b)
  BY <1>4, <1>5, <1>6, <1>7, SeqEqual
<1> QED
  BY <1>8 DEF st, la, lb

----------------
\* The sequences of a sequence one after the other.

\* What a flattening is, from the flattening of every beginning.
LEMMA FlattenIs ==
    ASSUME NEW C, NEW ss \in Seq(Str(C)), NEW f \in [0 .. Len(ss) -> Str(C)], f[0] = <<>>,
           \A n \in 1 .. Len(ss) : f[n] = f[n - 1] \o ss[n]
    PROVE  Q!FlattenSeq(ss) = f[Len(ss)]
<1>1. Len(ss) \in Nat /\ \A n \in 1 .. Len(ss) : ss[n] \in Str(C)
  BY LenProperties, ElementOfSeq
<1>2. CASE Len(ss) = 0
  <2>1. ss = <<>>
    BY <1>2, EmptySeq
  <2> QED
    BY <1>2, <2>1 DEF Q!FlattenSeq
<1>3. CASE Len(ss) # 0
  <2> DEFINE flat == CHOOSE g : g = [i \in 1 .. Len(ss) |->
                        IF i = 1 THEN ss[i] ELSE g[i - 1] \o ss[i]]
             h == [i \in 1 .. Len(ss) |-> f[i]]
  <2>1. h = [i \in 1 .. Len(ss) |-> IF i = 1 THEN ss[i] ELSE h[i - 1] \o ss[i]]
    <3>1. ASSUME NEW i \in 1 .. Len(ss)
          PROVE  f[i] = IF i = 1 THEN ss[i] ELSE h[i - 1] \o ss[i]
      <4>1. f[i] = f[i - 1] \o ss[i] /\ ss[i] \in Str(C)
        BY <1>1
      <4>2. CASE i = 1
        <5>1. f[i - 1] = <<>>
          BY <4>2
        <5> QED
          BY <4>1, <4>2, <5>1, StrConcat
      <4>3. CASE i # 1
        <5>1. i - 1 \in 1 .. Len(ss)
          BY <1>1, <4>3
        <5> QED
          BY <4>1, <4>3, <5>1
      <4> QED
        BY <4>2, <4>3
    <3> QED
      BY <3>1
  <2>2. flat = [i \in 1 .. Len(ss) |-> IF i = 1 THEN ss[i] ELSE flat[i - 1] \o ss[i]]
    <3> HIDE DEF h
    <3> QED
      BY <2>1
  <2>3. Q!FlattenSeq(ss) = flat[Len(ss)]
    BY <1>3 DEF Q!FlattenSeq
  <2> HIDE DEF flat
  <2> DEFINE T == {n \in 0 .. Len(ss) : n = 0 \/ flat[n] = f[n]}
  <2>4. 0 \in T
    BY <1>1
  <2>5. ASSUME NEW n \in 1 .. Len(ss), n - 1 \in T
        PROVE  n \in T
    <3>1. f[n] = f[n - 1] \o ss[n] /\ ss[n] \in Str(C)
      BY <1>1
    <3>2. flat[n] = IF n = 1 THEN ss[n] ELSE flat[n - 1] \o ss[n]
      BY <2>2
    <3>3. n \in 0 .. Len(ss)
      BY <1>1
    <3>4. CASE n = 1
      <4>1. f[n - 1] = <<>>
        BY <3>4
      <4>2. f[n] = ss[n]
        BY <3>1, <4>1, StrConcat
      <4> QED
        BY <3>2, <3>3, <3>4, <4>2
    <3>5. CASE n # 1
      <4>1. flat[n - 1] = f[n - 1]
        BY <1>1, <2>5, <3>5
      <4> QED
        BY <3>1, <3>2, <3>3, <3>5, <4>1
    <3> QED
      BY <3>4, <3>5
  <2>6. \A n \in 0 .. Len(ss) : n \in T
    <3> HIDE DEF T
    <3> QED
      BY <1>1, <2>4, <2>5, UpTo
  <2> QED
    BY <1>1, <1>3, <2>3, <2>6
<1> QED
  BY <1>2, <1>3

\* The flattening is the last of those of all beginnings, each with one more text.
LEMMA FlattenPrefixes ==
    ASSUME NEW C, NEW ss \in Seq(Str(C))
    PROVE  \E f \in [0 .. Len(ss) -> Str(C)] :
              /\ f[0] = <<>>
              /\ \A n \in 1 .. Len(ss) : f[n] = f[n - 1] \o ss[n]
              /\ Q!FlattenSeq(ss) = f[Len(ss)]
<1>1. Len(ss) \in Nat /\ <<>> \in Str(C) /\ \A n \in 1 .. Len(ss) : ss[n] \in Str(C)
  BY LenProperties, ElementOfSeq, StrProperties
<1> DEFINE S == Str(C)
           N == Len(ss)
           step == [n \in 1 .. N |-> [s \in S |-> s \o ss[n]]]
<1>2. step \in [1 .. N -> [S -> S]]
  BY <1>1, StrConcat
<1>3. PICK f \in [0 .. N -> S] :
        f[0] = <<>> /\ \A n \in 1 .. N : f[n] = step[n][f[n - 1]]
  <2>1. N \in Nat /\ <<>> \in S
    BY <1>1
  <2> HIDE DEF step, S, N
  <2>2. PICK none \in S : none = <<>>
    BY <2>1
  <2>3. \E f \in [0 .. N -> S] : f[0] = none /\ \A n \in 1 .. N : f[n] = step[n][f[n - 1]]
    <3>1. \A m \in Nat : \A e \in [1 .. m -> [S -> S]] :
            \E f \in [0 .. m -> S] : f[0] = none /\ \A n \in 1 .. m : f[n] = e[n][f[n - 1]]
      BY RecursionExists
    <3> QED
      BY <1>2, <2>1, <3>1
  <2> QED
    BY <2>2, <2>3
<1>4. ASSUME NEW n \in 1 .. Len(ss)
      PROVE  f[n] = f[n - 1] \o ss[n]
  <2>1. f[n] = step[n][f[n - 1]]
    BY <1>3
  <2>2. n - 1 \in 0 .. N
    BY <1>1
  <2>3. f[n - 1] \in S
    BY <1>3, <2>2
  <2> QED
    BY <2>1, <2>3
<1>5. Q!FlattenSeq(ss) = f[Len(ss)]
  BY <1>3, <1>4, FlattenIs
<1> QED
  BY <1>3, <1>4, <1>5

\* A flattening of texts is a text.
LEMMA FlattenType ==
    ASSUME NEW C, NEW ss \in Seq(Str(C))
    PROVE  Q!FlattenSeq(ss) \in Str(C)
<1>1. Len(ss) \in 0 .. Len(ss)
  BY LenProperties
<1>2. PICK f \in [0 .. Len(ss) -> Str(C)] : Q!FlattenSeq(ss) = f[Len(ss)]
  BY FlattenPrefixes
<1> QED
  BY <1>1, <1>2

\* Flattening nothing gives the empty text.
LEMMA FlattenEmpty == Q!FlattenSeq(<<>>) = <<>>
  BY DEF Q!FlattenSeq

\* One more text at the end comes behind the others.
LEMMA FlattenAppend ==
    ASSUME NEW C, NEW ss \in Seq(Str(C)), NEW s \in Str(C)
    PROVE  Q!FlattenSeq(Append(ss, s)) = Q!FlattenSeq(ss) \o s
<1> DEFINE n == Len(ss)
           tt == Append(ss, s)
<1>1. /\ n \in Nat
      /\ tt \in Seq(Str(C)) /\ Len(tt) = n + 1
      /\ \A i \in 1 .. n : tt[i] = ss[i]
      /\ tt[n + 1] = s
  BY LenProperties, AppendProperties
<1>2. PICK f \in [0 .. n -> Str(C)] :
        /\ f[0] = <<>>
        /\ \A i \in 1 .. n : f[i] = f[i - 1] \o ss[i]
        /\ Q!FlattenSeq(ss) = f[n]
  BY FlattenPrefixes
<1> DEFINE g == [i \in 0 .. n + 1 |-> IF i = n + 1 THEN f[n] \o s ELSE f[i]]
<1>3. g \in [0 .. n + 1 -> Str(C)]
  <2>1. n \in 0 .. n
    BY <1>1
  <2>2. f[n] \in Str(C)
    BY <1>2, <2>1
  <2>3. f[n] \o s \in Str(C)
    BY <2>2, StrConcat
  <2> QED
    BY <1>1, <1>2, <2>3
<1>4. g[0] = <<>> /\ g[n + 1] = f[n] \o s
  BY <1>1, <1>2
<1>5. ASSUME NEW i \in 1 .. n + 1
      PROVE  g[i] = g[i - 1] \o tt[i]
  <2>1. CASE i = n + 1
    <3>1. i - 1 = n /\ i - 1 \in 0 .. n + 1 /\ i - 1 # n + 1
      BY <1>1, <2>1
    <3>2. g[i - 1] = f[n] /\ g[i] = f[n] \o s /\ tt[i] = s
      BY <1>1, <1>4, <2>1, <3>1
    <3> QED
      BY <3>2
  <2>2. CASE i # n + 1
    <3>1. i \in 1 .. n /\ i - 1 \in 0 .. n /\ i - 1 # n + 1
      BY <1>1, <2>2
    <3>2. f[i] = f[i - 1] \o ss[i] /\ tt[i] = ss[i]
      BY <1>1, <1>2, <3>1
    <3>3. g[i - 1] = f[i - 1] /\ g[i] = f[i]
      BY <1>1, <3>1
    <3> QED
      BY <3>2, <3>3
  <2> QED
    BY <2>1, <2>2
<1>6. Q!FlattenSeq(tt) = g[n + 1]
  <2> HIDE DEF g, tt, n
  <2>1. g \in [0 .. Len(tt) -> Str(C)] /\ \A i \in 1 .. Len(tt) : g[i] = g[i - 1] \o tt[i]
    BY <1>1, <1>3, <1>5
  <2> QED
    BY <1>1, <1>4, <2>1, FlattenIs
<1> QED
  BY <1>2, <1>4, <1>6

\* The flattening of two sequences, one behind the other.
LEMMA FlattenJoin ==
    ASSUME NEW C, NEW ss \in Seq(Str(C)), NEW tt \in Seq(Str(C))
    PROVE  Q!FlattenSeq(ss \o tt) = Q!FlattenSeq(ss) \o Q!FlattenSeq(tt)
<1>1. Len(tt) \in Nat
  BY LenProperties
<1> DEFINE T == {n \in 0 .. Len(tt) :
        Q!FlattenSeq(ss \o SubSeq(tt, 1, n)) = Q!FlattenSeq(ss) \o Q!FlattenSeq(SubSeq(tt, 1, n))}
<1>2. 0 \in T
  <2>1. SubSeq(tt, 1, 0) = <<>>
    BY SubSeqEmpty
  <2>2. ss \o <<>> = ss /\ Q!FlattenSeq(ss) \in Str(C)
    BY FlattenType, StrConcat
  <2>3. Q!FlattenSeq(ss) \o <<>> = Q!FlattenSeq(ss)
    BY <2>2, StrConcat
  <2>4. 0 \in 0 .. Len(tt)
    BY <1>1
  <2> QED
    BY <2>1, <2>2, <2>3, <2>4, FlattenEmpty
<1>3. ASSUME NEW n \in 1 .. Len(tt), n - 1 \in T
      PROVE  n \in T
  <2> DEFINE u == SubSeq(tt, 1, n - 1)
             e == tt[n]
  <2>1. e \in Str(C) /\ u \in Seq(Str(C))
    <3>1. \A i \in 1 .. n - 1 : tt[i] \in Str(C)
      BY <1>1, ElementOfSeq
    <3> QED
      BY <1>1, <3>1, ElementOfSeq, SubSeqProperties
  <2>2. SubSeq(tt, 1, n) = u \o <<e>>
    <3>1. 1 \in 1 .. Len(tt) /\ n \in 1 .. Len(tt)
      BY <1>1
    <3> QED
      BY <3>1, SubSeqRecursiveSecond
  <2> HIDE DEF u, e
  <2>3. /\ u \o <<e>> = Append(u, e)
        /\ (ss \o u) \in Seq(Str(C))
        /\ (ss \o u) \o <<e>> = Append(ss \o u, e)
    BY <2>1, AppendIsConcat, ConcatProperties
  <2>4. ss \o (u \o <<e>>) = (ss \o u) \o <<e>>
    <3>1. <<e>> \in Seq(Str(C))
      BY <2>1
    <3> QED
      BY <2>1, <3>1, ConcatAssociative
  <2>5. /\ Q!FlattenSeq(Append(u, e)) = Q!FlattenSeq(u) \o e
        /\ Q!FlattenSeq(Append(ss \o u, e)) = Q!FlattenSeq(ss \o u) \o e
    BY <2>1, <2>3, FlattenAppend
  <2>6. Q!FlattenSeq(ss \o u) = Q!FlattenSeq(ss) \o Q!FlattenSeq(u)
    BY <1>3 DEF u
  <2>7. Q!FlattenSeq(ss) \in Str(C) /\ Q!FlattenSeq(u) \in Str(C)
    BY <2>1, FlattenType
  <2>8. (Q!FlattenSeq(ss) \o Q!FlattenSeq(u)) \o e = Q!FlattenSeq(ss) \o (Q!FlattenSeq(u) \o e)
    <3> DEFINE a == Q!FlattenSeq(ss)
               b == Q!FlattenSeq(u)
    <3>1. a \in Str(C) /\ b \in Str(C) /\ e \in Str(C)
      BY <2>1, <2>7
    <3> HIDE DEF a, b
    <3>2. \A x, y, z \in Str(C) : (x \o y) \o z = x \o (y \o z)
      BY StrConcat
    <3>3. (a \o b) \o e = a \o (b \o e)
      BY <3>1, <3>2
    <3> QED
      BY <3>3 DEF a, b
  <2>9. n \in 0 .. Len(tt)
    BY <1>1
  <2>10. Q!FlattenSeq(ss \o SubSeq(tt, 1, n)) = Q!FlattenSeq(ss) \o Q!FlattenSeq(SubSeq(tt, 1, n))
    BY <2>2, <2>3, <2>4, <2>5, <2>6, <2>8
  <2> QED
    BY <2>9, <2>10
<1>4. \A n \in 0 .. Len(tt) : n \in T
  <2> HIDE DEF T
  <2> QED
    BY <1>1, <1>2, <1>3, UpTo
<1>5. SubSeq(tt, 1, Len(tt)) = tt
  BY SubSeqFull
<1>6. Len(tt) \in T
  <2>1. Len(tt) \in 0 .. Len(tt)
    BY <1>1
  <2> QED
    BY <1>4, <2>1
<1> QED
  BY <1>5, <1>6

\* The flattening of one text is that text.
LEMMA FlattenOne ==
    ASSUME NEW C, NEW s \in Str(C)
    PROVE  Q!FlattenSeq(<<s>>) = s
<1>1. <<>> \in Seq(Str(C)) /\ Append(<<>>, s) = <<s>>
  OBVIOUS
<1>2. Q!FlattenSeq(<<s>>) = Q!FlattenSeq(<<>>) \o s
  BY <1>1, FlattenAppend
<1> QED
  BY <1>2, FlattenEmpty, StrConcat

----------------
\* The least and the greatest of a set of numbers, and a set in its order.

\* A member below all others is the least.
LEMMA LeastIs ==
    ASSUME NEW S, S \subseteq Int, NEW m \in S, \A y \in S : m <= y
    PROVE  Least(S) = m
<1>1. \E x \in S : \A y \in S : x <= y
  OBVIOUS
<1>2. Least(S) \in S /\ \A y \in S : Least(S) <= y
  BY <1>1 DEF Least
<1>3. Least(S) \in Int /\ m \in Int /\ Least(S) <= m /\ m <= Least(S)
  BY <1>2
<1> QED
  BY <1>3

\* The least of a set of numbers is in it and below all others.
LEMMA LeastProperties ==
    ASSUME NEW S, S \subseteq Nat, S # {}
    PROVE  Least(S) \in S /\ \A y \in S : Least(S) <= y
<1>1. \E x \in S : \A y \in S : x <= y
  BY LeastNumber
<1> QED
  BY <1>1 DEF Least

\* A bounded set of numbers has a greatest.
LEMMA GreatestProperties ==
    ASSUME NEW S, NEW b \in Nat, S \subseteq 0 .. b, S # {}
    PROVE  Greatest(S) \in S /\ \A y \in S : Greatest(S) >= y
<1> DEFINE D == {b - y : y \in S}
<1>1. D \subseteq Nat /\ D # {}
  <2>1. \A y \in S : y \in 0 .. b /\ b - y \in Nat
    OBVIOUS
  <2> QED
    BY <2>1
<1>2. PICK d \in D : \A y \in D : d <= y
  <2> HIDE DEF D
  <2> QED
    BY <1>1, LeastNumber
<1>3. PICK x \in S : d = b - x
  BY <1>2
<1>4. \A y \in S : x >= y
  BY <1>2, <1>3
<1> QED
  BY <1>4 DEF Greatest

\* The elements of a finite set of numbers in ascending order.
LEMMA AscendingProperties ==
    ASSUME NEW S, S \subseteq Int, IsFiniteSet(S)
    PROVE  /\ Cardinality(S) \in Nat
           /\ Ascending(S) \in Seq(S) /\ Len(Ascending(S)) = Cardinality(S)
           /\ \A m, n \in 1 .. Cardinality(S) : m < n <=> Ascending(S)[m] < Ascending(S)[n]
           /\ \A x \in S : \E n \in 1 .. Cardinality(S) : Ascending(S)[n] = x
<1> DEFINE N == Cardinality(S)
           below == [x \in S |-> {y \in S : y < x}]
           rank(x) == Cardinality(below[x])
           s == Ascending(S)
<1>1. N \in Nat
  BY FS_CardinalityType
<1>2. /\ below \in [S -> SUBSET S]
      /\ \A x, y \in S : x = y \/ x \in below[y] \/ y \in below[x]
      /\ \A x \in S : x \notin below[x]
      /\ \A x, y \in S : y \in below[x] => below[y] \subseteq below[x]
  <2>1. \A x \in S : x \in Int
    OBVIOUS
  <2>2. \A x \in S : below[x] = {y \in S : y < x}
    OBVIOUS
  <2>3. \A x, y \in S : x = y \/ x \in below[y] \/ y \in below[x]
    BY <2>1, <2>2
  <2>4. ASSUME NEW x \in S, NEW y \in S, y \in below[x], NEW z \in below[y]
        PROVE  z \in below[x]
    BY <2>1, <2>2, <2>4
  <2>5. below \in [S -> SUBSET S]
    OBVIOUS
  <2>6. \A x \in S : x \notin below[x]
    BY <2>1, <2>2
  <2> HIDE DEF below
  <2>7. \A x, y \in S : y \in below[x] => below[y] \subseteq below[x]
    BY <2>4
  <2> QED
    BY <2>3, <2>5, <2>6, <2>7
<1>3. ASSUME NEW n \in 1 .. N
      PROVE  \E x \in S : rank(x) = n - 1
  <2> HIDE DEF below
  <2>1. n \in 1 .. Cardinality(S)
    OBVIOUS
  <2>2. below \in [S -> SUBSET S]
    BY <1>2
  <2>3. \A x, y \in S : x = y \/ x \in below[y] \/ y \in below[x]
    BY <1>2
  <2>4. \A x \in S : x \notin below[x]
    BY <1>2
  <2>5. \A x, y \in S : y \in below[x] => below[y] \subseteq below[x]
    BY <1>2
  <2>6. \E x \in S : Cardinality(below[x]) = n - 1
    BY ONLY IsFiniteSet(S), <2>1, <2>2, <2>3, <2>4, <2>5, RanksAreHit
  <2> QED
    BY <2>6
<1>4. \A n \in 1 .. N : s[n] \in S /\ rank(s[n]) = n - 1
  <2> SUFFICES ASSUME NEW n \in 1 .. N
               PROVE  s[n] \in S /\ rank(s[n]) = n - 1
    OBVIOUS
  <2>1. PICK x \in S : rank(x) = n - 1
    BY <1>3
  <2>2. s[n] = CHOOSE y \in S : Cardinality({z \in S : z < y}) = n - 1
    BY DEF Ascending
  <2>3. Cardinality({z \in S : z < x}) = n - 1
    BY <2>1
  <2>4. s[n] \in S /\ Cardinality({z \in S : z < s[n]}) = n - 1
    BY <2>2, <2>3
  <2> QED
    BY <2>4
<1>5. s \in Seq(S) /\ Len(s) = N /\ DOMAIN s = 1 .. N
  <2>1. s \in [1 .. N -> S]
    BY <1>4 DEF Ascending
  <2> QED
    BY <1>1, <2>1
<1>6. \A x \in S : IsFiniteSet(below[x]) /\ rank(x) \in Nat
  BY <1>2, FS_Subset, FS_CardinalityType
<1>7. ASSUME NEW x \in S, NEW y \in S, x < y
      PROVE  rank(x) < rank(y)
  <2>1. below[x] \subseteq below[y] /\ x \in below[y] /\ x \notin below[x]
    <3>1. x \in below[y]
      BY <1>7
    <3> HIDE DEF below
    <3> QED
      BY <1>2, <3>1
  <2>2. rank(x) <= rank(y) /\ (rank(x) = rank(y) => below[x] = below[y])
    BY <1>6, <2>1, FS_Subset
  <2> QED
    BY <1>6, <2>1, <2>2
<1>8. ASSUME NEW m \in 1 .. N, NEW n \in 1 .. N
      PROVE  m < n <=> s[m] < s[n]
  <2>1. s[m] \in S /\ s[n] \in S /\ rank(s[m]) = m - 1 /\ rank(s[n]) = n - 1
    BY <1>4
  <2> HIDE DEF rank, s
  <2>2. s[m] < s[n] => rank(s[m]) < rank(s[n])
    BY <1>7, <2>1
  <2>3. s[n] < s[m] => rank(s[n]) < rank(s[m])
    BY <1>7, <2>1
  <2>4. s[m] \in Int /\ s[n] \in Int
    BY <2>1
  <2>5. s[m] = s[n] => m = n
    BY <1>1, <2>1
  <2> QED
    BY <1>1, <2>1, <2>2, <2>3, <2>4, <2>5
<1>9. ASSUME NEW x \in S
      PROVE  \E n \in 1 .. N : s[n] = x
  <2>1. rank(x) \in 0 .. N - 1
    <3>1. below[x] \subseteq S /\ below[x] # S
      BY <1>2
    <3>2. rank(x) <= N /\ (rank(x) = N => below[x] = S)
      BY <3>1, FS_Subset
    <3> QED
      BY <1>1, <1>6, <3>1, <3>2
  <2> DEFINE n == rank(x) + 1
  <2>2. n \in 1 .. N
    BY <1>1, <2>1
  <2>3. s[n] \in S /\ rank(s[n]) = n - 1
    BY <1>4, <2>2
  <2>4. rank(s[n]) = rank(x)
    BY <1>6, <2>3
  <2>5. s[n] \in Int /\ x \in Int /\ rank(x) \in Nat
    BY <1>6, <2>3
  <2> HIDE DEF rank, s, n
  <2>6. ~(s[n] < x)
    BY <1>7, <2>3, <2>4, <2>5
  <2>7. ~(x < s[n])
    BY <1>7, <2>3, <2>4, <2>5
  <2> QED
    BY <2>2, <2>5, <2>6, <2>7
<1> QED
  BY <1>1, <1>5, <1>8, <1>9

----------------
\* The rounds of the search.

\* What the diagonals have reached.
Fronts == UNION {[D -> Int] : D \in SUBSET Int}

\* Where a diagonal starts in a round: one edit from its neighbour.
Start(v, d, k) == IF ComesDown(v, d, k) THEN From(v, k + 1) ELSE From(v, k - 1) + 1

\* The tokens after two points agree.
SameNext(A, B, x, y) == x + 1 <= Len(A) /\ y + 1 <= Len(B) /\ A[x + 1].text = B[y + 1].text

\* What the diagonals have reached, and where they start, are numbers.
LEMMA FrontsProperties ==
    ASSUME NEW v \in Fronts
    PROVE  /\ DOMAIN v \subseteq Int
           /\ \A k \in DOMAIN v : v[k] \in Int
           /\ \A k : Reach(v, k) \in Int /\ From(v, k) \in Int
           /\ \A d, k : Start(v, d, k) \in Int
<1>1. PICK D \in SUBSET Int : v \in [D -> Int]
  BY DEF Fronts
<1>2. \A k : Reach(v, k) \in Int /\ From(v, k) \in Int
  <2>1. DOMAIN v = D /\ \A k \in D : v[k] \in Int
    BY <1>1
  <2>2. ASSUME NEW k
        PROVE  Reach(v, k) \in Int
    <3>1. CASE k \in D
      BY <2>1, <3>1 DEF Reach
    <3>2. CASE k \notin D
      BY <2>1, <3>2 DEF Reach
    <3> QED
      BY <3>1, <3>2
  <2> QED
    BY <2>2 DEF From
<1> QED
  BY <1>1, <1>2 DEF Start

\* A diagonal goes on from its start as long as the tokens agree, and no further.
LEMMA FurthestIs ==
    ASSUME NEW A, NEW B, Len(A) \in Nat, Len(B) \in Nat, NEW v \in Fronts, NEW d \in Int, NEW k \in Int
    PROVE  \E s \in 0 .. Len(A) :
              LET x == Start(v, d, k)
                  y == Start(v, d, k) - k
              IN  /\ Furthest(A, B, v, d, k) = x + s
                  /\ \A i \in 1 .. s : /\ x + i <= Len(A) /\ y + i <= Len(B)
                                       /\ A[x + i].text = B[y + i].text
                  /\ x >= 0 => ~SameNext(A, B, x + s, y + s)
<1> DEFINE x == Start(v, d, k)
           y == x - k
           agree(n) == \A i \in 1 .. n : /\ x + i <= Len(A) /\ y + i <= Len(B)
                                         /\ A[x + i].text = B[y + i].text
           R == {n \in 0 .. Len(A) : agree(n)}
<1>1. x \in Int /\ y \in Int
  BY FrontsProperties
<1>2. Furthest(A, B, v, d, k) = x + Greatest(R)
  BY DEF Furthest, Start
<1>3. R \subseteq 0 .. Len(A) /\ 0 \in R
  OBVIOUS
<1>4. Greatest(R) \in R /\ \A n \in R : Greatest(R) >= n
  <2> HIDE DEF R
  <2> QED
    BY <1>3, GreatestProperties
<1> DEFINE s == Greatest(R)
<1>5. s \in 0 .. Len(A) /\ agree(s)
  <2> HIDE DEF s
  <2>1. s \in R
    BY <1>4 DEF s
  <2> QED
    BY <2>1
<1>6. ASSUME x >= 0, SameNext(A, B, x + s, y + s)
      PROVE  FALSE
  <2> HIDE DEF s
  <2>1. s + 1 \in 0 .. Len(A)
    BY <1>1, <1>5, <1>6 DEF SameNext
  <2>2. ASSUME NEW i \in 1 .. s + 1
        PROVE  x + i <= Len(A) /\ y + i <= Len(B) /\ A[x + i].text = B[y + i].text
    <3> HIDE DEF x, y
    <3>1. CASE i = s + 1
      <4>1. x + i = x + s + 1 /\ y + i = y + s + 1
        BY <1>1, <1>5, <3>1
      <4> QED
        BY <1>6, <4>1 DEF SameNext
    <3>2. CASE i # s + 1
      <4>1. i \in 1 .. s
        BY <1>5, <3>2
      <4> QED
        BY <1>5, <4>1
    <3> QED
      BY <3>1, <3>2
  <2>3. s + 1 \in R
    BY <2>1, <2>2
  <2>4. s >= s + 1
    <3> HIDE DEF R
    <3> QED
      BY <1>4, <2>3 DEF s
  <2> QED
    BY <1>5, <2>4
<1> QED
  BY <1>2, <1>5, <1>6

\* A round turns what the diagonals have reached into such a record again.
LEMMA RoundType ==
    ASSUME NEW A, NEW B, Len(A) \in Nat, Len(B) \in Nat, NEW v \in Fronts, NEW d \in Int
    PROVE  Round(A, B, v, d) \in Fronts
<1>1. DOMAIN v \union Diagonals(d) \in SUBSET Int
  BY FrontsProperties DEF Diagonals
<1>2. \A k \in Diagonals(d) : Furthest(A, B, v, d, k) \in Int
  <2>1. \A k \in Diagonals(d) : k \in Int /\ Start(v, d, k) \in Int
    BY FrontsProperties DEF Diagonals
  <2>2. ASSUME NEW k \in Diagonals(d)
        PROVE  Furthest(A, B, v, d, k) \in Int
    <3>1. k \in Int /\ Start(v, d, k) \in Int
      BY <2>1
    <3>2. \E s \in 0 .. Len(A) : Furthest(A, B, v, d, k) = Start(v, d, k) + s
      BY <3>1, FurthestIs
    <3> QED
      BY <3>1, <3>2
  <2> QED
    BY <2>2
<1>3. Round(A, B, v, d) \in [DOMAIN v \union Diagonals(d) -> Int]
  BY <1>2, FrontsProperties DEF Round
<1> QED
  BY <1>1, <1>3 DEF Fronts

\* The rounds so far: each from the one before, none but the last at both ends.
RoundsSoFar(A, B, vs) ==
    /\ vs[1] = [k \in {1} |-> 0]
    /\ \A i \in 1 .. Len(vs) - 1 : vs[i + 1] = Round(A, B, vs[i], i - 1)
    /\ \A i \in 2 .. Len(vs) - 1 : Ends(A, B, vs[i]) = {}

\* One more step of the search adds the next round, or nothing once both ends are met.
LEMMA SearchedSoFar ==
    ASSUME NEW A, NEW B, Len(A) \in Nat, Len(B) \in Nat, NEW F, NEW vs \in Seq(F), vs # <<>>,
           NEW d \in Nat, RoundsSoFar(A, B, vs),
           d = 0 => Len(vs) = 1, d > 0 => Len(vs) \in 2 .. d + 1,
           Len(vs) < d + 1 => Ends(A, B, vs[Len(vs)]) # {},
           NEW ws \in Seq(F), ws = Searched(A, B, vs, d),
           Append(vs, Round(A, B, vs[Len(vs)], d)) \in Seq(F)
    PROVE  /\ RoundsSoFar(A, B, ws)
           /\ Len(ws) \in 2 .. d + 2
           /\ Len(ws) < d + 2 => Ends(A, B, ws[Len(ws)]) # {}
<1> DEFINE L == Len(vs)
           r == Round(A, B, vs[L], d)
           E(v) == Ends(A, B, v)
<1>1. L \in Nat \ {0}
  BY LenProperties, EmptySeq
<1>2. CASE d > 0 /\ Ends(A, B, vs[L]) # {}
  <2>1. ws = vs
    BY <1>2 DEF Searched
  <2> QED
    BY <1>1, <1>2, <2>1
<1>3. CASE ~(d > 0 /\ Ends(A, B, vs[L]) # {})
  <2>1. ws = Append(vs, r)
    BY <1>3 DEF Searched
  <2>2. L = d + 1
    BY <1>1, <1>3
  <2> HIDE DEF r
  <2>3. Len(ws) = L + 1 /\ (\A i \in 1 .. L : ws[i] = vs[i]) /\ ws[L + 1] = r
    <3>1. r \in F
      <4>1. Append(vs, r) \in Seq(F)
        BY DEF r
      <4>2. L + 1 \in 1 .. Len(Append(vs, r)) /\ Append(vs, r)[L + 1] = r
        BY <1>1
      <4> QED
        BY <4>1, <4>2, ElementOfSeq
    <3> QED
      BY <2>1, <3>1, AppendProperties
  <2>4. \A i \in 1 .. Len(ws) - 1 : ws[i + 1] = Round(A, B, ws[i], i - 1)
    <3>1. ASSUME NEW i \in 1 .. L
          PROVE  ws[i + 1] = Round(A, B, ws[i], i - 1)
      <4>1. CASE i = L
        <5>1. i - 1 = d /\ ws[i] = vs[L] /\ ws[i + 1] = r
          BY <1>1, <2>2, <2>3, <4>1
        <5> QED
          BY <5>1 DEF r
      <4>2. CASE i # L
        <5>1. i \in 1 .. L - 1 /\ i + 1 \in 1 .. L
          BY <1>1, <4>2
        <5>2. vs[i + 1] = Round(A, B, vs[i], i - 1)
          BY <5>1 DEF RoundsSoFar
        <5> QED
          BY <2>3, <5>1, <5>2
      <4> QED
        BY <4>1, <4>2
    <3>2. Len(ws) - 1 = L
      BY <1>1, <2>3
    <3> QED
      BY <3>1, <3>2
  <2>5. \A i \in 2 .. Len(ws) - 1 : Ends(A, B, ws[i]) = {}
    <3>1. ASSUME NEW i \in 2 .. L
          PROVE  Ends(A, B, ws[i]) = {}
      <4>1. ws[i] = vs[i]
        BY <2>3
      <4>2. CASE i = L
        <5>1. d > 0
          BY <1>1, <2>2, <4>2
        <5> QED
          BY <1>3, <4>1, <4>2, <5>1
      <4>3. CASE i # L
        <5>1. i \in 2 .. L - 1
          BY <1>1, <4>3
        <5> QED
          BY <4>1, <5>1 DEF RoundsSoFar
      <4> QED
        BY <4>2, <4>3
    <3>2. Len(ws) - 1 = L
      BY <1>1, <2>3
    <3> QED
      BY <3>1, <3>2
  <2>6. ws[1] = [k \in {1} |-> 0]
    BY <1>1, <2>3 DEF RoundsSoFar
  <2>7. RoundsSoFar(A, B, ws)
    BY <2>4, <2>5, <2>6 DEF RoundsSoFar
  <2>8. Len(ws) = d + 2
    BY <2>2, <2>3
  <2> QED
    BY <2>7, <2>8
<1> QED
  BY <1>2, <1>3

\* The search (diffTokenSequences) is a sequence of rounds, each from the one before, that
\* ends when both ends are met or the largest number of edits is used up.
LEMMA RoundsAre ==
    ASSUME NEW A, NEW B, Len(A) \in Nat, Len(B) \in Nat
    PROVE  /\ Rounds(A, B) \in Seq(Fronts)
           /\ RoundsSoFar(A, B, Rounds(A, B))
           /\ Len(Rounds(A, B)) \in 2 .. Len(A) + Len(B) + 2
           /\ Len(Rounds(A, B)) < Len(A) + Len(B) + 2 =>
                  Ends(A, B, Rounds(A, B)[Len(Rounds(A, B))]) # {}
<1> DEFINE N == Len(A) + Len(B) + 1
           first == [k \in {1} |-> 0]
           S == {vs \in Seq(Fronts) : vs # <<>>}
           step == [n \in 1 .. N |-> [vs \in S |-> Searched(A, B, vs, n - 1)]]
           F == CHOOSE g : g = [n \in 0 .. N |->
                    IF n = 0 THEN <<first>>
                    ELSE With(g[n - 1], LAMBDA vs : Searched(A, B, vs, n - 1))]
<1>1. N \in Nat /\ 1 <= N
  OBVIOUS
<1>2. first \in Fronts
  <2>1. first \in [{1} -> Int] /\ {1} \in SUBSET Int
    OBVIOUS
  <2> HIDE DEF first
  <2> QED
    BY <2>1 DEF Fronts
<1>3. <<first>> \in S
  <2> HIDE DEF first
  <2> QED
    BY <1>2
<1>4. ASSUME NEW vs \in S, NEW d \in Int
      PROVE  /\ Len(vs) \in Nat \ {0} /\ vs[Len(vs)] \in Fronts
             /\ Append(vs, Round(A, B, vs[Len(vs)], d)) \in S
             /\ Searched(A, B, vs, d) \in S
  <2>1. vs \in Seq(Fronts) /\ vs # <<>>
    OBVIOUS
  <2>2. Len(vs) \in Nat \ {0}
    BY <2>1, LenProperties, EmptySeq
  <2>3. vs[Len(vs)] \in Fronts
    BY <2>1, <2>2, ElementOfSeq
  <2>4. Round(A, B, vs[Len(vs)], d) \in Fronts
    BY <2>3, RoundType
  <2>5. /\ Append(vs, Round(A, B, vs[Len(vs)], d)) \in Seq(Fronts)
        /\ Len(Append(vs, Round(A, B, vs[Len(vs)], d))) = Len(vs) + 1
    BY <2>1, <2>4, AppendProperties
  <2>6. Append(vs, Round(A, B, vs[Len(vs)], d)) # <<>>
    BY <2>2, <2>5, EmptySeq
  <2> QED
    BY <2>1, <2>2, <2>3, <2>5, <2>6 DEF Searched
<1>5. step \in [1 .. N -> [S -> S]]
  <2>1. ASSUME NEW n \in 1 .. N
        PROVE  [vs \in S |-> Searched(A, B, vs, n - 1)] \in [S -> S]
    <3>1. n - 1 \in Int
      BY <1>1
    <3> QED
      BY <1>4, <3>1
  <2> QED
    BY <2>1
<1>6. PICK f \in [0 .. N -> S] :
        f[0] = <<first>> /\ \A n \in 1 .. N : f[n] = step[n][f[n - 1]]
  <2> HIDE DEF step, S, N, first, F
  <2>1. PICK b \in S : b = <<first>>
    BY <1>3
  <2>2. \E f \in [0 .. N -> S] : f[0] = b /\ \A n \in 1 .. N : f[n] = step[n][f[n - 1]]
    <3>1. N \in Nat /\ b \in S /\ step \in [1 .. N -> [S -> S]]
      BY <1>1, <1>5
    <3> QED
      BY <3>1, RecursionExists
  <2> QED
    BY <2>1, <2>2
<1>7. ASSUME NEW n \in 1 .. N
      PROVE  n - 1 \in 0 .. N /\ f[n - 1] \in S /\ f[n] = Searched(A, B, f[n - 1], n - 1)
  <2>1. n - 1 \in 0 .. N
    BY <1>1
  <2>2. f[n - 1] \in S
    BY <1>6, <2>1
  <2> QED
    BY <1>6, <2>1, <2>2
<1>8. F = [n \in 0 .. N |-> IF n = 0 THEN <<first>> ELSE Searched(A, B, F[n - 1], n - 1)]
  <2> HIDE DEF first, N
  <2>1. f = [n \in 0 .. N |-> IF n = 0 THEN <<first>>
                              ELSE With(f[n - 1], LAMBDA vs : Searched(A, B, vs, n - 1))]
    <3>1. ASSUME NEW n \in 1 .. N
          PROVE  With(f[n - 1], LAMBDA vs : Searched(A, B, vs, n - 1)) = f[n]
      BY <1>7 DEF With
    <3>2. \A n \in 0 .. N : f[n] = IF n = 0 THEN <<first>>
                              ELSE With(f[n - 1], LAMBDA vs : Searched(A, B, vs, n - 1))
      <4>1. \A n \in 0 .. N : n = 0 \/ n \in 1 .. N
        BY <1>1
      <4> QED
        BY <1>6, <3>1, <4>1
    <3>3. f = [n \in 0 .. N |-> f[n]]
      BY <1>6
    <3> QED
      BY <3>2, <3>3
  <2>2. F = [n \in 0 .. N |-> IF n = 0 THEN <<first>>
                              ELSE With(F[n - 1], LAMBDA vs : Searched(A, B, vs, n - 1))]
    BY <2>1
  <2> HIDE DEF F
  <2>3. \A n \in 0 .. N : With(F[n - 1], LAMBDA vs : Searched(A, B, vs, n - 1)) = Searched(A, B, F[n - 1], n - 1)
    BY DEF With
  <2> QED
    BY <2>2, <2>3
<1>9. Rounds(A, B) = F[N]
  BY DEF Rounds
<1> HIDE DEF F
<1>10. \A n \in 0 .. N : n \in {i \in 0 .. N : F[i] = f[i]}
  <2> DEFINE T == {i \in 0 .. N : F[i] = f[i]}
  <2>1. 0 \in T
    BY <1>1, <1>6, <1>8
  <2>2. ASSUME NEW n \in 1 .. N, n - 1 \in T
        PROVE  n \in T
    <3>1. F[n] = Searched(A, B, F[n - 1], n - 1)
      <4>1. n \in 0 .. N /\ n # 0
        BY <1>1
      <4>2. F[n] = IF n = 0 THEN <<first>> ELSE Searched(A, B, F[n - 1], n - 1)
        <5> HIDE DEF N, first
        <5> QED
          BY <1>8, <4>1, Zenon
      <4> QED
        BY <4>1, <4>2
    <3> QED
      BY <1>1, <1>7, <2>2, <3>1
  <2> HIDE DEF T
  <2>3. \A n \in 0 .. N : n \in T
    BY <1>1, <2>1, <2>2, UpTo
  <2> QED
    BY <2>3 DEF T
<1>11. Rounds(A, B) = f[N]
  BY <1>1, <1>9, <1>10
<1> DEFINE Good(vs, n) ==
        /\ RoundsSoFar(A, B, vs)
        /\ n = 0 => Len(vs) = 1
        /\ n > 0 => Len(vs) \in 2 .. n + 1
        /\ Len(vs) < n + 1 => Ends(A, B, vs[Len(vs)]) # {}
<1>12. Good(f[0], 0)
  <2>1. Len(f[0]) = 1 /\ f[0][1] = first
    BY <1>6
  <2> QED
    BY <2>1 DEF RoundsSoFar
<1>13. ASSUME NEW n \in 1 .. N, Good(f[n - 1], n - 1)
       PROVE  Good(f[n], n)
  <2> DEFINE vs == f[n - 1]
             ws == f[n]
             d == n - 1
  <2>1. d \in Nat /\ vs \in S /\ ws \in S /\ ws = Searched(A, B, vs, d)
    <3>1. n \in 0 .. N /\ n - 1 \in Nat
      BY <1>1
    <3>2. f[n] \in S
      BY <1>6, <3>1
    <3> QED
      BY <1>7, <3>1, <3>2
  <2>2. Append(vs, Round(A, B, vs[Len(vs)], d)) \in S
    <3> HIDE DEF S
    <3>1. n - 1 \in Int /\ f[n - 1] \in S
      BY <2>1
    <3> QED
      BY <1>4, <3>1
  <2>3. Good(vs, d)
    BY <1>13
  <2> HIDE DEF vs, ws, d
  <2>4. /\ RoundsSoFar(A, B, ws)
        /\ Len(ws) \in 2 .. d + 2
        /\ Len(ws) < d + 2 => Ends(A, B, ws[Len(ws)]) # {}
    BY <2>1, <2>2, <2>3, SearchedSoFar
  <2> QED
    BY <1>1, <2>4 DEF ws, d
<1>14. \A n \in 0 .. N : n \in {i \in 0 .. N : Good(f[i], i)}
  <2> DEFINE T == {i \in 0 .. N : Good(f[i], i)}
  <2> HIDE DEF Good
  <2>1. 0 \in T
    BY <1>1, <1>12
  <2>2. ASSUME NEW n \in 1 .. N, n - 1 \in T
        PROVE  n \in T
    BY <1>1, <1>13, <2>2
  <2> HIDE DEF T
  <2>3. \A n \in 0 .. N : n \in T
    BY <1>1, <2>1, <2>2, UpTo
  <2> QED
    BY <2>3 DEF T
<1>15. Good(f[N], N)
  BY <1>1, <1>14
<1>16. f[N] \in Seq(Fronts)
  BY <1>1, <1>6
<1> QED
  BY <1>1, <1>11, <1>15, <1>16

\* The diagonals of a round, and those next to them in the round before and after.
LEMMA DiagonalsProperties ==
    ASSUME NEW d \in Nat, NEW k \in Diagonals(d)
    PROVE  /\ k \in Int /\ -d <= k /\ k <= d
           /\ d > 0 /\ k # -d => k - 1 \in Diagonals(d - 1)
           /\ d > 0 /\ k # d => k + 1 \in Diagonals(d - 1)
           /\ k + 1 \in Diagonals(d + 1) /\ k - 1 \in Diagonals(d + 1)
           /\ k - 1 \in Diagonals(d - 1) => k # -d
           /\ k + 1 \in Diagonals(d - 1) => k # d
           /\ d = 0 => k = 0
<1>1. k \in Int /\ -d <= k /\ k <= d /\ (k + d) % 2 = 0
  BY DEF Diagonals
<1>2. /\ ((k - 1) + (d - 1)) % 2 = 0 /\ ((k + 1) + (d - 1)) % 2 = 0
      /\ ((k + 1) + (d + 1)) % 2 = 0 /\ ((k - 1) + (d + 1)) % 2 = 0
  BY <1>1
<1>3. k # -d => k - 1 >= -(d - 1)
  BY <1>1
<1>4. k # d => k + 1 <= d - 1
  BY <1>1
<1>5. d > 0 /\ k # -d => k - 1 \in Diagonals(d - 1)
  BY <1>1, <1>2, <1>3 DEF Diagonals
<1>6. d > 0 /\ k # d => k + 1 \in Diagonals(d - 1)
  BY <1>1, <1>2, <1>4 DEF Diagonals
<1>7. k + 1 \in Diagonals(d + 1) /\ k - 1 \in Diagonals(d + 1)
  BY <1>1, <1>2 DEF Diagonals
<1>8. k - 1 \in Diagonals(d - 1) => k # -d
  BY <1>1 DEF Diagonals
<1>9. k + 1 \in Diagonals(d - 1) => k # d
  BY <1>1 DEF Diagonals
<1> QED
  BY <1>1, <1>5, <1>6, <1>7, <1>8, <1>9

\* What every diagonal of a round has reached: a point of the grid, no nearer than
\* its number of edits.
ReachedBy(v, d) ==
    \A k \in Diagonals(d) : /\ k \in DOMAIN v
                            /\ v[k] \in Nat /\ v[k] - k >= 0 /\ 2 * v[k] - k >= d

Prior(v, d, k) == IF ComesDown(v, d, k) THEN k + 1 ELSE k - 1

\* The diagonal a round takes its one edit from is the better of the two.
LEMMA PriorIs ==
    ASSUME NEW v \in Fronts, NEW d \in Nat \ {0}, ReachedBy(v, d - 1), NEW k \in Diagonals(d)
    PROVE  /\ Prior(v, d, k) \in Diagonals(d - 1)
           /\ From(v, Prior(v, d, k)) = v[Prior(v, d, k)]
           /\ Start(v, d, k) = v[Prior(v, d, k)] + (IF ComesDown(v, d, k) THEN 0 ELSE 1)
           /\ k + 1 \in Diagonals(d - 1) => Start(v, d, k) >= v[k + 1]
           /\ k - 1 \in Diagonals(d - 1) => Start(v, d, k) >= v[k - 1] + 1
<1>1. /\ k \in Int
      /\ k # -d => k - 1 \in Diagonals(d - 1)
      /\ k # d => k + 1 \in Diagonals(d - 1)
      /\ k - 1 \in Diagonals(d - 1) => k # -d
      /\ k + 1 \in Diagonals(d - 1) => k # d
  BY DiagonalsProperties
<1>2. ASSUME NEW j \in Diagonals(d - 1)
      PROVE  v[j] \in Nat /\ Reach(v, j) = v[j] /\ From(v, j) = v[j]
  <2>1. j \in DOMAIN v /\ v[j] \in Nat
    BY DEF ReachedBy
  <2>2. Reach(v, j) = v[j] /\ v[j] # -1
    BY <2>1 DEF Reach
  <2> QED
    BY <2>1, <2>2 DEF From
<1>3. CASE ComesDown(v, d, k)
  <2>1. k + 1 \in Diagonals(d - 1)
    <3>1. k = -d => k # d
      OBVIOUS
    <3> QED
      BY <1>1, <1>3, <3>1 DEF ComesDown
  <2>2. Start(v, d, k) = v[k + 1] /\ Prior(v, d, k) = k + 1
    BY <1>2, <1>3, <2>1 DEF Start, Prior
  <2>3. k - 1 \in Diagonals(d - 1) => v[k - 1] < v[k + 1]
    BY <1>1, <1>2, <1>3, <2>1 DEF ComesDown
  <2>4. k - 1 \in Diagonals(d - 1) => v[k - 1] \in Nat
    BY <1>2
  <2> QED
    BY <1>2, <1>3, <2>1, <2>2, <2>3, <2>4
<1>4. CASE ~ComesDown(v, d, k)
  <2>1. k - 1 \in Diagonals(d - 1)
    BY <1>1, <1>4 DEF ComesDown
  <2>2. Start(v, d, k) = v[k - 1] + 1 /\ Prior(v, d, k) = k - 1
    BY <1>2, <1>4, <2>1 DEF Start, Prior
  <2>3. k + 1 \in Diagonals(d - 1) => v[k + 1] \in Nat /\ ~(v[k - 1] < v[k + 1])
    BY <1>1, <1>2, <1>4, <2>1 DEF ComesDown
  <2> QED
    BY <1>2, <1>4, <2>1, <2>2, <2>3
<1> QED
  BY <1>3, <1>4

\* One round, seen from any of its diagonals.
Extends(A, B, v, w, d, k) ==
    /\ Start(v, d, k) \in Nat /\ Start(v, d, k) - k >= 0
    /\ w[k] \in Nat /\ w[k] >= Start(v, d, k)
    /\ \A i \in Start(v, d, k) + 1 .. w[k] : /\ i <= Len(A) /\ i - k <= Len(B)
                                             /\ A[i].text = B[i - k].text
    /\ ~SameNext(A, B, w[k], w[k] - k)

\* A round takes each of its diagonals from its start as far as the tokens agree.
LEMMA RoundExtends ==
    ASSUME NEW A, NEW B, Len(A) \in Nat, Len(B) \in Nat, NEW v \in Fronts, NEW d \in Nat,
           NEW k \in Diagonals(d), Start(v, d, k) \in Nat, Start(v, d, k) - k >= 0
    PROVE  Extends(A, B, v, Round(A, B, v, d), d, k)
<1> DEFINE x == Start(v, d, k)
           w == Round(A, B, v, d)
<1>1. k \in Int /\ x \in Nat /\ x - k >= 0
  BY DiagonalsProperties
<1>2. w[k] = Furthest(A, B, v, d, k)
  BY DEF Round
<1>3. PICK s \in 0 .. Len(A) :
        /\ w[k] = x + s
        /\ \A i \in 1 .. s : x + i <= Len(A) /\ (x - k) + i <= Len(B) /\ A[x + i].text = B[(x - k) + i].text
        /\ x >= 0 => ~SameNext(A, B, x + s, (x - k) + s)
  <2> HIDE DEF w
  <2>1. d \in Int
    OBVIOUS
  <2>2. \E s \in 0 .. Len(A) :
        /\ Furthest(A, B, v, d, k) = x + s
        /\ \A i \in 1 .. s : x + i <= Len(A) /\ (x - k) + i <= Len(B) /\ A[x + i].text = B[(x - k) + i].text
        /\ x >= 0 => ~SameNext(A, B, x + s, (x - k) + s)
    BY <1>1, <2>1, FurthestIs
  <2> QED
    BY <1>2, <2>2
<1> HIDE DEF x, w
<1>4. ASSUME NEW i \in x + 1 .. w[k]
      PROVE  i <= Len(A) /\ i - k <= Len(B) /\ A[i].text = B[i - k].text
  <2>1. i - x \in 1 .. s
    BY <1>1, <1>3
  <2>2. x + (i - x) = i /\ (x - k) + (i - x) = i - k
    BY <1>1
  <2> QED
    BY <1>3, <2>1, <2>2
<1>5. (x - k) + s = w[k] - k
  BY <1>1, <1>3
<1>6. ~SameNext(A, B, w[k], w[k] - k)
  BY <1>1, <1>3, <1>5
<1>7. w[k] \in Nat /\ w[k] >= x
  BY <1>1, <1>3
<1> QED
  BY <1>1, <1>4, <1>6, <1>7 DEF Extends, x, w

\* What a round reaches from a round that reached every diagonal of its own.
LEMMA RoundReaches ==
    ASSUME NEW A, NEW B, Len(A) \in Nat, Len(B) \in Nat, NEW v \in Fronts, NEW d \in Nat \ {0},
           ReachedBy(v, d - 1)
    PROVE  /\ ReachedBy(Round(A, B, v, d), d)
           /\ \A k \in Diagonals(d) : Extends(A, B, v, Round(A, B, v, d), d, k)
<1> DEFINE w == Round(A, B, v, d)
<1>1. ASSUME NEW k \in Diagonals(d)
      PROVE  /\ Extends(A, B, v, w, d, k)
             /\ k \in DOMAIN w /\ w[k] \in Nat /\ w[k] - k >= 0 /\ 2 * w[k] - k >= d
  <2> DEFINE j == Prior(v, d, k)
             x == Start(v, d, k)
  <2>1. k \in Int
    BY DiagonalsProperties
  <2>2. j \in Diagonals(d - 1) /\ x = v[j] + (IF ComesDown(v, d, k) THEN 0 ELSE 1)
    BY PriorIs
  <2>3. v[j] \in Nat /\ v[j] - j >= 0 /\ 2 * v[j] - j >= d - 1
    BY <2>2 DEF ReachedBy
  <2>4. j = k + (IF ComesDown(v, d, k) THEN 1 ELSE -1)
    BY <2>1 DEF Prior
  <2> HIDE DEF j, x
  <2>5. x \in Nat /\ x - k >= 0 /\ 2 * x - k >= d
    <3>1. CASE ComesDown(v, d, k)
      BY <2>1, <2>2, <2>3, <2>4, <3>1
    <3>2. CASE ~ComesDown(v, d, k)
      <4>1. x = v[j] + 1 /\ j = k - 1
        BY <2>1, <2>2, <2>4, <3>2
      <4>2. \A a, b, e \in Int : a >= 0 /\ a - b >= 0 /\ 2 * a - b >= e - 1
              => /\ a + 1 >= 0 /\ (a + 1) - (b + 1) >= 0 /\ 2 * (a + 1) - (b + 1) >= e
        OBVIOUS
      <4>3. v[j] \in Int /\ j \in Int /\ d \in Int /\ j + 1 = k /\ v[j] >= 0
        BY <2>1, <2>3, <4>1
      <4>4. v[j] >= 0 /\ v[j] - j >= 0 /\ 2 * v[j] - j >= d - 1
        BY <2>3, <4>3
      <4>5. v[j] + 1 >= 0 /\ (v[j] + 1) - (j + 1) >= 0 /\ 2 * (v[j] + 1) - (j + 1) >= d
        BY <4>2, <4>3, <4>4
      <4>6. x \in Nat
        BY <4>1, <4>3, <4>5
      <4> QED
        BY <4>1, <4>3, <4>5, <4>6
    <3> QED
      BY <3>1, <3>2
  <2>6. Extends(A, B, v, w, d, k)
    BY <2>5, RoundExtends DEF x
  <2>7. w[k] \in Nat /\ w[k] >= x
    BY <2>6 DEF Extends, x
  <2>8. k \in DOMAIN w
    BY DEF Round
  <2> QED
    BY <2>1, <2>5, <2>6, <2>7, <2>8
<1> QED
  BY <1>1 DEF ReachedBy

\* Every round reaches every diagonal of its own.
LEMMA RoundsReach ==
    ASSUME NEW A, NEW B, Len(A) \in Nat, Len(B) \in Nat, NEW vs \in Seq(Fronts),
           RoundsSoFar(A, B, vs), NEW last \in Nat, Len(vs) = last + 2
    PROVE  /\ \A d \in 0 .. last : ReachedBy(vs[d + 2], d)
           /\ Start(vs[1], 0, 0) = 0 /\ Extends(A, B, vs[1], vs[2], 0, 0)
           /\ \A d \in 1 .. last : \A k \in Diagonals(d) : Extends(A, B, vs[d + 1], vs[d + 2], d, k)
<1>1. \A i \in 1 .. last + 2 : vs[i] \in Fronts
  BY ElementOfSeq
<1>2. \A d \in 0 .. last : vs[d + 2] = Round(A, B, vs[d + 1], d) /\ vs[d + 1] \in Fronts
  <2>1. ASSUME NEW d \in 0 .. last
        PROVE  vs[d + 2] = Round(A, B, vs[d + 1], d) /\ vs[d + 1] \in Fronts
    <3>1. d + 1 \in 1 .. Len(vs) - 1 /\ (d + 1) + 1 = d + 2 /\ (d + 1) - 1 = d
      OBVIOUS
    <3> QED
      BY <1>1, <3>1 DEF RoundsSoFar
  <2> QED
    BY <2>1
<1>3. vs[1] \in Fronts /\ vs[1] = [k \in {1} |-> 0] /\ vs[2] = Round(A, B, vs[1], 0)
  <2>1. 0 \in 0 .. last
    OBVIOUS
  <2> QED
    BY <1>2, <2>1 DEF RoundsSoFar
<1>4. 0 \in Diagonals(0)
  BY DEF Diagonals
<1>5. Start(vs[1], 0, 0) = 0
  <2>1. Reach(vs[1], 1) = 0
    BY <1>3 DEF Reach
  <2>2. From(vs[1], 0 + 1) = 0
    BY <2>1 DEF From
  <2>3. ComesDown(vs[1], 0, 0)
    <3>1. -0 \in Int /\ -0 + 0 = 0
      OBVIOUS
    <3>2. \A i \in Int : i + 0 = 0 => 0 = i
      OBVIOUS
    <3>3. 0 = -0
      BY ONLY <3>1, <3>2
    <3> QED
      BY <3>3 DEF ComesDown
  <2> QED
    BY <2>2, <2>3 DEF Start
<1>6. Extends(A, B, vs[1], vs[2], 0, 0)
  BY <1>3, <1>4, <1>5, RoundExtends
<1>7. ReachedBy(vs[2], 0)
  <2>1. vs[2][0] \in Nat
    BY <1>6 DEF Extends
  <2>2. \A k \in Diagonals(0) : k = 0
    BY DiagonalsProperties
  <2>3. 0 \in DOMAIN vs[2]
    BY <1>3, <1>4 DEF Round
  <2> QED
    BY <2>1, <2>2, <2>3 DEF ReachedBy
<1> DEFINE T == {d \in 0 .. last : ReachedBy(vs[d + 2], d)}
<1>8. 0 \in T
  BY <1>7
<1>9. ASSUME NEW d \in 1 .. last, d - 1 \in T
      PROVE  d \in T /\ \A k \in Diagonals(d) : Extends(A, B, vs[d + 1], vs[d + 2], d, k)
  <2>1. (d - 1) + 2 = d + 1 /\ d \in Nat \ {0} /\ d \in 0 .. last
    OBVIOUS
  <2>2. ReachedBy(vs[d + 1], d - 1)
    BY <1>9, <2>1
  <2> QED
    BY <1>2, <2>1, <2>2, RoundReaches
<1>10. \A d \in 0 .. last : d \in T
  <2> HIDE DEF T
  <2> QED
    BY <1>8, <1>9, UpTo
<1>11. \A d \in 1 .. last : d - 1 \in T
  BY <1>10
<1> QED
  BY <1>5, <1>6, <1>9, <1>10, <1>11

\* Every round takes a diagonal at least as far as one edit from either neighbour.
LEMMA RoundsGrow ==
    ASSUME NEW A, NEW B, Len(A) \in Nat, Len(B) \in Nat, NEW vs \in Seq(Fronts),
           RoundsSoFar(A, B, vs), NEW last \in Nat, Len(vs) = last + 2,
           NEW d \in 1 .. last, NEW k \in Diagonals(d)
    PROVE  /\ vs[d + 1] \in Fronts /\ ReachedBy(vs[d + 1], d - 1) /\ ReachedBy(vs[d + 2], d)
           /\ Extends(A, B, vs[d + 1], vs[d + 2], d, k)
           /\ k + 1 \in Diagonals(d - 1) => vs[d + 2][k] >= vs[d + 1][k + 1]
           /\ k - 1 \in Diagonals(d - 1) => vs[d + 2][k] >= vs[d + 1][k - 1] + 1
<1> DEFINE v == vs[d + 1]
           w == vs[d + 2]
<1>1. v \in Fronts
  <2>1. d + 1 \in 1 .. Len(vs)
    OBVIOUS
  <2> QED
    BY <2>1, ElementOfSeq
<1>2. ReachedBy(v, d - 1) /\ ReachedBy(w, d) /\ Extends(A, B, v, w, d, k)
  <2>1. d - 1 \in 0 .. last /\ (d - 1) + 2 = d + 1 /\ d \in 0 .. last
    OBVIOUS
  <2>2. \A e \in 0 .. last : ReachedBy(vs[e + 2], e)
    BY RoundsReach
  <2>3. ReachedBy(vs[(d - 1) + 2], d - 1) /\ ReachedBy(w, d)
    BY <2>1, <2>2
  <2> QED
    BY <2>1, <2>3, RoundsReach
<1> HIDE DEF v, w
<1>3. d \in Nat \ {0}
  OBVIOUS
<1>4. /\ k + 1 \in Diagonals(d - 1) => Start(v, d, k) >= v[k + 1]
      /\ k - 1 \in Diagonals(d - 1) => Start(v, d, k) >= v[k - 1] + 1
  BY <1>1, <1>2, <1>3, PriorIs
<1>5. w[k] \in Nat /\ Start(v, d, k) \in Nat /\ w[k] >= Start(v, d, k)
  BY <1>2 DEF Extends
<1>6. /\ k + 1 \in Diagonals(d - 1) => v[k + 1] \in Nat
      /\ k - 1 \in Diagonals(d - 1) => v[k - 1] \in Nat
  BY <1>2 DEF ReachedBy
<1> QED
  BY <1>1, <1>2, <1>4, <1>5, <1>6 DEF v, w

\* A diagonal that has left the grid got there from a neighbour that has come as far:
\* it crossed the end of a text by an edit, not over tokens that agree.
LEMMA PastTheFirst ==
    ASSUME NEW A, NEW B, Len(A) \in Nat, Len(B) \in Nat, NEW vs \in Seq(Fronts),
           RoundsSoFar(A, B, vs), NEW last \in Nat, Len(vs) = last + 2
    PROVE  \A d \in 0 .. last : \A k \in Diagonals(d) :
              vs[d + 2][k] > Len(A) => /\ d > 0 /\ k - 1 \in Diagonals(d - 1)
                                      /\ vs[d + 1][k - 1] >= vs[d + 2][k] - 1
<1> DEFINE P(d) == \A k \in Diagonals(d) :
              vs[d + 2][k] > Len(A) => /\ d > 0 /\ k - 1 \in Diagonals(d - 1)
                                      /\ vs[d + 1][k - 1] >= vs[d + 2][k] - 1
           T == {d \in 0 .. last : P(d)}
<1>1. 0 \in T
  <2>1. \A k \in Diagonals(0) : k = 0
    BY DiagonalsProperties
  <2>2. Extends(A, B, vs[1], vs[2], 0, 0) /\ Start(vs[1], 0, 0) = 0
    BY RoundsReach
  <2>3. ASSUME vs[2][0] > Len(A)
        PROVE  FALSE
    <3>1. vs[2][0] \in 0 + 1 .. vs[2][0]
      BY <2>2, <2>3 DEF Extends
    <3>2. vs[2][0] <= Len(A)
      BY <2>2, <3>1 DEF Extends
    <3> QED
      BY <2>2, <2>3, <3>2 DEF Extends
  <2> QED
    BY <2>1, <2>3
<1>2. ASSUME NEW d \in 1 .. last, d - 1 \in T
      PROVE  d \in T
  <2>1. ASSUME NEW k \in Diagonals(d), vs[d + 2][k] > Len(A)
        PROVE  k - 1 \in Diagonals(d - 1) /\ vs[d + 1][k - 1] >= vs[d + 2][k] - 1
    <3> DEFINE v == vs[d + 1]
               w == vs[d + 2]
    <3>1. v \in Fronts /\ ReachedBy(v, d - 1) /\ Extends(A, B, v, w, d, k)
      BY RoundsGrow
    <3>2. \A j \in Diagonals(d - 1) :
              v[j] > Len(A) => /\ d - 1 > 0 /\ j - 1 \in Diagonals(d - 2)
                               /\ vs[d][j - 1] >= v[j] - 1
      <4>1. P(d - 1)
        BY <1>2
      <4>2. (d - 1) + 2 = d + 1 /\ (d - 1) + 1 = d /\ (d - 1) - 1 = d - 2
        OBVIOUS
      <4> QED
        BY <4>1, <4>2
    <3>3. k \in Int /\ d \in Nat \ {0}
      BY DiagonalsProperties
    <3> HIDE DEF v, w, P
    <3>4. /\ Prior(v, d, k) \in Diagonals(d - 1)
          /\ Start(v, d, k) = v[Prior(v, d, k)] + (IF ComesDown(v, d, k) THEN 0 ELSE 1)
      BY <3>1, <3>3, PriorIs
    <3>5. w[k] = Start(v, d, k) /\ w[k] \in Nat
      <4>1. w[k] \in Nat /\ Start(v, d, k) \in Nat /\ w[k] >= Start(v, d, k)
        BY <3>1 DEF Extends
      <4>2. ASSUME w[k] # Start(v, d, k)
            PROVE  FALSE
        <5>1. w[k] \in Start(v, d, k) + 1 .. w[k]
          BY <4>1, <4>2
        <5>2. w[k] <= Len(A)
          BY <3>1, <5>1 DEF Extends
        <5> QED
          BY <2>1, <4>1, <5>2 DEF w
      <4> QED
        BY <4>1, <4>2
    <3>6. w[k] > Len(A)
      BY <2>1 DEF w
    <3>7. CASE ComesDown(v, d, k)
      <4>1. k + 1 \in Diagonals(d - 1) /\ w[k] = v[k + 1] /\ v[k + 1] \in Nat
        BY <3>1, <3>4, <3>5, <3>7 DEF Prior, ReachedBy
      <4>2. d - 1 > 0 /\ (k + 1) - 1 \in Diagonals(d - 2) /\ vs[d][(k + 1) - 1] >= v[k + 1] - 1
        BY <3>2, <3>6, <4>1
      <4>3. k \in Diagonals(d - 2) /\ vs[d][k] >= w[k] - 1 /\ d - 1 \in 1 .. last /\ d - 2 \in Nat
        <5>1. (k + 1) - 1 = k
          BY <3>3
        <5> QED
          BY <4>1, <4>2, <5>1
      <4>4. k - 1 \in Diagonals(d - 1)
        <5>1. (d - 2) + 1 = d - 1
          OBVIOUS
        <5> QED
          BY <4>3, <5>1, DiagonalsProperties
      <4> DEFINE e == d - 1
      <4>5. /\ e \in 1 .. last /\ k - 1 \in Diagonals(e) /\ (k - 1) + 1 = k
            /\ e - 1 = d - 2 /\ e + 1 = d /\ e + 2 = d + 1
        BY <3>3, <4>3, <4>4
      <4> HIDE DEF e
      <4>6. /\ (k - 1) + 1 \in Diagonals(e - 1) => vs[e + 2][k - 1] >= vs[e + 1][(k - 1) + 1]
            /\ ReachedBy(vs[e + 1], e - 1)
        BY <4>5, RoundsGrow
      <4>7. v[k - 1] >= vs[d][k] /\ vs[d][k] \in Nat
        BY <4>3, <4>5, <4>6 DEF v, ReachedBy
      <4>8. v[k - 1] \in Nat
        BY <3>1, <4>4 DEF ReachedBy
      <4> QED
        BY <3>5, <4>3, <4>4, <4>7, <4>8 DEF v, w
    <3>8. CASE ~ComesDown(v, d, k)
      <4>1. k - 1 \in Diagonals(d - 1) /\ w[k] = v[k - 1] + 1 /\ v[k - 1] \in Nat
        BY <3>1, <3>4, <3>5, <3>8 DEF Prior, ReachedBy
      <4>2. v[k - 1] >= w[k] - 1
        BY <4>1
      <4> QED
        BY <4>1, <4>2 DEF v, w
    <3> QED
      BY <3>7, <3>8
  <2>2. P(d)
    BY <2>1
  <2> QED
    BY <2>2
<1>3. \A d \in 0 .. last : d \in T
  <2> HIDE DEF T
  <2> QED
    BY <1>1, <1>2, UpTo
<1> QED
  BY <1>3

\* The same at the end of the second text.
LEMMA PastTheSecond ==
    ASSUME NEW A, NEW B, Len(A) \in Nat, Len(B) \in Nat, NEW vs \in Seq(Fronts),
           RoundsSoFar(A, B, vs), NEW last \in Nat, Len(vs) = last + 2
    PROVE  \A d \in 0 .. last : \A k \in Diagonals(d) :
              vs[d + 2][k] - k > Len(B) => /\ d > 0 /\ k + 1 \in Diagonals(d - 1)
                                          /\ vs[d + 1][k + 1] >= vs[d + 2][k]
<1> DEFINE P(d) == \A k \in Diagonals(d) :
              vs[d + 2][k] - k > Len(B) => /\ d > 0 /\ k + 1 \in Diagonals(d - 1)
                                          /\ vs[d + 1][k + 1] >= vs[d + 2][k]
           T == {d \in 0 .. last : P(d)}
<1>1. 0 \in T
  <2>1. \A k \in Diagonals(0) : k = 0
    BY DiagonalsProperties
  <2>2. Extends(A, B, vs[1], vs[2], 0, 0) /\ Start(vs[1], 0, 0) = 0
    BY RoundsReach
  <2>3. ASSUME vs[2][0] - 0 > Len(B)
        PROVE  FALSE
    <3>1. vs[2][0] \in 0 + 1 .. vs[2][0]
      BY <2>2, <2>3 DEF Extends
    <3>2. vs[2][0] - 0 <= Len(B)
      BY <2>2, <3>1 DEF Extends
    <3> QED
      BY <2>2, <2>3, <3>2 DEF Extends
  <2> QED
    BY <2>1, <2>3
<1>2. ASSUME NEW d \in 1 .. last, d - 1 \in T
      PROVE  d \in T
  <2>1. ASSUME NEW k \in Diagonals(d), vs[d + 2][k] - k > Len(B)
        PROVE  k + 1 \in Diagonals(d - 1) /\ vs[d + 1][k + 1] >= vs[d + 2][k]
    <3> DEFINE v == vs[d + 1]
               w == vs[d + 2]
    <3>1. v \in Fronts /\ ReachedBy(v, d - 1) /\ Extends(A, B, v, w, d, k)
      BY RoundsGrow
    <3>2. \A j \in Diagonals(d - 1) :
              v[j] - j > Len(B) => /\ d - 1 > 0 /\ j + 1 \in Diagonals(d - 2)
                                   /\ vs[d][j + 1] >= v[j]
      <4>1. P(d - 1)
        BY <1>2
      <4>2. (d - 1) + 2 = d + 1 /\ (d - 1) + 1 = d /\ (d - 1) - 1 = d - 2
        OBVIOUS
      <4> QED
        BY <4>1, <4>2
    <3>3. k \in Int /\ d \in Nat \ {0}
      BY DiagonalsProperties
    <3> HIDE DEF v, w, P
    <3>4. /\ Prior(v, d, k) \in Diagonals(d - 1)
          /\ Start(v, d, k) = v[Prior(v, d, k)] + (IF ComesDown(v, d, k) THEN 0 ELSE 1)
      BY <3>1, <3>3, PriorIs
    <3>6. w[k] - k > Len(B)
      BY <2>1 DEF w
    <3>5. w[k] = Start(v, d, k) /\ w[k] \in Nat
      <4>1. w[k] \in Nat /\ Start(v, d, k) \in Nat /\ w[k] >= Start(v, d, k)
        BY <3>1 DEF Extends
      <4>2. ASSUME w[k] # Start(v, d, k)
            PROVE  FALSE
        <5>1. w[k] \in Start(v, d, k) + 1 .. w[k]
          BY <4>1, <4>2
        <5>2. w[k] - k <= Len(B)
          BY <3>1, <5>1 DEF Extends
        <5> QED
          BY <3>3, <3>6, <4>1, <5>2
      <4> QED
        BY <4>1, <4>2
    <3>7. CASE ~ComesDown(v, d, k)
      <4>1. k - 1 \in Diagonals(d - 1) /\ w[k] = v[k - 1] + 1 /\ v[k - 1] \in Nat
        BY <3>1, <3>4, <3>5, <3>7 DEF Prior, ReachedBy
      <4>2. d - 1 > 0 /\ (k - 1) + 1 \in Diagonals(d - 2) /\ vs[d][(k - 1) + 1] >= v[k - 1]
        <5>1. v[k - 1] - (k - 1) > Len(B)
          BY <3>3, <3>6, <4>1
        <5> QED
          BY <3>2, <4>1, <5>1
      <4>3. k \in Diagonals(d - 2) /\ vs[d][k] >= w[k] - 1 /\ d - 1 \in 1 .. last /\ d - 2 \in Nat
        <5>1. (k - 1) + 1 = k
          BY <3>3
        <5> QED
          BY <4>1, <4>2, <5>1
      <4>4. k + 1 \in Diagonals(d - 1)
        <5>1. (d - 2) + 1 = d - 1
          OBVIOUS
        <5> QED
          BY <4>3, <5>1, DiagonalsProperties
      <4> DEFINE e == d - 1
      <4>5. /\ e \in 1 .. last /\ k + 1 \in Diagonals(e) /\ (k + 1) - 1 = k
            /\ e - 1 = d - 2 /\ e + 1 = d /\ e + 2 = d + 1
        BY <3>3, <4>3, <4>4
      <4> HIDE DEF e
      <4>6. /\ (k + 1) - 1 \in Diagonals(e - 1) => vs[e + 2][k + 1] >= vs[e + 1][(k + 1) - 1] + 1
            /\ ReachedBy(vs[e + 1], e - 1)
        BY <4>5, RoundsGrow
      <4>7. v[k + 1] >= vs[d][k] + 1 /\ vs[d][k] \in Nat
        BY <4>3, <4>5, <4>6 DEF v, ReachedBy
      <4>8. v[k + 1] \in Nat
        BY <3>1, <4>4 DEF ReachedBy
      <4> QED
        BY <3>5, <4>3, <4>4, <4>7, <4>8, SMTT(60) DEF v, w
    <3>8. CASE ComesDown(v, d, k)
      <4>1. k + 1 \in Diagonals(d - 1) /\ w[k] = v[k + 1] /\ v[k + 1] \in Nat
        BY <3>1, <3>4, <3>5, <3>8 DEF Prior, ReachedBy
      <4>2. v[k + 1] >= w[k]
        BY <4>1
      <4> QED
        BY <4>1, <4>2 DEF v, w
    <3> QED
      BY <3>7, <3>8
  <2>2. P(d)
    BY <2>1
  <2> QED
    BY <2>2
<1>3. \A d \in 0 .. last : d \in T
  <2> HIDE DEF T
  <2> QED
    BY <1>1, <1>2, UpTo
<1> QED
  BY <1>3

\* The search stops at a round in which exactly the diagonal of the two ends, and it
\* alone, has reached both, and has not gone past them.
LEMMA SearchEnds ==
    ASSUME NEW A, NEW B, Len(A) \in Nat, Len(B) \in Nat, NEW vs, vs = Rounds(A, B),
           NEW last, last = Len(vs) - 2
    PROVE  /\ vs \in Seq(Fronts) /\ RoundsSoFar(A, B, vs)
           /\ last \in 0 .. Len(A) + Len(B) /\ Len(vs) = last + 2
           /\ Len(A) - Len(B) \in Diagonals(last)
           /\ vs[last + 2][Len(A) - Len(B)] = Len(A)
           /\ Ends(A, B, vs[last + 2]) = {Len(A) - Len(B)}
<1> DEFINE n == Len(A)
           m == Len(B)
           w == vs[last + 2]
<1>1. /\ vs \in Seq(Fronts) /\ RoundsSoFar(A, B, vs)
      /\ Len(vs) \in 2 .. n + m + 2
      /\ Len(vs) < n + m + 2 => Ends(A, B, vs[Len(vs)]) # {}
  BY RoundsAre
<1>2. last \in 0 .. n + m /\ Len(vs) = last + 2 /\ last \in Nat
  BY <1>1
<1>3. ReachedBy(w, last) /\ w \in Fronts
  <2>1. \A d \in 0 .. last : ReachedBy(vs[d + 2], d)
    BY <1>1, <1>2, RoundsReach
  <2>2. last \in 0 .. last /\ last + 2 \in 1 .. Len(vs)
    BY <1>2
  <2> QED
    BY <1>1, <2>1, <2>2, ElementOfSeq
<1>4. Ends(A, B, w) # {}
  <2>1. CASE Len(vs) < n + m + 2
    BY <1>1, <1>2, <2>1
  <2>2. CASE ~(Len(vs) < n + m + 2)
    <3>1. last = n + m
      BY <1>1, <1>2, <2>2
    <3>2. n - m \in Diagonals(last)
      <4>1. (n - m) + (n + m) = 2 * n /\ (2 * n) % 2 = 0
        OBVIOUS
      <4>2. n - m \in -(n + m) .. n + m
        OBVIOUS
      <4> QED
        BY <3>1, <4>1, <4>2 DEF Diagonals
    <3>3. n - m \in DOMAIN w /\ w[n - m] \in Nat /\ 2 * w[n - m] - (n - m) >= last
      BY <1>3, <3>2 DEF ReachedBy
    <3>4. w[n - m] >= n /\ w[n - m] - (n - m) >= m
      BY <3>1, <3>3
    <3>5. n - m \in Ends(A, B, w)
      BY <3>3, <3>4 DEF Ends
    <3> QED
      BY <3>5
  <2> QED
    BY <2>1, <2>2
<1>5. ASSUME NEW d \in 1 .. last, NEW j \in Diagonals(d - 1), vs[d + 1][j] >= n, vs[d + 1][j] - j >= m
      PROVE  FALSE
  <2>1. d + 1 \in 2 .. Len(vs) - 1 /\ d - 1 \in 0 .. last /\ (d - 1) + 2 = d + 1
    BY <1>2
  <2>2. ReachedBy(vs[(d - 1) + 2], d - 1)
    BY <1>1, <1>2, <2>1, RoundsReach
  <2>3. j \in DOMAIN vs[d + 1]
    BY <2>1, <2>2 DEF ReachedBy
  <2>4. j \in Ends(A, B, vs[d + 1])
    BY <1>5, <2>3 DEF Ends
  <2>5. Ends(A, B, vs[d + 1]) = {}
    BY <1>1, <2>1 DEF RoundsSoFar
  <2> QED
    BY <2>4, <2>5
<1>6. ASSUME NEW k \in Ends(A, B, w)
      PROVE  k = n - m /\ k \in Diagonals(last) /\ w[k] = n
  <2>1. k \in DOMAIN w /\ w[k] >= n /\ w[k] - k >= m /\ k \in Int
    BY <1>3, FrontsProperties DEF Ends
  <2>2. k \in Diagonals(last)
    <3>1. SUFFICES ASSUME k \notin Diagonals(last)
                   PROVE  FALSE
      OBVIOUS
    <3>2. last + 1 \in 1 .. Len(vs) - 1 /\ (last + 1) + 1 = last + 2 /\ (last + 1) - 1 = last
      BY <1>2
    <3>3. w = Round(A, B, vs[last + 1], last)
      BY <1>1, <3>2 DEF RoundsSoFar
    <3>4. k \in DOMAIN vs[last + 1] /\ w[k] = vs[last + 1][k]
      BY <2>1, <3>1, <3>3 DEF Round
    <3>5. CASE last = 0
      <4>1. vs[1] = [i \in {1} |-> 0] /\ last + 1 = 1
        BY <1>1, <3>5 DEF RoundsSoFar
      <4>2. k = 1 /\ w[k] = 0
        BY <3>4, <4>1
      <4> QED
        BY <2>1, <4>2
    <3>6. CASE last # 0
      <4>1. last + 1 \in 2 .. Len(vs) - 1
        BY <1>2, <3>6
      <4>2. Ends(A, B, vs[last + 1]) = {}
        BY <1>1, <4>1 DEF RoundsSoFar
      <4>3. k \in Ends(A, B, vs[last + 1])
        BY <2>1, <3>4 DEF Ends
      <4> QED
        BY <4>2, <4>3
    <3> QED
      BY <3>5, <3>6
  <2>3. w[k] \in Nat
    BY <1>3, <2>2 DEF ReachedBy
  <2>4. last \in 0 .. last
    BY <1>2
  <2>5. ~(w[k] > n)
    <3>1. SUFFICES ASSUME w[k] > n
                   PROVE  FALSE
      OBVIOUS
    <3>2. last > 0 /\ k - 1 \in Diagonals(last - 1) /\ vs[last + 1][k - 1] >= w[k] - 1
      BY <1>1, <1>2, <2>2, <2>4, <3>1, PastTheFirst
    <3>3. last \in 1 .. last
      BY <1>2, <3>2
    <3>4. ReachedBy(vs[last + 1], last - 1)
      BY <1>1, <1>2, <2>2, <3>3, RoundsGrow
    <3>5. vs[last + 1][k - 1] \in Nat
      BY <3>2, <3>4 DEF ReachedBy
    <3>6. vs[last + 1][k - 1] >= n /\ vs[last + 1][k - 1] - (k - 1) >= m
      BY <2>1, <2>3, <3>1, <3>2, <3>5
    <3> QED
      BY <1>5, <3>2, <3>3, <3>6
  <2>6. ~(w[k] - k > m)
    <3>1. SUFFICES ASSUME w[k] - k > m
                   PROVE  FALSE
      OBVIOUS
    <3>2. last > 0 /\ k + 1 \in Diagonals(last - 1) /\ vs[last + 1][k + 1] >= w[k]
      BY <1>1, <1>2, <2>2, <2>4, <3>1, PastTheSecond
    <3>3. last \in 1 .. last
      BY <1>2, <3>2
    <3>4. ReachedBy(vs[last + 1], last - 1)
      BY <1>1, <1>2, <2>2, <3>3, RoundsGrow
    <3>5. vs[last + 1][k + 1] \in Nat
      BY <3>2, <3>4 DEF ReachedBy
    <3>6. vs[last + 1][k + 1] >= n /\ vs[last + 1][k + 1] - (k + 1) >= m
      BY <2>1, <2>3, <3>1, <3>2, <3>5
    <3> QED
      BY <1>5, <3>2, <3>3, <3>6
  <2>7. w[k] = n /\ w[k] - k = m
    BY <2>1, <2>3, <2>5, <2>6
  <2> QED
    BY <2>1, <2>2, <2>7
<1>7. Ends(A, B, w) = {n - m} /\ n - m \in Diagonals(last) /\ w[n - m] = n
  <2> HIDE DEF n, m, w
  <2>1. PICK k \in Ends(A, B, w) : TRUE
    BY <1>4
  <2> QED
    BY <1>6, <2>1
<1> QED
  BY <1>1, <1>2, <1>7

----------------
\* Edit scripts: a walk over the grid of the two texts, with its number of edits.
Op == [op : {"EQUAL", "DELETE", "INSERT"}, a : Int, b : Int]

Move(A, B, o, x, y, tox, toy) ==
    \/ /\ o.op = "EQUAL" /\ tox = x + 1 /\ toy = y + 1 /\ o.a = tox /\ o.b = toy
       /\ tox <= Len(A) /\ toy <= Len(B) /\ A[tox].text = B[toy].text
    \/ o.op = "DELETE" /\ tox = x + 1 /\ toy = y /\ o.a = tox /\ tox <= Len(A)
    \/ o.op = "INSERT" /\ tox = x /\ toy = y + 1 /\ o.b = toy /\ toy <= Len(B)

Walk(A, B, ops, X, Y, E) ==
    /\ X \in [0 .. Len(ops) -> Nat] /\ Y \in [0 .. Len(ops) -> Nat] /\ E \in [0 .. Len(ops) -> Nat]
    /\ E[0] = 0
    /\ \A i \in 1 .. Len(ops) :
        /\ Move(A, B, ops[i], X[i - 1], Y[i - 1], X[i], Y[i])
        /\ E[i] = E[i - 1] + (IF ops[i].op = "EQUAL" THEN 0 ELSE 1)

\* ops leads from one point to another with e edits.
Leads(A, B, ops, x, y, tox, toy, e) ==
    \E X, Y, E : /\ Walk(A, B, ops, X, Y, E)
                 /\ X[0] = x /\ Y[0] = y
                 /\ X[Len(ops)] = tox /\ Y[Len(ops)] = toy /\ E[Len(ops)] = e

\* The empty script stays where it is.
LEMMA LeadsNowhere ==
    ASSUME NEW A, NEW B, NEW x \in Nat, NEW y \in Nat
    PROVE  Leads(A, B, <<>>, x, y, x, y, 0)
<1> DEFINE X == [i \in 0 .. 0 |-> x]
           Y == [i \in 0 .. 0 |-> y]
           E == [i \in 0 .. 0 |-> 0]
<1>1. Len(<<>>) = 0
  OBVIOUS
<1>2. Walk(A, B, <<>>, X, Y, E)
  BY <1>1 DEF Walk
<1>3. X[0] = x /\ Y[0] = y /\ E[0] = 0
  OBVIOUS
<1> HIDE DEF X, Y, E
<1> QED
  BY <1>1, <1>2, <1>3 DEF Leads

\* One more operation in front.
LEMMA LeadsPrepend ==
    ASSUME NEW A, NEW B, NEW ops \in Seq(Op), NEW o \in Op, NEW x \in Nat, NEW y \in Nat,
           NEW x1, NEW y1, NEW x2, NEW y2, NEW e,
           Leads(A, B, ops, x1, y1, x2, y2, e), Move(A, B, o, x, y, x1, y1)
    PROVE  Leads(A, B, <<o>> \o ops, x, y, x2, y2, e + (IF o.op = "EQUAL" THEN 0 ELSE 1))
<1> DEFINE L == Len(ops)
           inc == IF o.op = "EQUAL" THEN 0 ELSE 1
           all == <<o>> \o ops
<1>1. /\ L \in Nat /\ all \in Seq(Op) /\ Len(all) = L + 1
      /\ all[1] = o /\ \A i \in 2 .. L + 1 : all[i] = ops[i - 1]
  BY LenProperties, ConcatProperties
<1>2. PICK X, Y, E : /\ Walk(A, B, ops, X, Y, E)
                     /\ X[0] = x1 /\ Y[0] = y1
                     /\ X[L] = x2 /\ Y[L] = y2 /\ E[L] = e
  BY DEF Leads
<1>3. /\ X \in [0 .. L -> Nat] /\ Y \in [0 .. L -> Nat] /\ E \in [0 .. L -> Nat] /\ E[0] = 0
      /\ \A i \in 1 .. L : /\ Move(A, B, ops[i], X[i - 1], Y[i - 1], X[i], Y[i])
                           /\ E[i] = E[i - 1] + (IF ops[i].op = "EQUAL" THEN 0 ELSE 1)
  BY <1>2 DEF Walk
<1> DEFINE X1 == [i \in 0 .. L + 1 |-> IF i = 0 THEN x ELSE X[i - 1]]
           Y1 == [i \in 0 .. L + 1 |-> IF i = 0 THEN y ELSE Y[i - 1]]
           E1 == [i \in 0 .. L + 1 |-> IF i = 0 THEN 0 ELSE E[i - 1] + inc]
<1>4. inc \in Nat
  OBVIOUS
<1> HIDE DEF all, inc, L
<1>5. X1 \in [0 .. L + 1 -> Nat] /\ Y1 \in [0 .. L + 1 -> Nat] /\ E1 \in [0 .. L + 1 -> Nat]
  <2>1. \A i \in 0 .. L + 1 : i = 0 \/ i - 1 \in 0 .. L
    BY <1>1
  <2> QED
    BY <1>3, <1>4, <2>1
<1>6. ASSUME NEW i \in 1 .. L + 1
      PROVE  /\ Move(A, B, all[i], X1[i - 1], Y1[i - 1], X1[i], Y1[i])
             /\ E1[i] = E1[i - 1] + (IF all[i].op = "EQUAL" THEN 0 ELSE 1)
  <2>1. X1[i] = X[i - 1] /\ Y1[i] = Y[i - 1] /\ E1[i] = E[i - 1] + inc
    BY <1>1
  <2>2. CASE i = 1
    <3>1. X1[i - 1] = x /\ Y1[i - 1] = y /\ E1[i - 1] = 0 /\ all[i] = o
      BY <1>1, <2>2
    <3>2. X1[i] = x1 /\ Y1[i] = y1 /\ E1[i] = inc
      BY <1>2, <1>3, <1>4, <2>1, <2>2
    <3> QED
      BY <1>4, <3>1, <3>2 DEF inc
  <2>3. CASE i # 1
    <3>1. i - 1 \in 1 .. L /\ i - 1 # 0 /\ i - 1 \in 0 .. L + 1 /\ i - 2 \in 0 .. L /\ (i - 1) - 1 = i - 2
      BY <1>1, <2>3
    <3>2. X1[i - 1] = X[i - 2] /\ Y1[i - 1] = Y[i - 2] /\ E1[i - 1] = E[i - 2] + inc
      BY <3>1
    <3>3. all[i] = ops[i - 1]
      BY <1>1, <2>3
    <3>4. /\ Move(A, B, ops[i - 1], X[i - 2], Y[i - 2], X[i - 1], Y[i - 1])
          /\ E[i - 1] = E[i - 2] + (IF ops[i - 1].op = "EQUAL" THEN 0 ELSE 1)
      BY <1>3, <3>1
    <3>5. E[i - 2] \in Nat /\ E[i - 1] \in Nat
      <4>1. i - 1 \in 0 .. L
        BY <1>1, <3>1
      <4> QED
        BY <1>3, <3>1, <4>1
    <3>6. E1[i] = E1[i - 1] + (IF all[i].op = "EQUAL" THEN 0 ELSE 1)
      BY <1>4, <2>1, <3>2, <3>3, <3>4, <3>5
    <3> QED
      BY <2>1, <3>2, <3>3, <3>4, <3>6
  <2> QED
    BY <2>2, <2>3
<1>7. /\ X1[0] = x /\ Y1[0] = y /\ E1[0] = 0
      /\ X1[L + 1] = x2 /\ Y1[L + 1] = y2 /\ E1[L + 1] = e + inc
  <2>1. L + 1 \in 0 .. L + 1 /\ L + 1 # 0 /\ (L + 1) - 1 = L /\ 0 \in 0 .. L + 1
    BY <1>1
  <2> QED
    BY <1>2, <2>1
<1> HIDE DEF X1, Y1, E1
<1>8. Walk(A, B, all, X1, Y1, E1)
  BY <1>1, <1>5, <1>6, <1>7 DEF Walk
<1> QED
  BY <1>1, <1>7, <1>8 DEF Leads, all, inc

\* A run of equal tokens, entry by entry.
LEMMA EqualsProperties ==
    ASSUME NEW x \in Int, NEW y \in Int, NEW c \in Nat
    PROVE  /\ Equals(x, y, c) \in Seq(Op) /\ Len(Equals(x, y, c)) = c
           /\ \A i \in 1 .. c : Equals(x, y, c)[i] = [op |-> "EQUAL", a |-> x + i, b |-> y + i]
<1>1. \A i \in 1 .. c : [op |-> "EQUAL", a |-> x + i, b |-> y + i] \in Op
  BY DEF Op
<1>2. Equals(x, y, c) \in [1 .. c -> Op]
  BY <1>1 DEF Equals
<1> QED
  BY <1>2 DEF Equals

\* A run of equal tokens in front.
LEMMA LeadsEquals ==
    ASSUME NEW A, NEW B, NEW ops \in Seq(Op), NEW x \in Nat, NEW y \in Nat, NEW c \in Nat,
           NEW x2, NEW y2, NEW e, Leads(A, B, ops, x + c, y + c, x2, y2, e),
           \A i \in 1 .. c : /\ x + i <= Len(A) /\ y + i <= Len(B)
                             /\ A[x + i].text = B[y + i].text
    PROVE  Leads(A, B, Equals(x, y, c) \o ops, x, y, x2, y2, e)
<1> DEFINE L == Len(ops)
           run == Equals(x, y, c)
           all == run \o ops
<1>1. /\ run \in Seq(Op) /\ Len(run) = c
      /\ \A i \in 1 .. c : run[i] = [op |-> "EQUAL", a |-> x + i, b |-> y + i]
  <2>1. x \in Int /\ y \in Int
    OBVIOUS
  <2> QED
    BY <2>1, EqualsProperties
<1> HIDE DEF run
<1>2. /\ L \in Nat /\ all \in Seq(Op) /\ Len(all) = c + L
      /\ \A i \in 1 .. c : all[i] = run[i]
      /\ \A i \in c + 1 .. c + L : all[i] = ops[i - c]
  <2>1. L \in Nat
    BY LenProperties
  <2>2. /\ all \in Seq(Op) /\ Len(all) = Len(run) + Len(ops)
        /\ \A i \in 1 .. Len(run) + Len(ops) :
              all[i] = IF i <= Len(run) THEN run[i] ELSE ops[i - Len(run)]
    <3>1. \A s, t \in Seq(Op) :
            /\ s \o t \in Seq(Op) /\ Len(s \o t) = Len(s) + Len(t)
            /\ \A i \in 1 .. Len(s) + Len(t) : (s \o t)[i] = IF i <= Len(s) THEN s[i] ELSE t[i - Len(s)]
      BY ConcatProperties
    <3> QED
      BY <1>1, <3>1
  <2> HIDE DEF all
  <2>3. \A i \in 1 .. c + L : all[i] = IF i <= c THEN run[i] ELSE ops[i - c]
    BY <1>1, <2>2
  <2>4. \A i \in 1 .. c : i \in 1 .. c + L /\ i <= c
    BY <2>1
  <2>5. \A i \in c + 1 .. c + L : i \in 1 .. c + L /\ ~(i <= c)
    BY <2>1
  <2> QED
    BY <1>1, <2>1, <2>2, <2>3, <2>4, <2>5
<1>3. PICK X, Y, E : /\ Walk(A, B, ops, X, Y, E)
                     /\ X[0] = x + c /\ Y[0] = y + c
                     /\ X[L] = x2 /\ Y[L] = y2 /\ E[L] = e
  BY DEF Leads
<1>4. /\ X \in [0 .. L -> Nat] /\ Y \in [0 .. L -> Nat] /\ E \in [0 .. L -> Nat] /\ E[0] = 0
      /\ \A i \in 1 .. L : /\ Move(A, B, ops[i], X[i - 1], Y[i - 1], X[i], Y[i])
                           /\ E[i] = E[i - 1] + (IF ops[i].op = "EQUAL" THEN 0 ELSE 1)
  BY <1>3 DEF Walk
<1> DEFINE X1 == [i \in 0 .. c + L |-> IF i <= c THEN x + i ELSE X[i - c]]
           Y1 == [i \in 0 .. c + L |-> IF i <= c THEN y + i ELSE Y[i - c]]
           E1 == [i \in 0 .. c + L |-> IF i <= c THEN 0 ELSE E[i - c]]
<1> HIDE DEF all, L
<1>5. X1 \in [0 .. c + L -> Nat] /\ Y1 \in [0 .. c + L -> Nat] /\ E1 \in [0 .. c + L -> Nat]
  <2>1. \A i \in 0 .. c + L : (i <= c /\ x + i \in Nat /\ y + i \in Nat) \/ (~(i <= c) /\ i - c \in 0 .. L)
    BY <1>2
  <2> QED
    BY <1>4, <2>1
<1>6. ASSUME NEW i \in 1 .. c + L
      PROVE  /\ Move(A, B, all[i], X1[i - 1], Y1[i - 1], X1[i], Y1[i])
             /\ E1[i] = E1[i - 1] + (IF all[i].op = "EQUAL" THEN 0 ELSE 1)
  <2>1. i \in 0 .. c + L /\ i - 1 \in 0 .. c + L
    BY <1>2
  <2>2. CASE i <= c
    <3>1. X1[i - 1] = x + (i - 1) /\ Y1[i - 1] = y + (i - 1) /\ E1[i - 1] = 0
      BY <1>2, <2>1, <2>2
    <3>2. X1[i] = x + i /\ Y1[i] = y + i /\ E1[i] = 0
      BY <1>2, <2>1, <2>2
    <3>3. i \in 1 .. c
      BY <1>2, <2>2
    <3>4. all[i].op = "EQUAL" /\ all[i].a = x + i /\ all[i].b = y + i
      BY <1>1, <1>2, <3>3
    <3>5. x + i = (x + (i - 1)) + 1 /\ y + i = (y + (i - 1)) + 1
      OBVIOUS
    <3> QED
      BY <3>1, <3>2, <3>3, <3>4, <3>5 DEF Move
  <2>3. CASE ~(i <= c)
    <3>1. i - c \in 1 .. L /\ (i - c) - 1 \in 0 .. L /\ (i - 1) - c = (i - c) - 1 /\ i \in c + 1 .. c + L
      BY <1>2, <2>3
    <3>2. X1[i] = X[i - c] /\ Y1[i] = Y[i - c] /\ E1[i] = E[i - c]
      BY <2>1, <2>3
    <3>3. /\ X1[i - 1] = X[(i - c) - 1] /\ Y1[i - 1] = Y[(i - c) - 1] /\ E1[i - 1] = E[(i - c) - 1]
      <4>1. CASE i - 1 <= c
        <5>1. i - 1 = c /\ (i - c) - 1 = 0
          <6>1. i \in Int /\ c \in Int
            BY <1>2
          <6> QED
            BY <2>3, <4>1, <6>1
        <5>2. X1[i - 1] = x + c /\ Y1[i - 1] = y + c /\ E1[i - 1] = 0
          BY <2>1, <5>1
        <5> QED
          BY <1>3, <1>4, <5>1, <5>2
      <4>2. CASE ~(i - 1 <= c)
        BY <2>1, <3>1, <4>2
      <4> QED
        BY <4>1, <4>2
    <3>4. all[i] = ops[i - c]
      BY <1>2, <3>1
    <3> HIDE DEF X1, Y1, E1
    <3>5. /\ Move(A, B, ops[i - c], X[(i - c) - 1], Y[(i - c) - 1], X[i - c], Y[i - c])
          /\ E[i - c] = E[(i - c) - 1] + (IF ops[i - c].op = "EQUAL" THEN 0 ELSE 1)
      BY <1>4, <3>1
    <3> QED
      BY <3>2, <3>3, <3>4, <3>5
  <2> QED
    BY <2>2, <2>3
<1>7. X1[0] = x /\ Y1[0] = y /\ E1[0] = 0
  BY <1>2
<1>8. X1[c + L] = x2 /\ Y1[c + L] = y2 /\ E1[c + L] = e
  <2>1. c + L \in 0 .. c + L /\ (c + L) - c = L /\ (c + L <= c => L = 0 /\ c + L = c)
    BY <1>2
  <2>2. CASE c + L <= c
    BY <1>3, <1>4, <2>1, <2>2
  <2>3. CASE ~(c + L <= c)
    BY <1>3, <2>1, <2>3
  <2> QED
    BY <2>2, <2>3
<1> HIDE DEF X1, Y1, E1
<1>9. Walk(A, B, all, X1, Y1, E1)
  BY <1>2, <1>5, <1>6, <1>7 DEF Walk
<1> QED
  BY <1>2, <1>7, <1>8, <1>9 DEF Leads, all, run

----------------
\* The way back.
Back == [x : Int, y : Int, k : Int, ops : Str(Op)]

\* The least of two numbers.
LEMMA LeastOfTwo ==
    ASSUME NEW a \in Int, NEW b \in Int
    PROVE  Least({a, b}) = IF a <= b THEN a ELSE b
<1>1. CASE a <= b
  <2>1. \A y \in {a, b} : a <= y
    BY <1>1
  <2> QED
    BY <1>1, <2>1, LeastIs
<1>2. CASE ~(a <= b)
  <2>1. \A y \in {a, b} : b <= y
    BY <1>2
  <2> QED
    BY <1>2, <2>1, LeastIs
<1> QED
  BY <1>1, <1>2

\* One step of the way back: its parts, by name.
LEMMA StepBackIs ==
    ASSUME NEW v \in Fronts, NEW d \in Int, NEW at \in Back
    PROVE  LET k == Prior(v, d, at.k)
               x == From(v, k)
               down == ComesDown(v, d, at.k)
               stepX == x + (IF down THEN 0 ELSE 1)
               stepY == x - k + (IF down THEN 1 ELSE 0)
               edit == IF down THEN [op |-> "INSERT", a |-> x, b |-> x - k + 1]
                               ELSE [op |-> "DELETE", a |-> x + 1, b |-> x - k]
               run == Least({at.x - stepX, at.y - stepY})
           IN  /\ StepBack(v, d, at) =
                      [x |-> x, y |-> x - k, k |-> k, ops |-> <<edit>> \o Equals(stepX, stepY, run) \o at.ops]
               /\ k \in Int /\ x \in Int /\ edit \in Op
<1>1. at.x \in Int /\ at.y \in Int /\ at.k \in Int /\ at.ops \in Str(Op)
  BY DEF Back
<1> DEFINE k == Prior(v, d, at.k)
           x == From(v, k)
<1>2. k \in Int
  BY <1>1 DEF Prior
<1>3. x \in Int
  BY FrontsProperties
<1>4. CASE ComesDown(v, d, at.k)
  <2>1. k = at.k + 1 /\ x + 0 = x
    BY <1>3, <1>4 DEF Prior
  <2>2. [op |-> "INSERT", a |-> x, b |-> x - k + 1] \in Op
    BY <1>2, <1>3 DEF Op
  <2> QED
    BY <1>2, <1>3, <1>4, <2>1, <2>2 DEF StepBack
<1>5. CASE ~ComesDown(v, d, at.k)
  <2>1. k = at.k - 1 /\ (x - k) + 0 = x - k
    BY <1>2, <1>3, <1>5 DEF Prior
  <2>2. [op |-> "DELETE", a |-> x + 1, b |-> x - k] \in Op
    BY <1>2, <1>3 DEF Op
  <2> QED
    BY <1>2, <1>3, <1>5, <2>1, <2>2 DEF StepBack
<1> QED
  BY <1>4, <1>5

\* A run of equal tokens is a script.
LEMMA EqualsType ==
    ASSUME NEW x \in Int, NEW y \in Int, NEW c \in Int
    PROVE  Equals(x, y, c) \in Str(Op)
<1>1. CASE c \in Nat
  BY <1>1, EqualsProperties DEF Str
<1>2. CASE c \notin Nat
  <2>1. 1 .. c = 1 .. 0
    BY <1>2
  <2>2. Equals(x, y, c) = Equals(x, y, 0)
    BY <2>1 DEF Equals
  <2> QED
    BY <2>2, EqualsProperties DEF Str
<1> QED
  BY <1>1, <1>2

\* A step back leads to a place of the way back.
LEMMA StepBackType ==
    ASSUME NEW v \in Fronts, NEW d \in Int, NEW at \in Back
    PROVE  StepBack(v, d, at) \in Back
<1> DEFINE k == Prior(v, d, at.k)
           x == From(v, k)
           down == ComesDown(v, d, at.k)
           stepX == x + (IF down THEN 0 ELSE 1)
           stepY == x - k + (IF down THEN 1 ELSE 0)
           edit == IF down THEN [op |-> "INSERT", a |-> x, b |-> x - k + 1]
                           ELSE [op |-> "DELETE", a |-> x + 1, b |-> x - k]
           run == Least({at.x - stepX, at.y - stepY})
<1>1. /\ StepBack(v, d, at) =
             [x |-> x, y |-> x - k, k |-> k, ops |-> <<edit>> \o Equals(stepX, stepY, run) \o at.ops]
      /\ k \in Int /\ x \in Int /\ edit \in Op
  BY StepBackIs
<1>2. at.x \in Int /\ at.y \in Int /\ at.ops \in Str(Op)
  BY DEF Back
<1> HIDE DEF edit, k, x
<1>3. stepX \in Int /\ stepY \in Int
  BY <1>1
<1>4. run \in Int
  <2>1. at.x - stepX \in Int /\ at.y - stepY \in Int
    BY <1>2, <1>3
  <2> HIDE DEF stepX, stepY
  <2> QED
    BY <2>1, LeastOfTwo
<1> HIDE DEF stepX, stepY, run
<1>5. Equals(stepX, stepY, run) \in Str(Op)
  BY <1>3, <1>4, EqualsType
<1>6. <<edit>> \in Str(Op)
  BY <1>1 DEF Str
<1>7. <<edit>> \o Equals(stepX, stepY, run) \o at.ops \in Str(Op)
  BY <1>2, <1>5, <1>6, StrConcat
<1> QED
  BY <1>1, <1>7 DEF Back

\* Where the way back stands, and the script from there to both ends.
OnTheWay(A, B, vs, d, at, edits) ==
    /\ at \in Back
    /\ at.k \in Diagonals(d) /\ at.x = vs[d + 2][at.k] /\ at.y = at.x - at.k
    /\ at.x \in Nat /\ at.y \in Nat /\ at.x <= Len(A) /\ at.y <= Len(B)
    /\ Leads(A, B, at.ops, at.x, at.y, Len(A), Len(B), edits)

\* A step back adds one edit in front of a script that leads to both ends.
LEMMA StepBackLeads ==
    ASSUME NEW A, NEW B, Len(A) \in Nat, Len(B) \in Nat, NEW vs \in Seq(Fronts),
           RoundsSoFar(A, B, vs), NEW last \in Nat, Len(vs) = last + 2,
           NEW d \in 1 .. last, NEW at, NEW edits \in Nat, OnTheWay(A, B, vs, d, at, edits)
    PROVE  OnTheWay(A, B, vs, d - 1, StepBack(vs[d + 1], d, at), edits + 1)
<1> DEFINE v == vs[d + 1]
           k == Prior(v, d, at.k)
           x == From(v, k)
           down == ComesDown(v, d, at.k)
           stepX == x + (IF down THEN 0 ELSE 1)
           stepY == x - k + (IF down THEN 1 ELSE 0)
           edit == IF down THEN [op |-> "INSERT", a |-> x, b |-> x - k + 1]
                           ELSE [op |-> "DELETE", a |-> x + 1, b |-> x - k]
           run == Least({at.x - stepX, at.y - stepY})
           back == StepBack(v, d, at)
<1>1. /\ at \in Back /\ at.k \in Diagonals(d) /\ at.x = vs[d + 2][at.k] /\ at.y = at.x - at.k
      /\ at.x \in Nat /\ at.y \in Nat /\ at.x <= Len(A) /\ at.y <= Len(B)
      /\ Leads(A, B, at.ops, at.x, at.y, Len(A), Len(B), edits)
      /\ at.ops \in Str(Op)
  BY DEF OnTheWay, Back
<1>2. v \in Fronts /\ ReachedBy(v, d - 1) /\ Extends(A, B, v, vs[d + 2], d, at.k)
  BY <1>1, RoundsGrow
<1>3. d \in Nat \ {0} /\ d \in Int /\ at.k \in Int
  <2>1. d \in Nat \ {0} /\ d \in Int
    OBVIOUS
  <2> QED
    BY <1>1, <2>1, DiagonalsProperties
<1>4. /\ back = [x |-> x, y |-> x - k, k |-> k, ops |-> <<edit>> \o Equals(stepX, stepY, run) \o at.ops]
      /\ k \in Int /\ x \in Int /\ edit \in Op
  BY <1>1, <1>2, <1>3, StepBackIs
<1>5. back \in Back
  BY <1>1, <1>2, <1>3, StepBackType
<1> HIDE DEF v
<1>6. k \in Diagonals(d - 1) /\ x = v[k] /\ Start(v, d, at.k) = stepX
  BY <1>1, <1>2, <1>3, PriorIs
<1>7. x \in Nat /\ x - k >= 0
  BY <1>2, <1>6 DEF ReachedBy
<1>8. stepY = stepX - at.k
  <2>1. CASE down
    <3> DEFINE j == at.k
    <3>1. k = j + 1
      BY <2>1 DEF Prior
    <3>2. j \in Int /\ x \in Int /\ k \in Int
      BY <1>3, <1>4
    <3> HIDE DEF x, k, j, down
    <3>3. stepX = x /\ stepY = (x - k) + 1
      BY ONLY <2>1, <3>2
    <3> HIDE DEF stepX, stepY
    <3>4. stepY = stepX - j
      BY ONLY <3>1, <3>2, <3>3
    <3> QED
      BY ONLY <3>4 DEF j
  <2>2. CASE ~down
    <3> DEFINE j == at.k
    <3>1. k = j - 1
      BY <2>2 DEF Prior
    <3>2. j \in Int /\ x \in Int /\ k \in Int
      BY <1>3, <1>4
    <3> HIDE DEF x, k, j, down
    <3>3. stepX = x + 1 /\ stepY = x - k
      BY ONLY <2>2, <3>2
    <3> HIDE DEF stepX, stepY
    <3>4. stepY = stepX - j
      BY ONLY <3>1, <3>2, <3>3
    <3> QED
      BY ONLY <3>4 DEF j
  <2> QED
    BY <2>1, <2>2
<1> HIDE DEF x, k, down, edit, back
<1> HIDE DEF stepX, stepY
<1>9. stepX \in Nat /\ stepY \in Nat /\ at.x >= stepX
  <2> DEFINE start == Start(v, d, at.k)
             j == at.k
             w == vs[d + 2][at.k]
  <2>1. start \in Nat /\ start - j >= 0 /\ w >= start
    BY <1>2 DEF Extends
  <2>2. start = stepX /\ w = at.x /\ j \in Int /\ stepY = stepX - j
    BY <1>1, <1>3, <1>6, <1>8
  <2> HIDE DEF start, j, w
  <2>3. stepY \in Nat
    BY ONLY <2>1, <2>2
  <2> QED
    BY <2>1, <2>2, <2>3
<1>10. run = at.x - stepX /\ run \in Nat /\ stepX + run = at.x /\ stepY + run = at.y
  <2> DEFINE a == at.x
             b == at.y
             j == at.k
  <2>1. /\ a \in Int /\ b \in Int /\ j \in Int /\ b = a - j
        /\ stepX \in Int /\ stepY \in Int /\ stepY = stepX - j /\ a >= stepX
    BY <1>1, <1>3, <1>8, <1>9
  <2>2. run = Least({a - stepX, b - stepY})
    BY DEF run
  <2> HIDE DEF a, b, j, run
  <2>3. a - stepX \in Int /\ b - stepY = a - stepX
    BY <2>1
  <2>4. run = a - stepX
    BY <2>2, <2>3, LeastOfTwo
  <2>5. run \in Nat /\ stepX + run = a /\ stepY + run = b
    BY <2>1, <2>4
  <2> QED
    BY <2>4, <2>5 DEF a, b
<1> HIDE DEF run
<1>11. Leads(A, B, Equals(stepX, stepY, run) \o at.ops, stepX, stepY, Len(A), Len(B), edits)
  <2>1. ASSUME NEW i \in 1 .. run
        PROVE  stepX + i <= Len(A) /\ stepY + i <= Len(B) /\ A[stepX + i].text = B[stepY + i].text
    <3>1. stepX + i \in Start(v, d, at.k) + 1 .. vs[d + 2][at.k]
      <4> DEFINE w == at.x
      <4>1. Start(v, d, at.k) = stepX /\ vs[d + 2][at.k] = w
        BY <1>1, <1>6
      <4>2. run \in Nat /\ stepX \in Nat /\ stepX + run = w /\ i \in 1 .. run
        BY <1>9, <1>10
      <4> HIDE DEF w
      <4>3. stepX + i \in stepX + 1 .. w
        BY ONLY <4>2
      <4> QED
        BY ONLY <4>1, <4>3
    <3>2. (stepX + i) - at.k = stepY + i
      BY <1>3, <1>8, <1>9, SMTT(60)
    <3>3. /\ stepX + i <= Len(A) /\ (stepX + i) - at.k <= Len(B)
          /\ A[stepX + i].text = B[(stepX + i) - at.k].text
      BY <1>2, <3>1 DEF Extends
    <3> QED
      BY <3>2, <3>3
  <2>2. at.ops \in Seq(Op)
    BY <1>1 DEF Str
  <2>3. Leads(A, B, at.ops, stepX + run, stepY + run, Len(A), Len(B), edits)
    BY <1>1, <1>10
  <2> QED
    BY <1>9, <1>10, <2>1, <2>2, <2>3, LeadsEquals
<1>12. Move(A, B, edit, x, x - k, stepX, stepY) /\ edit.op # "EQUAL"
  <2>1. stepX <= Len(A) /\ stepY <= Len(B)
    <3>1. stepX <= at.x /\ stepY <= at.y
      BY <1>9, <1>10
    <3> QED
      BY <1>1, <1>9, <3>1
  <2>2. CASE down
    <3>1. edit = [op |-> "INSERT", a |-> x, b |-> x - k + 1] /\ stepX = x /\ stepY = (x - k) + 1
      BY <1>4, <2>2 DEF edit, stepX, stepY
    <3> QED
      BY <2>1, <3>1 DEF Move
  <2>3. CASE ~down
    <3>1. edit = [op |-> "DELETE", a |-> x + 1, b |-> x - k] /\ stepX = x + 1 /\ stepY = x - k
      BY <1>4, <2>3 DEF edit, stepX, stepY
    <3> QED
      BY <2>1, <3>1 DEF Move
  <2> QED
    BY <2>2, <2>3
<1> DEFINE eq == Equals(stepX, stepY, run)
<1>13. eq \in Str(Op) /\ <<edit>> \in Str(Op)
  <2>1. eq \in Str(Op)
    BY <1>9, <1>10, EqualsType
  <2> QED
    BY <1>4, <2>1 DEF Str
<1>14. <<edit>> \o eq \o at.ops = <<edit>> \o (eq \o at.ops) /\ eq \o at.ops \in Str(Op)
  <2> HIDE DEF eq
  <2>1. \A s, t, u \in Str(Op) : (s \o t) \o u = s \o (t \o u)
    BY StrConcat
  <2>2. (<<edit>> \o eq) \o at.ops = <<edit>> \o (eq \o at.ops)
    BY <1>1, <1>13, <2>1
  <2>3. eq \o at.ops \in Str(Op)
    BY <1>1, <1>13, StrConcat
  <2> QED
    BY <2>2, <2>3
<1>15. Leads(A, B, <<edit>> \o (eq \o at.ops), x, x - k, Len(A), Len(B), edits + 1)
  <2>1. eq \o at.ops \in Seq(Op)
    BY <1>14 DEF Str
  <2>2. x - k \in Nat
    BY <1>4, <1>7
  <2>3. Leads(A, B, eq \o at.ops, stepX, stepY, Len(A), Len(B), edits)
    BY <1>11
  <2> HIDE DEF eq
  <2>4. Leads(A, B, <<edit>> \o (eq \o at.ops), x, x - k, Len(A), Len(B),
              edits + (IF edit.op = "EQUAL" THEN 0 ELSE 1))
    BY <1>4, <1>7, <1>12, <2>1, <2>2, <2>3, LeadsPrepend
  <2> QED
    BY <1>12, <2>4
<1>16. x <= Len(A) /\ x - k <= Len(B)
  <2>1. stepX >= x /\ stepY >= x - k
    BY <1>4 DEF stepX, stepY
  <2>2. stepX <= at.x /\ stepY <= at.y
    BY <1>9, <1>10
  <2>3. x - k \in Int
    BY <1>4
  <2>4. x <= at.x /\ x - k <= at.y
    <3> DEFINE a == at.x
               b == at.y
    <3>1. a \in Int /\ b \in Int /\ x \in Int /\ stepX \in Int /\ stepY \in Int
      BY <1>1, <1>4, <1>9
    <3>2. stepX <= a /\ stepY <= b
      BY <2>2
    <3> HIDE DEF a, b
    <3>3. x <= a /\ x - k <= b
      BY ONLY <2>1, <2>3, <3>1, <3>2
    <3> QED
      BY <3>3 DEF a, b
  <2> QED
    BY <1>1, <1>4, <2>3, <2>4
<1>17. back.x = x /\ back.y = x - k /\ back.k = k /\ back.ops = <<edit>> \o (eq \o at.ops)
  BY <1>4, <1>14
<1>18. (d - 1) + 2 = d + 1
  OBVIOUS
<1>19. OnTheWay(A, B, vs, d - 1, back, edits + 1)
  <2>1. x - k \in Nat
    BY <1>4, <1>7
  <2>2. vs[(d - 1) + 2] = v
    BY <1>18 DEF v
  <2> HIDE DEF eq
  <2> QED
    BY <1>5, <1>6, <1>7, <1>15, <1>16, <1>17, <2>1, <2>2 DEF OnTheWay
<1> QED
  BY <1>19 DEF back, v

\* The edit script of two texts leads from their beginnings to their ends, with as
\* many edits as the search had rounds after the first.
LEMMA ScriptLeads ==
    ASSUME NEW A, NEW B, Len(A) \in Nat, Len(B) \in Nat
    PROVE  /\ DiffTokenSequences(A, B) \in Seq(Op)
           /\ Leads(A, B, DiffTokenSequences(A, B), 0, 0, Len(A), Len(B), Len(Rounds(A, B)) - 2)
<1> DEFINE vs == Rounds(A, B)
           last == Len(vs) - 2
           k0 == Len(A) - Len(B)
           end == [x |-> Len(A), y |-> Len(B), k |-> Least(Ends(A, B, vs[last + 2])), ops |-> <<>>]
           step == [n \in 1 .. last |-> [at \in Back |-> StepBack(vs[last + 2 - n], last + 1 - n, at)]]
           F == CHOOSE g : g = [n \in 0 .. last |->
                    IF n = 0 THEN end
                    ELSE With(g[n - 1], LAMBDA at : StepBack(vs[last + 2 - n], last + 1 - n, at))]
<1>1. /\ vs \in Seq(Fronts) /\ RoundsSoFar(A, B, vs)
      /\ last \in Nat /\ Len(vs) = last + 2
      /\ k0 \in Diagonals(last) /\ vs[last + 2][k0] = Len(A)
      /\ Ends(A, B, vs[last + 2]) = {k0}
  <2>1. PICK ws : ws = Rounds(A, B)
    OBVIOUS
  <2>2. PICK l : l = Len(ws) - 2
    OBVIOUS
  <2>3. /\ ws \in Seq(Fronts) /\ RoundsSoFar(A, B, ws)
        /\ l \in 0 .. Len(A) + Len(B) /\ Len(ws) = l + 2
        /\ Len(A) - Len(B) \in Diagonals(l)
        /\ ws[l + 2][Len(A) - Len(B)] = Len(A)
        /\ Ends(A, B, ws[l + 2]) = {Len(A) - Len(B)}
    <3> HIDE DEF F, step, end, vs, last, k0
    <3>1. ws = Rounds(A, B) /\ l = Len(ws) - 2
      BY <2>1, <2>2
    <3>2. \A us : us = Rounds(A, B) => \A e : e = Len(us) - 2 =>
             /\ us \in Seq(Fronts) /\ RoundsSoFar(A, B, us)
             /\ e \in 0 .. Len(A) + Len(B) /\ Len(us) = e + 2
             /\ Len(A) - Len(B) \in Diagonals(e)
             /\ us[e + 2][Len(A) - Len(B)] = Len(A)
             /\ Ends(A, B, us[e + 2]) = {Len(A) - Len(B)}
      BY SearchEnds
    <3> QED
      BY <3>1, <3>2
  <2>4. l \in Nat
    BY <2>3
  <2> QED
    BY <2>1, <2>2, <2>3, <2>4
<1>2. DiffTokenSequences(A, B) = EditScript(A, B, vs)
  BY DEF DiffTokenSequences, With
<1>3. EditScript(A, B, vs) = Equals(0, 0, Least({F[last].x, F[last].y})) \o F[last].ops
  <2>1. EditScript(A, B, vs) = With(F[last], LAMBDA at : Equals(0, 0, Least({at.x, at.y})) \o at.ops)
    BY DEF EditScript
  <2> HIDE DEF F
  <2> QED
    BY <2>1 DEF With
<1> HIDE DEF vs, last
<1>4. k0 \in Int
  BY <1>1
<1>5. end = [x |-> Len(A), y |-> Len(B), k |-> k0, ops |-> <<>>] /\ end \in Back
  <2>1. Least({k0}) = k0
    <3> HIDE DEF k0
    <3>1. {k0} \subseteq Int /\ \A y \in {k0} : k0 <= y
      BY <1>4
    <3> QED
      BY <3>1, LeastIs
  <2>2. <<>> \in Str(Op)
    BY StrProperties
  <2>3. end = [x |-> Len(A), y |-> Len(B), k |-> k0, ops |-> <<>>]
    BY <1>1, <2>1
  <2> HIDE DEF k0, end
  <2> QED
    BY <1>4, <2>2, <2>3 DEF Back
<1> HIDE DEF end
<1>6. ASSUME NEW n \in 1 .. last
      PROVE  /\ n - 1 \in 0 .. last /\ last + 1 - n \in 1 .. last /\ last + 1 - n \in Int
             /\ vs[last + 2 - n] \in Fronts /\ last + 2 - n = (last + 1 - n) + 1
  <2>1. last + 2 - n \in 1 .. Len(vs)
    BY <1>1
  <2> QED
    BY <1>1, <2>1, ElementOfSeq, SMTT(60)
<1>7. step \in [1 .. last -> [Back -> Back]]
  BY <1>6, StepBackType
<1>8. PICK f \in [0 .. last -> Back] :
        f[0] = end /\ \A n \in 1 .. last : f[n] = step[n][f[n - 1]]
  <2> HIDE DEF step, F
  <2>1. PICK b \in Back : b = end
    BY <1>5
  <2>2. last \in Nat /\ b \in Back /\ step \in [1 .. last -> [Back -> Back]]
    BY <1>1, <1>7
  <2>3. \E f \in [0 .. last -> Back] : f[0] = b /\ \A n \in 1 .. last : f[n] = step[n][f[n - 1]]
    BY <2>2, RecursionExists
  <2> QED
    BY <2>1, <2>3
<1>9. ASSUME NEW n \in 1 .. last
      PROVE  f[n - 1] \in Back /\ f[n] = StepBack(vs[last + 2 - n], last + 1 - n, f[n - 1])
  <2>1. f[n - 1] \in Back
    BY <1>6, <1>8
  <2> QED
    BY <1>8, <2>1
<1>10. F = [n \in 0 .. last |-> IF n = 0 THEN end
                                ELSE StepBack(vs[last + 2 - n], last + 1 - n, F[n - 1])]
  <2>1. f = [n \in 0 .. last |-> IF n = 0 THEN end
               ELSE With(f[n - 1], LAMBDA at : StepBack(vs[last + 2 - n], last + 1 - n, at))]
    <3>1. ASSUME NEW n \in 1 .. last
          PROVE  With(f[n - 1], LAMBDA at : StepBack(vs[last + 2 - n], last + 1 - n, at)) = f[n]
      BY <1>9 DEF With
    <3>2. \A n \in 0 .. last : n = 0 \/ n \in 1 .. last
      BY <1>1
    <3>3. \A n \in 0 .. last : f[n] = IF n = 0 THEN end
               ELSE With(f[n - 1], LAMBDA at : StepBack(vs[last + 2 - n], last + 1 - n, at))
      BY <1>8, <3>1, <3>2
    <3>4. f = [n \in 0 .. last |-> f[n]]
      BY <1>8
    <3> QED
      BY <3>3, <3>4
  <2>2. F = [n \in 0 .. last |-> IF n = 0 THEN end
               ELSE With(F[n - 1], LAMBDA at : StepBack(vs[last + 2 - n], last + 1 - n, at))]
    BY <2>1
  <2> HIDE DEF F
  <2>3. \A n \in 0 .. last : With(F[n - 1], LAMBDA at : StepBack(vs[last + 2 - n], last + 1 - n, at))
                             = StepBack(vs[last + 2 - n], last + 1 - n, F[n - 1])
    BY DEF With
  <2> QED
    BY <2>2, <2>3
<1> HIDE DEF F, step
<1> DEFINE T == {n \in 0 .. last : F[n] = f[n] /\ OnTheWay(A, B, vs, last - n, f[n], n)}
<1>11. 0 \in T
  <2>1. F[0] = f[0]
    BY <1>1, <1>8, <1>10
  <2>2. f[0].x = Len(A) /\ f[0].y = Len(B) /\ f[0].k = k0 /\ f[0].ops = <<>> /\ f[0] \in Back
    BY <1>5, <1>8
  <2>3. Leads(A, B, <<>>, Len(A), Len(B), Len(A), Len(B), 0)
    BY LeadsNowhere
  <2>4. last - 0 = last /\ 0 \in 0 .. last
    BY <1>1
  <2>5. f[0].y = f[0].x - f[0].k
    BY <2>2
  <2> HIDE DEF k0
  <2>6. f[0].k \in Diagonals(last) /\ f[0].x = vs[last + 2][f[0].k]
    BY <1>1, <2>2
  <2>7. f[0].x \in Nat /\ f[0].y \in Nat /\ f[0].x <= Len(A) /\ f[0].y <= Len(B)
    BY <2>2
  <2>8. Leads(A, B, f[0].ops, f[0].x, f[0].y, Len(A), Len(B), 0)
    BY <2>2, <2>3
  <2>9. OnTheWay(A, B, vs, last, f[0], 0)
    BY <2>2, <2>5, <2>6, <2>7, <2>8 DEF OnTheWay
  <2> QED
    BY <2>1, <2>4, <2>9
<1>12. ASSUME NEW n \in 1 .. last, n - 1 \in T
       PROVE  n \in T
  <2> DEFINE d == last + 1 - n
  <2>1. /\ d \in 1 .. last /\ last - (n - 1) = d /\ d - 1 = last - n /\ last + 2 - n = d + 1
        /\ n - 1 \in Nat /\ (n - 1) + 1 = n /\ n \in 0 .. last
    BY <1>1
  <2>2. F[n] = StepBack(vs[last + 2 - n], last + 1 - n, F[n - 1])
    BY <1>1, <1>10
  <2>3. F[n - 1] = f[n - 1] /\ OnTheWay(A, B, vs, last - (n - 1), f[n - 1], n - 1)
    BY <1>12
  <2>4. OnTheWay(A, B, vs, d, f[n - 1], n - 1)
    BY <2>1, <2>3
  <2> HIDE DEF d
  <2>5. OnTheWay(A, B, vs, d - 1, StepBack(vs[d + 1], d, f[n - 1]), (n - 1) + 1)
    BY <1>1, <2>1, <2>4, StepBackLeads
  <2>6. f[n] = StepBack(vs[d + 1], d, f[n - 1])
    BY <1>9, <2>1 DEF d
  <2>7. OnTheWay(A, B, vs, last - n, f[n], n)
    BY <2>1, <2>5, <2>6
  <2>8. F[n] = f[n]
    BY <1>9, <2>2, <2>3
  <2> QED
    BY <2>1, <2>7, <2>8
<1>13. \A n \in 0 .. last : n \in T
  <2> HIDE DEF T
  <2> QED
    BY <1>1, <1>11, <1>12, UpTo
<1> DEFINE at == F[last]
<1>14. OnTheWay(A, B, vs, 0, at, last)
  <2>1. last \in 0 .. last /\ last - last = 0
    BY <1>1
  <2> QED
    BY <1>13, <2>1
<1> HIDE DEF at
<1>15. /\ at.k = 0 /\ at.x = vs[2][0] /\ at.x \in Nat /\ at.y = at.x /\ at.ops \in Seq(Op)
       /\ at.x <= Len(A) /\ at.y <= Len(B)
       /\ Leads(A, B, at.ops, at.x, at.y, Len(A), Len(B), last)
  <2>1. /\ at.k \in Diagonals(0) /\ at.x = vs[0 + 2][at.k] /\ at.y = at.x - at.k /\ at.x \in Nat
        /\ at.x <= Len(A) /\ at.y <= Len(B)
        /\ Leads(A, B, at.ops, at.x, at.y, Len(A), Len(B), last)
    BY <1>14 DEF OnTheWay
  <2>2. at.ops \in Seq(Op)
    BY <1>14 DEF OnTheWay, Back, Str
  <2>3. at.k = 0
    BY <2>1, DiagonalsProperties
  <2>4. at.y = at.x
    BY <2>1, <2>3
  <2> QED
    BY <2>1, <2>2, <2>3, <2>4
<1> DEFINE c == at.x
           ops == Equals(0, 0, c) \o at.ops
<1>16. Least({at.x, at.y}) = c /\ c \in Nat
  <2>1. Least({c, c}) = c
    BY <1>15, LeastOfTwo
  <2> QED
    BY <1>15, <2>1
<1>17. DiffTokenSequences(A, B) = ops
  BY <1>2, <1>3, <1>16 DEF at
<1>18. ops \in Seq(Op)
  <2>1. Equals(0, 0, c) \in Str(Op) /\ at.ops \in Str(Op)
    <3>1. c \in Int /\ 0 \in Int
      BY <1>16
    <3> HIDE DEF c
    <3>2. Equals(0, 0, c) \in Str(Op)
      BY <3>1, EqualsType
    <3> QED
      BY <1>15, <3>2 DEF Str
  <2>2. ops \in Str(Op)
    BY <2>1, StrConcat
  <2> QED
    BY <2>2 DEF Str
<1>19. Leads(A, B, ops, 0, 0, Len(A), Len(B), last)
  <2>1. Start(vs[1], 0, 0) = 0 /\ Extends(A, B, vs[1], vs[2], 0, 0)
    BY <1>1, RoundsReach
  <2>2. ASSUME NEW i \in 1 .. c
        PROVE  0 + i <= Len(A) /\ 0 + i <= Len(B) /\ A[0 + i].text = B[0 + i].text
    <3>1. i \in Start(vs[1], 0, 0) + 1 .. vs[2][0]
      BY <1>15, <2>1
    <3>2. i <= Len(A) /\ i - 0 <= Len(B) /\ A[i].text = B[i - 0].text
      BY <2>1, <3>1 DEF Extends
    <3>3. i - 0 = i /\ 0 + i = i
      OBVIOUS
    <3> QED
      BY <3>2, <3>3
  <2>3. 0 + c = at.x /\ 0 + c = at.y
    BY <1>15
  <2>4. Leads(A, B, at.ops, 0 + c, 0 + c, Len(A), Len(B), last)
    BY <1>15, <2>3
  <2> HIDE DEF c
  <2> QED
    <3>1. PICK z \in Nat : z = 0
      OBVIOUS
    <3>2. \A i \in 1 .. c : z + i <= Len(A) /\ z + i <= Len(B) /\ A[z + i].text = B[z + i].text
      BY <2>2, <3>1
    <3>3. Leads(A, B, at.ops, z + c, z + c, Len(A), Len(B), last)
      BY <2>4, <3>1
    <3>4. Leads(A, B, Equals(z, z, c) \o at.ops, z, z, Len(A), Len(B), last)
      BY <1>15, <1>16, <3>2, <3>3, LeadsEquals
    <3> QED
      BY <3>1, <3>4
<1> HIDE DEF ops
<1> QED
  BY <1>17, <1>18, <1>19 DEF vs, last

----------------
\* A longest common subsequence, for every two beginnings of the texts.
Row(m) == [0 .. m -> Nat]

NextIs(A, B, m, i, row, next) ==
    /\ next[0] = 0
    /\ \A j \in 1 .. m :
        next[j] = IF A[i].text = B[j].text THEN row[j - 1] + 1
                  ELSE IF row[j] >= next[j - 1] THEN row[j] ELSE next[j - 1]

Table(A, B, n, m, L) ==
    /\ L \in [0 .. n -> Row(m)]
    /\ \A j \in 0 .. m : L[0][j] = 0
    /\ \A i \in 1 .. n : NextIs(A, B, m, i, L[i - 1], L[i])

\* The table has a row after every row.
LEMMA NextRow ==
    ASSUME NEW A, NEW B, NEW m \in Nat, NEW i \in Nat \ {0}, NEW row \in Row(m)
    PROVE  \E next \in Row(m) : NextIs(A, B, m, i, row, next)
<1> DEFINE step == [j \in 1 .. m |-> [c \in Nat |->
                        IF A[i].text = B[j].text THEN row[j - 1] + 1
                        ELSE IF row[j] >= c THEN row[j] ELSE c]]
<1>1. \A j \in 1 .. m : j - 1 \in 0 .. m /\ j \in 0 .. m
  OBVIOUS
<1>2. \A j \in 0 .. m : row[j] \in Nat
  BY DEF Row
<1>3. step \in [1 .. m -> [Nat -> Nat]]
  BY <1>1, <1>2
<1>4. PICK next \in [0 .. m -> Nat] : next[0] = 0 /\ \A j \in 1 .. m : next[j] = step[j][next[j - 1]]
  <2> HIDE DEF step
  <2> DEFINE S == Nat
  <2>1. step \in [1 .. m -> [S -> S]]
    BY <1>3
  <2>2. PICK z \in S : z = 0
    OBVIOUS
  <2> DEFINE f == Recursion(S, z, m, step)
  <2> HIDE DEF S
  <2>3. f \in [0 .. m -> S] /\ f[0] = z /\ \A j \in 1 .. m : f[j] = step[j][f[j - 1]]
    BY <2>1, RecursionIs
  <2> HIDE DEF f
  <2> QED
    BY <2>2, <2>3 DEF S
<1>5. ASSUME NEW j \in 1 .. m
      PROVE  next[j] = IF A[i].text = B[j].text THEN row[j - 1] + 1
                       ELSE IF row[j] >= next[j - 1] THEN row[j] ELSE next[j - 1]
  <2>1. next[j] = step[j][next[j - 1]]
    BY <1>4
  <2>2. next[j - 1] \in Nat
    BY <1>1, <1>4
  <2> QED
    BY <2>1, <2>2
<1>6. next \in Row(m)
  BY <1>4 DEF Row
<1>7. NextIs(A, B, m, i, row, next)
  BY <1>4, <1>5 DEF NextIs
<1> QED
  BY <1>6, <1>7

\* There is such a table for every two texts.
LEMMA TableExists ==
    ASSUME NEW A, NEW B, NEW n \in Nat, NEW m \in Nat
    PROVE  \E L : Table(A, B, n, m, L)
<1> DEFINE R == Row(m)
           step == [i \in 1 .. n |-> [row \in R |-> CHOOSE next \in R : NextIs(A, B, m, i, row, next)]]
           zero == [j \in 0 .. m |-> 0]
           L == Recursion(R, zero, n, step)
<1>1. ASSUME NEW i \in 1 .. n, NEW row \in R
      PROVE  \E next \in R : NextIs(A, B, m, i, row, next)
  <2>1. i \in Nat \ {0}
    OBVIOUS
  <2> QED
    BY <2>1, NextRow
<1>2. step \in [1 .. n -> [R -> R]]
  BY <1>1
<1>3. zero \in R /\ \A j \in 0 .. m : zero[j] = 0
  BY DEF Row
<1> HIDE DEF step, zero, R
<1>4. L \in [0 .. n -> R] /\ L[0] = zero /\ \A i \in 1 .. n : L[i] = step[i][L[i - 1]]
  BY <1>2, <1>3, RecursionIs
<1> HIDE DEF L
<1>5. ASSUME NEW i \in 1 .. n
      PROVE  NextIs(A, B, m, i, L[i - 1], L[i])
  <2>1. L[i - 1] \in R
    <3>1. i - 1 \in 0 .. n
      OBVIOUS
    <3> QED
      BY <1>4, <3>1
  <2>2. L[i] = CHOOSE next \in R : NextIs(A, B, m, i, L[i - 1], next)
    BY <1>4, <2>1 DEF step
  <2> QED
    BY <1>1, <2>1, <2>2
<1>6. \A j \in 0 .. m : L[0][j] = 0
  BY <1>3, <1>4
<1> QED
  BY <1>4, <1>5, <1>6 DEF Table, R

\* The table, entry by entry.
Entries(A, B, n, m, L) ==
    /\ \A i \in 0 .. n : \A j \in 0 .. m : L[i][j] \in Nat
    /\ \A i \in 0 .. n : L[i][0] = 0
    /\ \A j \in 0 .. m : L[0][j] = 0
    /\ \A i \in 1 .. n : \A j \in 1 .. m :
          L[i][j] = IF A[i].text = B[j].text THEN L[i - 1][j - 1] + 1
                    ELSE IF L[i - 1][j] >= L[i][j - 1] THEN L[i - 1][j] ELSE L[i][j - 1]

\* Each entry of the table, from the three next to it.
LEMMA TableIs ==
    ASSUME NEW A, NEW B, NEW n \in Nat, NEW m \in Nat, NEW L, Table(A, B, n, m, L)
    PROVE  Entries(A, B, n, m, L)
<1>1. \A i \in 0 .. n : L[i] \in Row(m)
  BY DEF Table
<1>2. \A row \in Row(m) : \A j \in 0 .. m : row[j] \in Nat
  BY DEF Row
<1>3. \A i \in 0 .. n : \A j \in 0 .. m : L[i][j] \in Nat
  BY <1>1, <1>2
<1>4. \A j \in 0 .. m : L[0][j] = 0
  BY DEF Table
<1>5. \A i \in 0 .. n : L[i][0] = 0
  <2>1. 0 \in 0 .. m /\ \A i \in 0 .. n : i = 0 \/ i \in 1 .. n
    OBVIOUS
  <2>2. \A i \in 1 .. n : L[i][0] = 0
    BY DEF Table, NextIs
  <2> QED
    BY <1>4, <2>1, <2>2
<1>6. ASSUME NEW i \in 1 .. n, NEW j \in 1 .. m
      PROVE  L[i][j] = IF A[i].text = B[j].text THEN L[i - 1][j - 1] + 1
                       ELSE IF L[i - 1][j] >= L[i][j - 1] THEN L[i - 1][j] ELSE L[i][j - 1]
  <2>1. NextIs(A, B, m, i, L[i - 1], L[i])
    BY DEF Table
  <2> QED
    BY <2>1 DEF NextIs
<1> QED
  BY <1>3, <1>4, <1>5, <1>6 DEF Entries

\* The greatest of two numbers.
LEMMA GreatestOfTwo ==
    ASSUME NEW a \in Int, NEW b \in Int
    PROVE  Greatest({a, b}) = IF a >= b THEN a ELSE b
<1>1. \E x \in {a, b} : \A y \in {a, b} : x >= y
  OBVIOUS
<1>2. Greatest({a, b}) \in {a, b} /\ \A y \in {a, b} : Greatest({a, b}) >= y
  BY <1>1 DEF Greatest
<1> QED
  BY <1>2

\* CommonWords is the last entry of the table.
LEMMA CommonWordsIs ==
    ASSUME NEW A, NEW B, NEW n \in Nat, NEW m \in Nat, n = Len(A), m = Len(B)
    PROVE  \E L : Table(A, B, n, m, L) /\ CommonWords(A, B) = L[n][m]
<1> DEFINE D == (0 .. n) \X (0 .. m)
           F == CHOOSE g : g = [p \in D |->
                    IF p[1] = 0 \/ p[2] = 0 THEN 0
                    ELSE IF A[p[1]].text = B[p[2]].text THEN g[<<p[1] - 1, p[2] - 1>>] + 1
                    ELSE Greatest({g[<<p[1] - 1, p[2]>>], g[<<p[1], p[2] - 1>>]})]
<1>1. PICK L : Table(A, B, n, m, L)
  BY TableExists
<1>2. /\ \A i \in 0 .. n : \A j \in 0 .. m : L[i][j] \in Nat
      /\ \A i \in 0 .. n : L[i][0] = 0
      /\ \A j \in 0 .. m : L[0][j] = 0
      /\ \A i \in 1 .. n : \A j \in 1 .. m :
            L[i][j] = IF A[i].text = B[j].text THEN L[i - 1][j - 1] + 1
                      ELSE IF L[i - 1][j] >= L[i][j - 1] THEN L[i - 1][j] ELSE L[i][j - 1]
  <2>1. Entries(A, B, n, m, L)
    BY <1>1, TableIs
  <2> QED
    BY <2>1 DEF Entries
<1> DEFINE h == [p \in D |-> L[p[1]][p[2]]]
<1>3. CommonWords(A, B) = F[<<n, m>>]
  BY DEF CommonWords
<1>4. n \in Nat /\ m \in Nat
  OBVIOUS
<1> HIDE DEF F
<1>5. ASSUME NEW p \in D
      PROVE  h[p] = IF p[1] = 0 \/ p[2] = 0 THEN 0
                    ELSE IF A[p[1]].text = B[p[2]].text THEN h[<<p[1] - 1, p[2] - 1>>] + 1
                    ELSE Greatest({h[<<p[1] - 1, p[2]>>], h[<<p[1], p[2] - 1>>]})
  <2> DEFINE i == p[1]
             j == p[2]
  <2>1. i \in 0 .. n /\ j \in 0 .. m /\ i \in Int /\ j \in Int
    BY <1>4
  <2>2. h[p] = L[i][j]
    OBVIOUS
  <2>3. \A a \in 0 .. n : \A b \in 0 .. m : h[<<a, b>>] = L[a][b]
    OBVIOUS
  <2> HIDE DEF i, j, h
  <2>4. CASE i = 0 \/ j = 0
    BY <1>2, <2>1, <2>2, <2>4 DEF i, j
  <2>5. CASE ~(i = 0 \/ j = 0)
    <3>1. i \in 1 .. n /\ j \in 1 .. m /\ i - 1 \in 0 .. n /\ j - 1 \in 0 .. m
      BY <1>4, <2>1, <2>5
    <3>2. /\ h[<<i - 1, j - 1>>] = L[i - 1][j - 1]
          /\ h[<<i - 1, j>>] = L[i - 1][j]
          /\ h[<<i, j - 1>>] = L[i][j - 1]
      BY <2>1, <2>3, <3>1
    <3>3. L[i - 1][j] \in Int /\ L[i][j - 1] \in Int
      <4>1. L[i - 1][j] \in Nat /\ L[i][j - 1] \in Nat
        BY <1>2, <2>1, <3>1
      <4> QED
        BY <4>1
    <3>4. Greatest({L[i - 1][j], L[i][j - 1]})
             = IF L[i - 1][j] >= L[i][j - 1] THEN L[i - 1][j] ELSE L[i][j - 1]
      BY <3>3, GreatestOfTwo
    <3>5. L[i][j] = IF A[i].text = B[j].text THEN L[i - 1][j - 1] + 1
                    ELSE Greatest({L[i - 1][j], L[i][j - 1]})
      BY <1>2, <3>1, <3>4
    <3>6. h[p] = IF A[i].text = B[j].text THEN h[<<i - 1, j - 1>>] + 1
                 ELSE Greatest({h[<<i - 1, j>>], h[<<i, j - 1>>]})
      BY <2>2, <3>2, <3>5
    <3> QED
      BY <2>5, <3>6 DEF i, j
  <2> QED
    BY <2>4, <2>5
<1>6. F = [p \in D |-> IF p[1] = 0 \/ p[2] = 0 THEN 0
                       ELSE IF A[p[1]].text = B[p[2]].text THEN F[<<p[1] - 1, p[2] - 1>>] + 1
                       ELSE Greatest({F[<<p[1] - 1, p[2]>>], F[<<p[1], p[2] - 1>>]})]
  <2> DEFINE Good(g) == g = [p \in D |-> IF p[1] = 0 \/ p[2] = 0 THEN 0
                       ELSE IF A[p[1]].text = B[p[2]].text THEN g[<<p[1] - 1, p[2] - 1>>] + 1
                       ELSE Greatest({g[<<p[1] - 1, p[2]>>], g[<<p[1], p[2] - 1>>]})]
  <2>1. Good(h)
    <3>1. h = [p \in D |-> h[p]]
      OBVIOUS
    <3> HIDE DEF h, D
    <3> QED
      BY <1>5, <3>1
  <2>2. F = CHOOSE g : Good(g)
    BY DEF F
  <2> HIDE DEF h, D
  <2>3. Good(F)
    <3> HIDE DEF Good
    <3> QED
      BY <2>1, <2>2
  <2> QED
    BY <2>3
<1>7. ASSUME NEW i \in 0 .. n, NEW j \in 0 .. m
      PROVE  F[<<i, j>>] = IF i = 0 \/ j = 0 THEN 0
                           ELSE IF A[i].text = B[j].text THEN F[<<i - 1, j - 1>>] + 1
                           ELSE Greatest({F[<<i - 1, j>>], F[<<i, j - 1>>]})
  <2> DEFINE p == <<i, j>>
  <2>1. p \in D /\ p[1] = i /\ p[2] = j
    OBVIOUS
  <2> HIDE DEF D, p
  <2>2. F[p] = IF p[1] = 0 \/ p[2] = 0 THEN 0
               ELSE IF A[p[1]].text = B[p[2]].text THEN F[<<p[1] - 1, p[2] - 1>>] + 1
               ELSE Greatest({F[<<p[1] - 1, p[2]>>], F[<<p[1], p[2] - 1>>]})
    BY <1>6, <2>1
  <2> QED
    BY <2>1, <2>2 DEF p
<1> DEFINE T == {i \in 0 .. n : \A j \in 0 .. m : F[<<i, j>>] = L[i][j]}
<1>8. 0 \in T
  <2>1. 0 \in 0 .. n
    BY <1>4
  <2>2. \A j \in 0 .. m : F[<<0, j>>] = 0 /\ L[0][j] = 0
    BY <1>2, <1>7, <2>1
  <2> QED
    BY <2>1, <2>2
<1>9. ASSUME NEW i \in 1 .. n, i - 1 \in T
      PROVE  i \in T
  <2> DEFINE U == {j \in 0 .. m : F[<<i, j>>] = L[i][j]}
  <2>1. i \in 0 .. n /\ i # 0 /\ i - 1 \in 0 .. n /\ 0 \in 0 .. m
    BY <1>4
  <2>2. 0 \in U
    BY <1>2, <1>7, <2>1
  <2>3. ASSUME NEW j \in 1 .. m, j - 1 \in U
        PROVE  j \in U
    <3>1. j \in 0 .. m /\ j # 0 /\ j - 1 \in 0 .. m
      BY <1>4
    <3>2. /\ F[<<i - 1, j - 1>>] = L[i - 1][j - 1]
          /\ F[<<i - 1, j>>] = L[i - 1][j]
          /\ F[<<i, j - 1>>] = L[i][j - 1]
      BY <1>9, <2>3, <3>1
    <3>3. L[i - 1][j] \in Int /\ L[i][j - 1] \in Int
      <4>1. L[i - 1][j] \in Nat /\ L[i][j - 1] \in Nat
        BY <1>2, <2>1, <3>1
      <4> QED
        BY <4>1
    <3>4. Greatest({L[i - 1][j], L[i][j - 1]})
             = IF L[i - 1][j] >= L[i][j - 1] THEN L[i - 1][j] ELSE L[i][j - 1]
      BY <3>3, GreatestOfTwo
    <3>5. F[<<i, j>>] = IF A[i].text = B[j].text THEN F[<<i - 1, j - 1>>] + 1
                        ELSE Greatest({F[<<i - 1, j>>], F[<<i, j - 1>>]})
      BY <1>7, <2>1, <3>1
    <3>6. F[<<i, j>>] = L[i][j]
      BY <1>2, <3>2, <3>4, <3>5
    <3> QED
      BY <3>1, <3>6
  <2>4. \A j \in 0 .. m : j \in U
    <3> HIDE DEF U
    <3> QED
      BY <1>4, <2>2, <2>3, UpTo
  <2> QED
    BY <2>1, <2>4
<1>10. \A i \in 0 .. n : i \in T
  <2> HIDE DEF T
  <2> QED
    BY <1>4, <1>8, <1>9, UpTo
<1>11. F[<<n, m>>] = L[n][m]
  BY <1>4, <1>10
<1> QED
  BY <1>1, <1>3, <1>11

\* Along a row and along a column the table grows by nothing or by one.
Grows(n, m, L) ==
    /\ \A i \in 1 .. n : \A j \in 0 .. m : L[i - 1][j] <= L[i][j] /\ L[i][j] <= L[i - 1][j] + 1
    /\ \A i \in 0 .. n : \A j \in 1 .. m : L[i][j - 1] <= L[i][j] /\ L[i][j] <= L[i][j - 1] + 1

\* The table of two texts grows by nothing or by one along every row and column.
LEMMA TableGrows ==
    ASSUME NEW A, NEW B, NEW n \in Nat, NEW m \in Nat, NEW L, Entries(A, B, n, m, L)
    PROVE  Grows(n, m, L)
<1>1. /\ \A i \in 0 .. n : \A j \in 0 .. m : L[i][j] \in Nat
      /\ \A i \in 0 .. n : L[i][0] = 0
      /\ \A j \in 0 .. m : L[0][j] = 0
      /\ \A i \in 1 .. n : \A j \in 1 .. m :
          L[i][j] = IF A[i].text = B[j].text THEN L[i - 1][j - 1] + 1
                    ELSE IF L[i - 1][j] >= L[i][j - 1] THEN L[i - 1][j] ELSE L[i][j - 1]
  BY DEF Entries
<1> DEFINE V(i, j) == L[i - 1][j] <= L[i][j] /\ L[i][j] <= L[i - 1][j] + 1
           H(i, j) == L[i][j - 1] <= L[i][j] /\ L[i][j] <= L[i][j - 1] + 1
           T == {i \in 0 .. n : /\ \A j \in 1 .. m : H(i, j)
                                /\ i > 0 => \A j \in 0 .. m : V(i, j)}
<1>2. 0 \in T
  <2>1. \A j \in 1 .. m : j - 1 \in 0 .. m /\ j \in 0 .. m
    OBVIOUS
  <2>2. \A j \in 1 .. m : L[0][j] = 0 /\ L[0][j - 1] = 0
    BY <1>1, <2>1
  <2> QED
    BY <2>2
<1>3. ASSUME NEW i \in 1 .. n, i - 1 \in T
      PROVE  i \in T
  <2>1. i \in 0 .. n /\ i - 1 \in 0 .. n /\ i > 0
    OBVIOUS
  <2>2. \A j \in 1 .. m : H(i - 1, j)
    BY <1>3
  <2> DEFINE U == {j \in 0 .. m : V(i, j)}
  <2>3. 0 \in U
    <3>1. L[i][0] = 0 /\ L[i - 1][0] = 0 /\ 0 \in 0 .. m
      BY <1>1, <2>1
    <3> QED
      BY <3>1
  <2>4. ASSUME NEW j \in 1 .. m
        PROVE  /\ j \in 0 .. m /\ j - 1 \in 0 .. m
               /\ L[i][j] \in Nat /\ L[i - 1][j] \in Nat
               /\ L[i][j - 1] \in Nat /\ L[i - 1][j - 1] \in Nat
               /\ L[i - 1][j - 1] <= L[i - 1][j] /\ L[i - 1][j] <= L[i - 1][j - 1] + 1
               /\ L[i][j] = IF A[i].text = B[j].text THEN L[i - 1][j - 1] + 1
                            ELSE IF L[i - 1][j] >= L[i][j - 1] THEN L[i - 1][j] ELSE L[i][j - 1]
    <3>1. j \in 0 .. m /\ j - 1 \in 0 .. m
      OBVIOUS
    <3>2. /\ L[i][j] \in Nat /\ L[i - 1][j] \in Nat
          /\ L[i][j - 1] \in Nat /\ L[i - 1][j - 1] \in Nat
      BY <1>1, <2>1, <3>1
    <3>3. H(i - 1, j)
      BY <2>2
    <3>4. L[i][j] = IF A[i].text = B[j].text THEN L[i - 1][j - 1] + 1
                    ELSE IF L[i - 1][j] >= L[i][j - 1] THEN L[i - 1][j] ELSE L[i][j - 1]
      BY <1>1
    <3> QED
      BY <3>1, <3>2, <3>3, <3>4
  <2>5. ASSUME NEW j \in 1 .. m, j - 1 \in U
        PROVE  j \in U /\ H(i, j)
    <3>1. L[i - 1][j - 1] <= L[i][j - 1] /\ L[i][j - 1] <= L[i - 1][j - 1] + 1
      BY <2>5
    <3> DEFINE a == L[i - 1][j - 1]
               b == L[i - 1][j]
               c == L[i][j - 1]
               e == L[i][j]
    <3>2. /\ a \in Nat /\ b \in Nat /\ c \in Nat /\ e \in Nat
          /\ a <= b /\ b <= a + 1 /\ a <= c /\ c <= a + 1
          /\ e = a + 1 \/ (b >= c /\ e = b) \/ (~(b >= c) /\ e = c)
      BY <2>4, <3>1
    <3> HIDE DEF a, b, c, e
    <3>3. b <= e /\ e <= b + 1 /\ c <= e /\ e <= c + 1
      BY <3>2
    <3> QED
      BY <2>4, <3>3 DEF a, b, c, e
  <2>6. \A j \in 0 .. m : j \in U
    <3> HIDE DEF U
    <3> QED
      BY <2>3, <2>5, UpTo
  <2>7. \A j \in 1 .. m : j - 1 \in 0 .. m
    OBVIOUS
  <2>8. \A j \in 1 .. m : H(i, j)
    BY <2>5, <2>6, <2>7
  <2> QED
    BY <2>1, <2>6, <2>8
<1>4. \A i \in 0 .. n : i \in T
  <2> HIDE DEF T
  <2> QED
    BY <1>2, <1>3, UpTo
<1>5. \A i \in 1 .. n : i \in 0 .. n /\ i > 0
  OBVIOUS
<1>6. \A i \in 1 .. n : \A j \in 0 .. m : V(i, j)
  BY <1>4, <1>5
<1>7. \A i \in 0 .. n : \A j \in 1 .. m : H(i, j)
  BY <1>4
<1> QED
  BY <1>6, <1>7 DEF Grows

\* No script keeps more tokens than the table counts.
LEMMA ScriptShares ==
    ASSUME NEW A, NEW B, NEW n \in Nat, NEW m \in Nat, n = Len(A), m = Len(B),
           NEW L, Entries(A, B, n, m, L), NEW ops \in Seq(Op), NEW e,
           Leads(A, B, ops, 0, 0, n, m, e)
    PROVE  e \in Nat /\ n + m - e <= 2 * L[n][m]
<1> DEFINE N == Len(ops)
<1>1. PICK X, Y, E : /\ Walk(A, B, ops, X, Y, E)
                     /\ X[0] = 0 /\ Y[0] = 0
                     /\ X[N] = n /\ Y[N] = m /\ E[N] = e
  BY DEF Leads
<1>2. /\ X \in [0 .. N -> Nat] /\ Y \in [0 .. N -> Nat] /\ E \in [0 .. N -> Nat]
      /\ E[0] = 0
      /\ \A i \in 1 .. N :
          /\ Move(A, B, ops[i], X[i - 1], Y[i - 1], X[i], Y[i])
          /\ E[i] = E[i - 1] + (IF ops[i].op = "EQUAL" THEN 0 ELSE 1)
  BY <1>1 DEF Walk
<1>3. N \in Nat
  BY LenProperties
<1>4. /\ \A i \in 0 .. n : \A j \in 0 .. m : L[i][j] \in Nat
      /\ \A i \in 1 .. n : \A j \in 1 .. m :
          L[i][j] = IF A[i].text = B[j].text THEN L[i - 1][j - 1] + 1
                    ELSE IF L[i - 1][j] >= L[i][j - 1] THEN L[i - 1][j] ELSE L[i][j - 1]
  BY DEF Entries
<1>5. /\ \A i \in 1 .. n : \A j \in 0 .. m : L[i - 1][j] <= L[i][j] /\ L[i][j] <= L[i - 1][j] + 1
      /\ \A i \in 0 .. n : \A j \in 1 .. m : L[i][j - 1] <= L[i][j] /\ L[i][j] <= L[i][j - 1] + 1
  <2>1. Grows(n, m, L)
    BY TableGrows
  <2> QED
    BY <2>1 DEF Grows
<1> HIDE DEF N
<1> DEFINE T == {i \in 0 .. N : /\ X[i] \in 0 .. n /\ Y[i] \in 0 .. m
                                /\ X[i] + Y[i] - E[i] <= 2 * L[X[i]][Y[i]]}
<1>6. 0 \in T
  <2>1. 0 \in 0 .. N /\ 0 \in 0 .. n /\ 0 \in 0 .. m
    BY <1>3
  <2>2. L[0][0] \in Nat
    BY <1>4, <2>1
  <2> DEFINE l == L[0][0]
  <2>3. l \in Nat
    BY <2>2
  <2> HIDE DEF l
  <2>4. 0 + 0 - 0 <= 2 * l
    BY <2>3
  <2>5. X[0] + Y[0] - E[0] <= 2 * L[X[0]][Y[0]]
    BY <1>1, <1>2, <2>4 DEF l
  <2> QED
    BY <1>1, <1>2, <2>1, <2>5
<1>7. ASSUME NEW i \in 1 .. N, i - 1 \in T
      PROVE  i \in T
  <2> DEFINE x == X[i - 1]
             y == Y[i - 1]
             u == X[i]
             v == Y[i]
             d == E[i - 1]
  <2>1. i \in 0 .. N /\ i - 1 \in 0 .. N
    BY <1>3
  <2>2. x \in 0 .. n /\ y \in 0 .. m /\ x + y - d <= 2 * L[x][y] /\ d \in Nat /\ u \in Nat /\ v \in Nat
    BY <1>2, <1>7, <2>1
  <2>3. L[x][y] \in Nat
    BY <1>4, <2>2
  <2>4. Move(A, B, ops[i], x, y, u, v) /\ E[i] = d + (IF ops[i].op = "EQUAL" THEN 0 ELSE 1)
    BY <1>2
  <2> HIDE DEF x, y, u, v, d
  <2>5. CASE ops[i].op = "EQUAL"
    <3>1. u = x + 1 /\ v = y + 1 /\ u <= n /\ v <= m /\ A[u].text = B[v].text /\ E[i] = d
      BY <2>2, <2>4, <2>5 DEF Move
    <3>2. u \in 1 .. n /\ v \in 1 .. m /\ u - 1 = x /\ v - 1 = y
      BY <2>2, <3>1
    <3>3. L[u][v] = L[x][y] + 1
      BY <1>4, <3>1, <3>2
    <3>4. u + v - E[i] <= 2 * L[u][v]
      <4> DEFINE l == L[x][y]
                 g == L[u][v]
                 f == E[i]
      <4>1. l \in Nat /\ g = l + 1 /\ f = d /\ x + y - d <= 2 * l
        BY <2>2, <2>3, <3>1, <3>3
      <4>2. x \in Int /\ y \in Int /\ d \in Int /\ u = x + 1 /\ v = y + 1
        BY <2>2, <3>1
      <4> HIDE DEF l, g, f
      <4>3. u + v - f <= 2 * g
        BY <4>1, <4>2
      <4> QED
        BY <4>3 DEF f, g
    <3>5. u \in 0 .. n /\ v \in 0 .. m
      BY <3>2
    <3> QED
      BY <2>1, <3>4, <3>5 DEF u, v
  <2>6. CASE ops[i].op # "EQUAL"
    <3>1. E[i] = d + 1
      BY <2>4, <2>6
    <3>2. CASE u = x + 1 /\ v = y /\ u <= n
      <4>1. u \in 1 .. n /\ u - 1 = x /\ v \in 0 .. m /\ u \in 0 .. n
        BY <2>2, <3>2
      <4>2. L[x][v] <= L[u][v] /\ L[u][v] \in Nat
        BY <1>4, <1>5, <4>1
      <4>3. u + v - E[i] <= 2 * L[u][v]
        BY <2>2, <2>3, <3>1, <3>2, <4>2, SMTT(60)
      <4> QED
        BY <2>1, <4>1, <4>3 DEF u, v
    <3>3. CASE u = x /\ v = y + 1 /\ v <= m
      <4>1. v \in 1 .. m /\ v - 1 = y /\ v \in 0 .. m /\ u \in 0 .. n
        BY <2>2, <3>3
      <4>2. L[u][y] <= L[u][v] /\ L[u][v] \in Nat
        BY <1>4, <1>5, <4>1
      <4>3. u + v - E[i] <= 2 * L[u][v]
        BY <2>2, <2>3, <3>1, <3>3, <4>2, SMTT(60)
      <4> QED
        BY <2>1, <4>1, <4>3 DEF u, v
    <3> QED
      BY <2>4, <2>6, <3>2, <3>3 DEF Move
  <2> QED
    BY <2>5, <2>6
<1>8. \A i \in 0 .. N : i \in T
  <2> HIDE DEF T
  <2> QED
    BY <1>3, <1>6, <1>7, UpTo
<1>9. N \in 0 .. N /\ E[N] \in Nat
  BY <1>2, <1>3
<1> QED
  BY <1>1, <1>8, <1>9

Short(vs, last, L, i, j) ==
    /\ L[i][j] <= i /\ L[i][j] <= j /\ L[i][j] \in Nat
    /\ i + j - 2 * L[i][j] <= last =>
          /\ i - j \in Diagonals(i + j - 2 * L[i][j])
          /\ vs[i + j - 2 * L[i][j] + 2][i - j] >= i

\* The search never takes more edits than what the table leaves over.
LEMMA SearchIsShort ==
    ASSUME NEW A, NEW B, NEW n \in Nat, NEW m \in Nat, n = Len(A), m = Len(B),
           NEW L, Entries(A, B, n, m, L), NEW vs \in Seq(Fronts), RoundsSoFar(A, B, vs),
           NEW last \in Nat, Len(vs) = last + 2,
           NEW i \in 0 .. n, NEW j \in 0 .. m
    PROVE  Short(vs, last, L, i, j)
<1>1. /\ \A a \in 0 .. n : \A b \in 0 .. m : L[a][b] \in Nat
      /\ \A a \in 0 .. n : L[a][0] = 0
      /\ \A b \in 0 .. m : L[0][b] = 0
      /\ \A a \in 1 .. n : \A b \in 1 .. m :
          L[a][b] = IF A[a].text = B[b].text THEN L[a - 1][b - 1] + 1
                    ELSE IF L[a - 1][b] >= L[a][b - 1] THEN L[a - 1][b] ELSE L[a][b - 1]
  BY DEF Entries
<1> DEFINE Below(a, b) == L[a][b] <= a /\ L[a][b] <= b
           Edits(a, b) == a + b - 2 * L[a][b]
           Far(a, b) == Edits(a, b) <= last => vs[Edits(a, b) + 2][a - b] >= a
           Good(a, b) == Below(a, b) /\ Far(a, b)
<1>2. ASSUME NEW a \in 0 .. n, NEW b \in 0 .. m, Below(a, b)
      PROVE  Edits(a, b) \in Nat /\ a - b \in Diagonals(Edits(a, b))
  <2>1. L[a][b] \in Nat
    BY <1>1
  <2> DEFINE l == L[a][b]
  <2>2. l \in Nat /\ l <= a /\ l <= b
    BY <1>2, <2>1
  <2> HIDE DEF l
  <2>3. a + b - 2 * l \in Nat /\ a - b \in -(a + b - 2 * l) .. a + b - 2 * l
    BY <2>2
  <2>4. (a - b) + (a + b - 2 * l) = 2 * (a - l)
    BY <2>2
  <2>5. a - l \in Int
    BY <2>2
  <2>6. \A z \in Int : (2 * z) % 2 = 0
    OBVIOUS
  <2>7. ((a - b) + (a + b - 2 * l)) % 2 = 0
    BY <2>4, <2>5, <2>6
  <2> QED
    BY <2>3, <2>7 DEF l, Diagonals
<1>3. \A d \in 0 .. last : ReachedBy(vs[d + 2], d)
  <2>1. Len(A) \in Nat /\ Len(B) \in Nat
    OBVIOUS
  <2> QED
    BY <2>1, RoundsReach
<1>4. ASSUME NEW a \in 0 .. n, NEW b \in 0 .. m, a = 0 \/ b = 0
      PROVE  Good(a, b)
  <2>1. L[a][b] = 0 /\ Below(a, b)
    BY <1>1, <1>4
  <2>2. Edits(a, b) = a + b
    BY <2>1
  <2>3. a + b \in Nat /\ a - b \in Diagonals(a + b)
    BY <1>2, <2>1, <2>2
  <2>4. ASSUME a + b <= last
        PROVE  vs[a + b + 2][a - b] >= a
    <3>1. a + b \in 0 .. last
      BY <2>3, <2>4
    <3> DEFINE w == vs[a + b + 2]
    <3>2. ReachedBy(w, a + b)
      BY <1>3, <3>1
    <3> HIDE DEF w
    <3>3. w[a - b] \in Nat /\ w[a - b] - (a - b) >= 0
      BY <2>3, <3>2 DEF ReachedBy
    <3>4. w[a - b] >= a
      BY <1>4, <3>3
    <3> QED
      BY <3>4 DEF w
  <2> QED
    BY <2>1, <2>2, <2>4
<1>5. ASSUME NEW a \in 1 .. n, NEW b \in 1 .. m, Good(a - 1, b - 1), Good(a - 1, b), Good(a, b - 1)
      PROVE  Good(a, b)
  <2>1. a \in 0 .. n /\ b \in 0 .. m /\ a - 1 \in 0 .. n /\ b - 1 \in 0 .. m
    OBVIOUS
  <2>2. L[a][b] \in Nat /\ L[a - 1][b] \in Nat /\ L[a][b - 1] \in Nat /\ L[a - 1][b - 1] \in Nat
    BY <1>1, <2>1
  <2>3. L[a][b] = IF A[a].text = B[b].text THEN L[a - 1][b - 1] + 1
                  ELSE IF L[a - 1][b] >= L[a][b - 1] THEN L[a - 1][b] ELSE L[a][b - 1]
    BY <1>1
  <2>4. CASE A[a].text = B[b].text
    <3> DEFINE g == L[a][b]
               l == L[a - 1][b - 1]
    <3>0. g \in Nat /\ l \in Nat /\ g = l + 1 /\ l <= a - 1 /\ l <= b - 1
      BY <1>5, <2>2, <2>3, <2>4
    <3>0a. g <= a /\ g <= b /\ a + b - 2 * g = (a - 1) + (b - 1) - 2 * l
      <4> HIDE DEF g, l
      <4> QED
        BY <3>0
    <3>1. Edits(a, b) = Edits(a - 1, b - 1)
      BY <3>0a
    <3>2. Below(a, b)
      BY <3>0a
    <3> HIDE DEF g, l
    <3> DEFINE e == Edits(a, b)
               k == a - b
               w == vs[e + 2]
    <3>3. e \in Nat /\ k \in Diagonals(e) /\ k \in Int
      BY <1>2, <2>1, <3>2
    <3>4. ASSUME e <= last
          PROVE  w[k] >= a
      <4>1. e \in 0 .. last
        BY <3>3, <3>4
      <4>2. w[k] \in Nat
        BY <1>3, <3>3, <4>1 DEF ReachedBy
      <4>3. w[k] >= a - 1
        <5>1. (a - 1) - (b - 1) = k
          OBVIOUS
        <5> DEFINE c == Edits(a - 1, b - 1)
                   k1 == (a - 1) - (b - 1)
        <5>2. c <= last => vs[c + 2][k1] >= a - 1
          BY <1>5
        <5>3. e = c /\ k1 = k
          BY <3>1, <5>1
        <5> HIDE DEF c, k1, e, k
        <5> QED
          BY <3>4, <5>2, <5>3
      <4>4. ~SameNext(A, B, w[k], w[k] - k)
        <5>0. Len(A) \in Nat /\ Len(B) \in Nat
          OBVIOUS
        <5>1. CASE e = 0
          <6>1. k = 0
            BY <3>3, <5>1, DiagonalsProperties
          <6>2. Extends(A, B, vs[1], vs[2], 0, 0)
            BY <5>0, RoundsReach
          <6>3. w = vs[2]
            BY <5>1
          <6> HIDE DEF w, e, k
          <6> QED
            BY <6>1, <6>2, <6>3 DEF Extends
        <5>2. CASE e # 0
          <6>1. e \in 1 .. last
            BY <3>3, <4>1, <5>2
          <6> HIDE DEF e, k
          <6>2. Extends(A, B, vs[e + 1], vs[e + 2], e, k)
            BY <3>3, <5>0, <6>1, RoundsReach
          <6> QED
            BY <6>2 DEF Extends
        <5> QED
          BY <5>1, <5>2
      <4>5. w[k] # a - 1
        <5>1. SUFFICES ASSUME w[k] = a - 1
                       PROVE  FALSE
          OBVIOUS
        <5>2. w[k] - k = b - 1 /\ w[k] + 1 = a /\ (w[k] - k) + 1 = b
          BY <5>1
        <5> HIDE DEF w, k
        <5>3. SameNext(A, B, w[k], w[k] - k)
          BY <2>4, <5>2 DEF SameNext
        <5> QED
          BY <4>4, <5>3
      <4> HIDE DEF w, k
      <4> QED
        BY <4>2, <4>3, <4>5
    <3> QED
      BY <3>2, <3>4
  <2>5. CASE A[a].text # B[b].text /\ L[a - 1][b] >= L[a][b - 1]
    <3> DEFINE g == L[a][b]
               l == L[a - 1][b]
               f == L[a][b - 1]
    <3>0. /\ g \in Nat /\ l \in Nat /\ f \in Nat /\ g = l /\ l <= a - 1 /\ l <= b
          /\ f <= b - 1 /\ l >= f
      BY <1>5, <2>2, <2>3, <2>5
    <3>0a. g <= a /\ g <= b /\ a + b - 2 * g = (a - 1) + b - 2 * l + 1
      <4> HIDE DEF g, l, f
      <4> QED
        BY <3>0
    <3>1. Edits(a, b) = Edits(a - 1, b) + 1
      BY <3>0a
    <3>2. Below(a, b)
      BY <3>0a
    <3> HIDE DEF g, l, f
    <3> DEFINE e == Edits(a, b)
               k == a - b
               c == Edits(a - 1, b)
    <3>3. e \in Nat /\ k \in Diagonals(e) /\ k \in Int
      BY <1>2, <2>1, <3>2
    <3>4. c \in Nat /\ (a - 1) - b \in Diagonals(c)
      BY <1>2, <1>5, <2>1
    <3>5a. e = c + 1
      BY <3>1
    <3>5b. (a - 1) - b = k - 1
      OBVIOUS
    <3>5. c = e - 1 /\ (a - 1) - b = k - 1
      <4> HIDE DEF e, c, k
      <4> QED
        BY <3>4, <3>5a, <3>5b
    <3>6. c <= last => vs[c + 2][(a - 1) - b] >= a - 1
      BY <1>5
    <3> HIDE DEF e, k, c
    <3>7. ASSUME e <= last
          PROVE  vs[e + 2][k] >= a
      <4>1. e \in 1 .. last /\ c + 2 = e + 1 /\ c <= last
        BY <3>3, <3>4, <3>5, <3>7
      <4>2. vs[e + 1][k - 1] >= a - 1 /\ k - 1 \in Diagonals(e - 1)
        BY <3>4, <3>5, <3>6, <4>1
      <4>3. Len(A) \in Nat /\ Len(B) \in Nat
        OBVIOUS
      <4>4. /\ ReachedBy(vs[e + 1], e - 1) /\ ReachedBy(vs[e + 2], e)
            /\ vs[e + 2][k] >= vs[e + 1][k - 1] + 1
        BY <3>3, <4>1, <4>2, <4>3, RoundsGrow
      <4>5. vs[e + 1][k - 1] \in Nat /\ vs[e + 2][k] \in Nat
        BY <3>3, <4>2, <4>4 DEF ReachedBy
      <4> DEFINE p == vs[e + 1][k - 1]
                 q == vs[e + 2][k]
      <4>6. p \in Nat /\ q \in Nat /\ p >= a - 1 /\ q >= p + 1
        BY <4>2, <4>4, <4>5
      <4> HIDE DEF p, q
      <4>7. q >= a
        BY <4>6
      <4> QED
        BY <4>7 DEF q
    <3> QED
      BY <3>2, <3>7 DEF e, k
  <2>6. CASE A[a].text # B[b].text /\ ~(L[a - 1][b] >= L[a][b - 1])
    <3> DEFINE g == L[a][b]
               l == L[a - 1][b]
               f == L[a][b - 1]
    <3>0. /\ g \in Nat /\ l \in Nat /\ f \in Nat /\ g = f /\ f <= a /\ f <= b - 1
      BY <1>5, <2>2, <2>3, <2>6
    <3>0a. g <= a /\ g <= b /\ a + b - 2 * g = a + (b - 1) - 2 * f + 1
      <4> HIDE DEF g, l, f
      <4> QED
        BY <3>0
    <3>1. Edits(a, b) = Edits(a, b - 1) + 1
      BY <3>0a
    <3>2. Below(a, b)
      BY <3>0a
    <3> HIDE DEF g, l, f
    <3> DEFINE e == Edits(a, b)
               k == a - b
               c == Edits(a, b - 1)
    <3>3. e \in Nat /\ k \in Diagonals(e) /\ k \in Int
      BY <1>2, <2>1, <3>2
    <3>4. c \in Nat /\ a - (b - 1) \in Diagonals(c)
      BY <1>2, <1>5, <2>1
    <3>5a. e = c + 1
      BY <3>1
    <3>5b. a - (b - 1) = k + 1
      OBVIOUS
    <3>5. c = e - 1 /\ a - (b - 1) = k + 1
      <4> HIDE DEF e, c, k
      <4> QED
        BY <3>4, <3>5a, <3>5b
    <3>6. c <= last => vs[c + 2][a - (b - 1)] >= a
      BY <1>5
    <3> HIDE DEF e, k, c
    <3>7. ASSUME e <= last
          PROVE  vs[e + 2][k] >= a
      <4>1. e \in 1 .. last /\ c + 2 = e + 1 /\ c <= last
        BY <3>3, <3>4, <3>5, <3>7
      <4>2. vs[e + 1][k + 1] >= a /\ k + 1 \in Diagonals(e - 1)
        BY <3>4, <3>5, <3>6, <4>1
      <4>3. Len(A) \in Nat /\ Len(B) \in Nat
        OBVIOUS
      <4>4. /\ ReachedBy(vs[e + 1], e - 1) /\ ReachedBy(vs[e + 2], e)
            /\ vs[e + 2][k] >= vs[e + 1][k + 1]
        BY <3>3, <4>1, <4>2, <4>3, RoundsGrow
      <4>5. vs[e + 1][k + 1] \in Nat /\ vs[e + 2][k] \in Nat
        BY <3>3, <4>2, <4>4 DEF ReachedBy
      <4> DEFINE p == vs[e + 1][k + 1]
                 q == vs[e + 2][k]
      <4>6. p \in Nat /\ q \in Nat /\ p >= a /\ q >= p
        BY <4>2, <4>4, <4>5
      <4> HIDE DEF p, q
      <4>7. q >= a
        BY <4>6
      <4> QED
        BY <4>7 DEF q
    <3> QED
      BY <3>2, <3>7 DEF e, k
  <2> QED
    BY <2>4, <2>5, <2>6
<1> HIDE DEF Good
<1> DEFINE T == {a \in 0 .. n : \A b \in 0 .. m : Good(a, b)}
<1>6. 0 \in T
  <2>1. 0 \in 0 .. n
    OBVIOUS
  <2> QED
    BY <1>4, <2>1
<1>7. ASSUME NEW a \in 1 .. n, a - 1 \in T
      PROVE  a \in T
  <2> DEFINE U == {b \in 0 .. m : Good(a, b)}
  <2>1. a \in 0 .. n /\ 0 \in 0 .. m
    OBVIOUS
  <2>2. 0 \in U
    BY <1>4, <2>1
  <2>3. ASSUME NEW b \in 1 .. m, b - 1 \in U
        PROVE  b \in U
    <3>1. b \in 0 .. m /\ b - 1 \in 0 .. m
      OBVIOUS
    <3>2. Good(a - 1, b - 1) /\ Good(a - 1, b) /\ Good(a, b - 1)
      BY <1>7, <2>3, <3>1
    <3> QED
      BY <1>5, <3>1, <3>2
  <2>4. \A b \in 0 .. m : b \in U
    <3> HIDE DEF U
    <3> QED
      BY <2>2, <2>3, UpTo
  <2> QED
    BY <2>1, <2>4
<1>8. \A a \in 0 .. n : a \in T
  <2> HIDE DEF T
  <2> QED
    BY <1>6, <1>7, UpTo
<1>9. Good(i, j)
  BY <1>8
<1>10. Below(i, j) /\ Far(i, j)
  BY <1>9 DEF Good
<1> QED
  BY <1>1, <1>2, <1>10 DEF Short

\* The edits of a script, counted.
LEMMA EditsCounted ==
    ASSUME NEW A, NEW B, NEW ops \in Seq(Op), NEW x, NEW y, NEW tox, NEW toy, NEW e,
           Leads(A, B, ops, x, y, tox, toy, e)
    PROVE  Cardinality({i \in DOMAIN ops : ops[i].op # "EQUAL"}) = e
<1> DEFINE N == Len(ops)
           S(n) == {i \in 1 .. n : ops[i].op # "EQUAL"}
<1>1. PICK X, Y, E : Walk(A, B, ops, X, Y, E) /\ E[N] = e
  BY DEF Leads
<1>2. /\ E \in [0 .. N -> Nat] /\ E[0] = 0
      /\ \A i \in 1 .. N : E[i] = E[i - 1] + (IF ops[i].op = "EQUAL" THEN 0 ELSE 1)
  BY <1>1 DEF Walk
<1>3. N \in Nat /\ DOMAIN ops = 1 .. N
  BY LenProperties
<1> HIDE DEF N
<1> DEFINE T == {i \in 0 .. N : IsFiniteSet(S(i)) /\ Cardinality(S(i)) = E[i]}
<1>4. 0 \in T
  <2>1. S(0) = {} /\ 0 \in 0 .. N
    BY <1>3
  <2> HIDE DEF S
  <2> QED
    BY <1>2, <2>1, FS_EmptySet
<1>5. ASSUME NEW i \in 1 .. N, i - 1 \in T
      PROVE  i \in T
  <2>1. i \in 0 .. N /\ i - 1 \in 0 .. N
    BY <1>3
  <2>2. IsFiniteSet(S(i - 1)) /\ Cardinality(S(i - 1)) = E[i - 1]
    BY <1>5
  <2>3. CASE ops[i].op = "EQUAL"
    <3>1. S(i) = S(i - 1)
      BY <2>1, <2>3
    <3>2. E[i] = E[i - 1]
      <4>1. E[i - 1] \in Nat
        BY <1>2, <2>1
      <4> QED
        BY <1>2, <2>3, <4>1
    <3> HIDE DEF S
    <3> QED
      BY <2>1, <2>2, <3>1, <3>2
  <2>4. CASE ops[i].op # "EQUAL"
    <3>1. S(i) = S(i - 1) \union {i} /\ i \notin S(i - 1)
      BY <2>1, <2>4
    <3>2. E[i] = E[i - 1] + 1
      BY <1>2, <2>4
    <3> HIDE DEF S
    <3>3. IsFiniteSet(S(i)) /\ Cardinality(S(i)) = Cardinality(S(i - 1)) + 1
      BY <2>2, <3>1, FS_AddElement
    <3> QED
      BY <2>1, <2>2, <3>2, <3>3
  <2> QED
    BY <2>3, <2>4
<1>6. \A i \in 0 .. N : i \in T
  <2> HIDE DEF T
  <2> QED
    BY <1>3, <1>4, <1>5, UpTo
<1>7. N \in 0 .. N
  BY <1>3
<1>8. Cardinality(S(N)) = e
  BY <1>1, <1>6, <1>7
<1> QED
  BY <1>3, <1>8

\* The script of two texts leaves alone exactly the tokens of a longest common
\* subsequence: it takes the table's count out of both, and no script could do with
\* fewer edits.
LEMMA ScriptIsShortest ==
    ASSUME NEW A, NEW B, Len(A) \in Nat, Len(B) \in Nat
    PROVE  /\ DiffTokenSequences(A, B) \in Seq(Op)
           /\ Cardinality({i \in DOMAIN DiffTokenSequences(A, B) :
                              DiffTokenSequences(A, B)[i].op # "EQUAL"})
                  = Len(A) + Len(B) - 2 * CommonWords(A, B)
<1> DEFINE ops == DiffTokenSequences(A, B)
           vs == Rounds(A, B)
           last == Len(vs) - 2
           n == Len(A)
           m == Len(B)
<1>1. n \in Nat /\ m \in Nat
  OBVIOUS
<1>2. ops \in Seq(Op) /\ Leads(A, B, ops, 0, 0, n, m, last)
  BY ScriptLeads
<1>3. /\ vs \in Seq(Fronts) /\ RoundsSoFar(A, B, vs)
      /\ last \in 0 .. n + m /\ Len(vs) = last + 2
      /\ Ends(A, B, vs[last + 2]) = {n - m}
  <2>1. vs = Rounds(A, B) /\ last = Len(vs) - 2 /\ n = Len(A) /\ m = Len(B)
    OBVIOUS
  <2> HIDE DEF vs, last
  <2>2. /\ vs \in Seq(Fronts) /\ RoundsSoFar(A, B, vs)
        /\ last \in 0 .. Len(A) + Len(B) /\ Len(vs) = last + 2
        /\ Ends(A, B, vs[last + 2]) = {Len(A) - Len(B)}
    <3>1. \A us : us = Rounds(A, B) => \A e : e = Len(us) - 2 =>
             /\ us \in Seq(Fronts) /\ RoundsSoFar(A, B, us)
             /\ e \in 0 .. Len(A) + Len(B) /\ Len(us) = e + 2
             /\ Len(A) - Len(B) \in Diagonals(e)
             /\ us[e + 2][Len(A) - Len(B)] = Len(A)
             /\ Ends(A, B, us[e + 2]) = {Len(A) - Len(B)}
      BY SearchEnds
    <3> QED
      BY ONLY <2>1, <3>1
  <2> QED
    BY <2>1, <2>2
<1>4. PICK L : Table(A, B, n, m, L) /\ CommonWords(A, B) = L[n][m]
  BY <1>1, CommonWordsIs
<1>5. Entries(A, B, n, m, L)
  BY <1>1, <1>4, TableIs
<1> DEFINE l == L[n][m]
           e0 == n + m - 2 * l
<1> HIDE DEF ops, vs, last
<1>6. last \in Nat /\ n + m - last <= 2 * l
  <2> HIDE DEF n, m, l
  <2>1. n = Len(A) /\ m = Len(B)
    BY DEF n, m
  <2>2. n + m - last <= 2 * L[n][m]
    BY <1>1, <1>2, <1>5, <2>1, ScriptShares
  <2> QED
    BY <1>3, <2>2 DEF l
<1>7. /\ l \in Nat /\ l <= n /\ l <= m
      /\ e0 <= last => n - m \in Diagonals(e0) /\ vs[e0 + 2][n - m] >= n
  <2> HIDE DEF n, m, l, e0
  <2>1. n = Len(A) /\ m = Len(B)
    BY DEF n, m
  <2>2. n \in 0 .. n /\ m \in 0 .. m
    BY <1>1
  <2>3. Short(vs, last, L, n, m)
    BY <1>1, <1>3, <1>5, <1>6, <2>1, <2>2, SearchIsShort
  <2> QED
    BY <2>3 DEF l, e0, Short
<1>8. e0 \in Nat /\ e0 <= last
  <2> HIDE DEF n, m, l
  <2> QED
    BY <1>1, <1>3, <1>6, <1>7
<1>9. last = e0
  <2>1. SUFFICES ASSUME last # e0
                 PROVE  FALSE
    OBVIOUS
  <2> DEFINE w == vs[e0 + 2]
             k == n - m
  <2>2. \A d \in 0 .. last : ReachedBy(vs[d + 2], d)
    BY <1>1, <1>3, <1>6, RoundsReach
  <2>3. e0 \in 0 .. last
    <3> HIDE DEF e0
    <3> QED
      BY <1>6, <1>8
  <2>4. ReachedBy(w, e0)
    BY <2>2, <2>3
  <2>5. k \in Diagonals(e0) /\ w[k] >= n
    <3> HIDE DEF e0
    <3> QED
      BY <1>7, <1>8
  <2> HIDE DEF w
  <2>6. k \in DOMAIN w /\ w[k] \in Nat
    BY <2>4, <2>5 DEF ReachedBy
  <2>7. w[k] - k >= m
    BY <1>1, <2>5, <2>6
  <2>8. k \in Ends(A, B, w)
    BY <2>5, <2>6, <2>7 DEF Ends
  <2>9. e0 + 2 \in 2 .. Len(vs) - 1
    <3> HIDE DEF e0
    <3> QED
      BY <1>3, <1>6, <1>8, <2>1
  <2>10. Ends(A, B, vs[e0 + 2]) = {}
    BY <1>3, <2>9 DEF RoundsSoFar
  <2> QED
    BY <2>8, <2>10 DEF w
<1>10. Cardinality({i \in DOMAIN ops : ops[i].op # "EQUAL"}) = last
  <2> HIDE DEF n, m
  <2> QED
    BY <1>2, EditsCounted
<1> QED
  BY <1>2, <1>4, <1>9, <1>10 DEF ops

----------------
\* Applying hunks one after the other.
Hunks(C) == [start : Int, end : Int, old : Str(C), new : Str(C)]
Results(C) == [text : Str(C), drift : Nat]

\* A text with a piece replaced, as three pieces.
LEMMA SplicedType ==
    ASSUME NEW C, NEW t \in Str(C), NEW a \in 0 .. Len(t), NEW b \in a .. Len(t), NEW s \in Str(C)
    PROVE  /\ Spliced(t, a, b, s) \in Str(C)
           /\ Spliced(t, a, b, s) = (Slice(t, 0, a) \o s) \o Slice(t, b, Len(t))
<1>1. Len(t) \in Nat
  BY StrProperties
<1>2. 0 \in 0 .. Len(t) /\ a \in 0 .. Len(t) /\ b \in 0 .. Len(t) /\ Len(t) \in b .. Len(t)
  BY <1>1
<1>3. Slice(t, 0, a) \in Str(C)
  BY <1>2, SliceProperties
<1>4. Slice(t, b, Len(t)) \in Str(C)
  BY <1>2, SliceProperties
<1>5. (Slice(t, 0, a) \o s) \o Slice(t, b, Len(t)) = Slice(t, 0, a) \o (s \o Slice(t, b, Len(t)))
  BY <1>3, <1>4, StrConcat, SMTT(60)
<1>6. (Slice(t, 0, a) \o s) \o Slice(t, b, Len(t)) \in Str(C)
  BY <1>3, <1>4, StrConcat
<1> QED
  BY <1>5, <1>6 DEF Spliced

\* Applying a hunk gives a result; one that fits replaces its piece and counts nothing.
LEMMA ApplyHunkType ==
    ASSUME NEW C, NEW r \in Results(C), NEW h \in Hunks(C)
    PROVE  /\ ApplyHunk(r, h) \in Results(C)
           /\ Fits(r.text, h) =>
                 ApplyHunk(r, h) = [text |-> Spliced(r.text, h.start, h.end, h.new), drift |-> r.drift]
<1>1. /\ r.text \in Str(C) /\ r.drift \in Nat /\ r = [text |-> r.text, drift |-> r.drift]
      /\ h.start \in Int /\ h.end \in Int /\ h.new \in Str(C)
  BY DEF Results, Hunks
<1>2. CASE Fits(r.text, h)
  <2>1. Len(r.text) \in Nat
    BY <1>1, StrProperties
  <2>2. h.start \in 0 .. Len(r.text) /\ h.end \in h.start .. Len(r.text)
    BY <1>1, <1>2, <2>1 DEF Fits, InBounds
  <2>3. Spliced(r.text, h.start, h.end, h.new) \in Str(C)
    BY <1>1, <2>2, SplicedType
  <2> DEFINE s == Spliced(r.text, h.start, h.end, h.new)
  <2>4. ApplyHunk(r, h) = [r EXCEPT !.text = s]
    BY <1>2 DEF ApplyHunk
  <2> HIDE DEF s
  <2>5. ApplyHunk(r, h) = [text |-> s, drift |-> r.drift]
    BY <1>1, <2>4
  <2> QED
    BY <1>1, <2>3, <2>5 DEF s, Results
<1>3. CASE ~Fits(r.text, h)
  <2>1. ApplyHunk(r, h) = [r EXCEPT !.drift = @ + 1]
    BY <1>3 DEF ApplyHunk
  <2>2. ApplyHunk(r, h) = [text |-> r.text, drift |-> r.drift + 1]
    BY <1>1, <2>1
  <2> QED
    BY <1>1, <1>3, <2>2 DEF Results
<1> QED
  BY <1>2, <1>3

\* The results after each of the hunks.
Steps(C, t, H, F) ==
    /\ F \in [0 .. Len(H) -> Results(C)]
    /\ F[0] = [text |-> t, drift |-> 0]
    /\ \A n \in 1 .. Len(H) : F[n] = ApplyHunk(F[n - 1], H[n])

\* The results after each of the hunks exist.
LEMMA StepsExist ==
    ASSUME NEW C, NEW t \in Str(C), NEW H \in Seq(Hunks(C))
    PROVE  \E F : Steps(C, t, H, F)
<1> DEFINE S == Results(C)
           N == Len(H)
           step == [n \in 1 .. N |-> [r \in S |-> ApplyHunk(r, H[n])]]
           b == [text |-> t, drift |-> 0]
<1>1. N \in Nat /\ \A n \in 1 .. N : H[n] \in Hunks(C)
  BY LenProperties, ElementOfSeq
<1>2. b \in S
  BY DEF Results
<1>3. step \in [1 .. N -> [S -> S]]
  BY <1>1, ApplyHunkType
<1>4. PICK F \in [0 .. N -> S] : F[0] = b /\ \A n \in 1 .. N : F[n] = step[n][F[n - 1]]
  <2> HIDE DEF step, S, N, b
  <2>1. PICK c \in S : c = b
    BY <1>2
  <2>2. N \in Nat /\ c \in S /\ step \in [1 .. N -> [S -> S]]
    BY <1>1, <1>3
  <2> DEFINE R == Recursion(S, c, N, step)
  <2>3. R \in [0 .. N -> S] /\ R[0] = c /\ \A n \in 1 .. N : R[n] = step[n][R[n - 1]]
    BY <2>2, RecursionIs
  <2> HIDE DEF R
  <2> QED
    BY <2>1, <2>3
<1>5. ASSUME NEW n \in 1 .. N
      PROVE  F[n] = ApplyHunk(F[n - 1], H[n])
  <2>1. F[n - 1] \in S
    BY <1>1, <1>4
  <2> QED
    BY <1>4, <2>1
<1> QED
  BY <1>4, <1>5 DEF Steps

\* Replaced is the last of them.
LEMMA ReplacedIs ==
    ASSUME NEW C, NEW t \in Str(C), NEW H \in Seq(Hunks(C)), NEW F, Steps(C, t, H, F)
    PROVE  Replaced(t, H) = F[Len(H)] /\ Replaced(t, H) \in Results(C)
<1> DEFINE N == Len(H)
           b == [text |-> t, drift |-> 0]
           G == CHOOSE g : g = [n \in 0 .. N |-> IF n = 0 THEN b
                    ELSE With(g[n - 1], LAMBDA r : ApplyHunk(r, H[n]))]
<1>1. N \in Nat
  BY LenProperties
<1>2. /\ F \in [0 .. N -> Results(C)]
      /\ F[0] = b
      /\ \A n \in 1 .. N : F[n] = ApplyHunk(F[n - 1], H[n])
  BY DEF Steps
<1>3. Replaced(t, H) = G[N]
  BY DEF Replaced
<1> HIDE DEF N, b
<1>4. F = [n \in 0 .. N |-> IF n = 0 THEN b ELSE With(F[n - 1], LAMBDA r : ApplyHunk(r, H[n]))]
  <2>1. \A n \in 1 .. N : With(F[n - 1], LAMBDA r : ApplyHunk(r, H[n])) = F[n]
    BY <1>2 DEF With
  <2>2. \A n \in 0 .. N : n = 0 \/ n \in 1 .. N
    BY <1>1
  <2>3. \A n \in 0 .. N : F[n] = IF n = 0 THEN b ELSE With(F[n - 1], LAMBDA r : ApplyHunk(r, H[n]))
    BY <1>2, <2>1, <2>2
  <2>4. F = [n \in 0 .. N |-> F[n]]
    BY <1>2
  <2> QED
    BY <2>3, <2>4
<1>5. G = [n \in 0 .. N |-> IF n = 0 THEN b ELSE With(G[n - 1], LAMBDA r : ApplyHunk(r, H[n]))]
  BY <1>4
<1> HIDE DEF G
<1> DEFINE T == {n \in 0 .. N : G[n] = F[n]}
<1>6. 0 \in T
  BY <1>1, <1>2, <1>5
<1>7. ASSUME NEW n \in 1 .. N, n - 1 \in T
      PROVE  n \in T
  <2>1. n \in 0 .. N /\ n # 0
    BY <1>1
  <2>2. G[n] = With(G[n - 1], LAMBDA r : ApplyHunk(r, H[n]))
    BY <1>5, <2>1
  <2>3. G[n] = ApplyHunk(G[n - 1], H[n])
    BY <2>2 DEF With
  <2> QED
    BY <1>2, <1>7, <2>1, <2>3
<1>8. N \in T
  <2>1. \A n \in 0 .. N : n \in T
    <3> HIDE DEF T
    <3> QED
      BY <1>1, <1>6, <1>7, UpTo
  <2> QED
    BY <1>1, <2>1
<1>9. F[N] \in Results(C)
  BY <1>1, <1>2
<1> QED
  BY <1>3, <1>8, <1>9 DEF N

\* Nothing to apply; and a first hunk that fits.
LEMMA ReplacedNothing ==
    ASSUME NEW C, NEW t \in Str(C)
    PROVE  Replaced(t, <<>>) = [text |-> t, drift |-> 0]
<1>1. <<>> \in Seq(Hunks(C)) /\ Len(<<>>) = 0
  BY EmptySeq
<1>2. PICK F : Steps(C, t, <<>>, F)
  BY <1>1, StepsExist
<1> QED
  BY <1>1, <1>2, ReplacedIs DEF Steps

\* Applying hunks to a text gives a text and a count.
LEMMA ReplacedType ==
    ASSUME NEW C, NEW t \in Str(C), NEW H \in Seq(Hunks(C))
    PROVE  Replaced(t, H) \in Results(C)
<1>1. PICK F : Steps(C, t, H, F)
  BY StepsExist
<1> QED
  BY <1>1, ReplacedIs

\* A first hunk that fits is replaced, and the others are applied to what it leaves.
LEMMA ReplacedFirst ==
    ASSUME NEW C, NEW t \in Str(C), NEW H \in Seq(Hunks(C)), NEW h \in Hunks(C), Fits(t, h)
    PROVE  /\ Spliced(t, h.start, h.end, h.new) \in Str(C)
           /\ Replaced(t, <<h>> \o H) = Replaced(Spliced(t, h.start, h.end, h.new), H)
<1> DEFINE s == Spliced(t, h.start, h.end, h.new)
           G == <<h>> \o H
           N == Len(H)
           b == [text |-> t, drift |-> 0]
<1>1. N \in Nat
  BY LenProperties
<1>2. G \in Seq(Hunks(C)) /\ Len(G) = N + 1 /\ G[1] = h /\ \A n \in 1 .. N : G[n + 1] = H[n]
  <2>1. <<h>> \in Seq(Hunks(C)) /\ Len(<<h>>) = 1 /\ <<h>>[1] = h
    OBVIOUS
  <2>2. G \in Seq(Hunks(C)) /\ Len(G) = 1 + N
    BY <2>1, ConcatProperties
  <2>3. \A n \in 1 .. 1 + N : G[n] = IF n <= 1 THEN <<h>>[n] ELSE H[n - 1]
    BY <2>1, ConcatProperties
  <2>4. G[1] = h
    BY <1>1, <2>1, <2>3
  <2>5. \A n \in 1 .. N : G[n + 1] = H[n]
    <3>1. \A n \in 1 .. N : n + 1 \in 1 .. 1 + N /\ ~(n + 1 <= 1) /\ (n + 1) - 1 = n
      BY <1>1
    <3> HIDE DEF G, N
    <3> QED
      BY <2>3, <3>1
  <2> QED
    BY <1>1, <2>2, <2>4, <2>5
<1>3. b \in Results(C) /\ b.text = t /\ b.drift = 0
  BY DEF Results
<1>4. ApplyHunk(b, h) = [text |-> s, drift |-> 0] /\ s \in Str(C)
  <2>1. ApplyHunk(b, h) = [text |-> s, drift |-> 0] /\ ApplyHunk(b, h) \in Results(C)
    <3> HIDE DEF b
    <3> QED
      BY <1>3, ApplyHunkType
  <2> HIDE DEF s
  <2>2. [text |-> s, drift |-> 0].text = s
    OBVIOUS
  <2>3. [text |-> s, drift |-> 0].text \in Str(C)
    BY <2>1 DEF Results
  <2> QED
    BY <2>1, <2>2, <2>3
<1> HIDE DEF s, G
<1>5. PICK F : Steps(C, s, H, F)
  BY <1>4, StepsExist
<1>6. /\ F \in [0 .. N -> Results(C)] /\ F[0] = [text |-> s, drift |-> 0]
      /\ \A n \in 1 .. N : F[n] = ApplyHunk(F[n - 1], H[n])
  BY <1>5 DEF Steps
<1> HIDE DEF N
<1> DEFINE E == [n \in 0 .. N + 1 |-> IF n = 0 THEN b ELSE F[n - 1]]
<1>7. Steps(C, t, G, E)
  <2>1. E \in [0 .. N + 1 -> Results(C)]
    <3>1. \A n \in 0 .. N + 1 : n = 0 \/ n - 1 \in 0 .. N
      BY <1>1
    <3> HIDE DEF b
    <3> QED
      BY <1>3, <1>6, <3>1
  <2>2. E[0] = b
    BY <1>1
  <2>3. ASSUME NEW n \in 1 .. N + 1
        PROVE  E[n] = ApplyHunk(E[n - 1], G[n])
    <3>1. E[n] = F[n - 1] /\ n \in 0 .. N + 1 /\ n - 1 \in 0 .. N + 1
      BY <1>1
    <3>2. CASE n = 1
      BY <1>1, <1>2, <1>4, <1>6, <2>2, <3>1, <3>2
    <3>3. CASE n # 1
      <4>1. n - 1 \in 1 .. N /\ n - 1 # 0 /\ (n - 1) + 1 = n
        BY <1>1, <3>3
      <4>2. E[n - 1] = F[(n - 1) - 1] /\ F[n - 1] = ApplyHunk(F[(n - 1) - 1], H[n - 1])
        BY <1>6, <3>1, <4>1
      <4>3. G[n] = H[n - 1]
        BY <1>2, <4>1
      <4> QED
        BY <3>1, <4>2, <4>3
    <3> QED
      BY <3>2, <3>3
  <2> HIDE DEF E
  <2> QED
    BY <1>2, <2>1, <2>2, <2>3 DEF Steps
<1>8. Replaced(t, G) = E[Len(G)]
  <2> HIDE DEF E
  <2> QED
    BY <1>2, <1>7, ReplacedIs
<1>9. E[N + 1] = F[N]
  BY <1>1
<1>10. Replaced(s, H) = F[N]
  BY <1>4, <1>5, ReplacedIs DEF N
<1> QED
  BY <1>2, <1>4, <1>8, <1>9, <1>10 DEF s, G

----------------
\* Beginnings of a sequence, and a sequence backwards.
Front(s, n) == SubSeq(s, 1, n)

\* A beginning, its length and its members, and the beginning with one more.
LEMMA FrontProperties ==
    ASSUME NEW S, NEW s \in Seq(S)
    PROVE  /\ Front(s, 0) = <<>> /\ Front(s, Len(s)) = s
           /\ \A n \in 0 .. Len(s) : Front(s, n) \in Seq(S) /\ Len(Front(s, n)) = n
           /\ \A n \in 0 .. Len(s) : \A i \in 1 .. n : Front(s, n)[i] = s[i]
           /\ \A n \in 1 .. Len(s) : Front(s, n) = Append(Front(s, n - 1), s[n])
<1>1. Len(s) \in Nat
  BY LenProperties
<1>2. ASSUME NEW n \in 0 .. Len(s)
      PROVE  /\ Front(s, n) \in Seq(S) /\ Len(Front(s, n)) = n
             /\ \A i \in 1 .. n : Front(s, n)[i] = s[i]
  <2>1. n \in Nat /\ n <= Len(s)
    BY <1>1
  <2>2. \A i \in 1 .. n : i \in 1 .. Len(s) /\ s[i] \in S
    BY <1>1, <2>1, ElementOfSeq
  <2>3. Front(s, n) = [i \in 1 .. n |-> s[i]]
    <3>1. Front(s, n) = [i \in 1 .. (n - 1 + 1) |-> s[i + 1 - 1]]
      BY <2>1 DEF Front
    <3>2. n - 1 + 1 = n /\ \A i \in 1 .. n : i + 1 - 1 = i
      BY <2>1
    <3> QED
      BY <3>1, <3>2
  <2>4. Front(s, n) \in [1 .. n -> S]
    BY <2>2, <2>3
  <2> QED
    BY <2>1, <2>3, <2>4
<1>3. Front(s, 0) = <<>>
  <2>1. 0 \in 0 .. Len(s)
    BY <1>1
  <2> QED
    BY <1>2, <2>1, EmptySeq
<1>4. Front(s, Len(s)) = s
  <2>1. Len(s) \in 0 .. Len(s)
    BY <1>1
  <2> QED
    BY <1>2, <2>1, SeqEqual
<1>5. ASSUME NEW n \in 1 .. Len(s)
      PROVE  Front(s, n) = Append(Front(s, n - 1), s[n])
  <2>1. n \in 0 .. Len(s) /\ n - 1 \in 0 .. Len(s) /\ s[n] \in S
    BY <1>1, ElementOfSeq
  <2> DEFINE p == Front(s, n - 1)
             q == Front(s, n)
  <2>2. /\ p \in Seq(S) /\ Len(p) = n - 1 /\ q \in Seq(S) /\ Len(q) = n
        /\ \A i \in 1 .. n - 1 : p[i] = s[i]
        /\ \A i \in 1 .. n : q[i] = s[i]
    BY <1>2, <2>1
  <2> HIDE DEF p, q
  <2>3. /\ Append(p, s[n]) \in Seq(S) /\ Len(Append(p, s[n])) = (n - 1) + 1
        /\ \A i \in 1 .. n - 1 : Append(p, s[n])[i] = p[i]
        /\ Append(p, s[n])[(n - 1) + 1] = s[n]
    BY <2>1, <2>2, AppendProperties
  <2>4. (n - 1) + 1 = n /\ \A i \in 1 .. n : i = n \/ i \in 1 .. n - 1
    BY <1>1
  <2>5. \A i \in 1 .. n : q[i] = Append(p, s[n])[i]
    BY <2>2, <2>3, <2>4
  <2>6. Len(q) = Len(Append(p, s[n]))
    BY <2>2, <2>3, <2>4
  <2>7. q = Append(p, s[n])
    BY <2>2, <2>3, <2>5, <2>6, SeqEqual
  <2> QED
    BY <2>7 DEF p, q
<1> QED
  BY <1>2, <1>3, <1>4, <1>5

\* A sequence backwards, member by member.
LEMMA ReverseIs ==
    ASSUME NEW S, NEW s \in Seq(S)
    PROVE  /\ Q!Reverse(s) \in Seq(S) /\ Len(Q!Reverse(s)) = Len(s)
           /\ \A i \in 1 .. Len(s) : Q!Reverse(s)[i] = s[(Len(s) - i) + 1]
<1>1. Len(s) \in Nat
  BY LenProperties
<1>2. \A i \in 1 .. Len(s) : (Len(s) - i) + 1 \in 1 .. Len(s)
  BY <1>1
<1>3. \A i \in 1 .. Len(s) : s[(Len(s) - i) + 1] \in S
  BY <1>2, ElementOfSeq
<1>4. Q!Reverse(s) \in [1 .. Len(s) -> S]
  BY <1>3 DEF Q!Reverse
<1> QED
  BY <1>1, <1>4 DEF Q!Reverse

\* The last of a sequence is the first of it backwards.
LEMMA ReverseAppend ==
    ASSUME NEW S, NEW s \in Seq(S), NEW x \in S
    PROVE  Q!Reverse(Append(s, x)) = <<x>> \o Q!Reverse(s)
<1> DEFINE n == Len(s)
           z == Append(s, x)
           r == Q!Reverse(s)
           p == Q!Reverse(z)
           q == <<x>> \o r
<1>1. n \in Nat
  BY LenProperties
<1>2. z \in Seq(S) /\ Len(z) = n + 1 /\ z[n + 1] = x /\ \A i \in 1 .. n : z[i] = s[i]
  BY AppendProperties
<1>3. r \in Seq(S) /\ Len(r) = n /\ \A i \in 1 .. n : r[i] = s[(n - i) + 1]
  BY ReverseIs
<1> HIDE DEF z, r, n
<1>4. p \in Seq(S) /\ Len(p) = n + 1 /\ \A i \in 1 .. n + 1 : p[i] = z[((n + 1) - i) + 1]
  BY <1>2, ReverseIs
<1>5. /\ q \in Seq(S) /\ Len(q) = 1 + n
      /\ \A i \in 1 .. 1 + n : q[i] = IF i <= 1 THEN <<x>>[i] ELSE r[i - 1]
  <2>1. <<x>> \in Seq(S) /\ Len(<<x>>) = 1
    OBVIOUS
  <2> QED
    BY <1>3, <2>1, ConcatProperties
<1> HIDE DEF p, q
<1>6. ASSUME NEW i \in 1 .. n + 1
      PROVE  p[i] = q[i]
  <2>1. CASE i = 1
    <3>1. ((n + 1) - i) + 1 = n + 1 /\ i \in 1 .. 1 + n
      BY <1>1, <2>1
    <3> QED
      BY <1>2, <1>4, <1>5, <2>1, <3>1
  <2>2. CASE i # 1
    <3>1. /\ i - 1 \in 1 .. n /\ i \in 1 .. 1 + n /\ ~(i <= 1)
          /\ ((n + 1) - i) + 1 = (n - (i - 1)) + 1 /\ (n - (i - 1)) + 1 \in 1 .. n
      BY <1>1, <2>2
    <3> DEFINE k == (n - (i - 1)) + 1
               j == i - 1
    <3>2. q[i] = r[j] /\ r[j] = s[k] /\ z[k] = s[k] /\ p[i] = z[k]
      <4>1. q[i] = r[i - 1]
        BY <1>5, <3>1
      <4>2. r[i - 1] = s[(n - (i - 1)) + 1]
        BY <1>3, <3>1
      <4>3. z[(n - (i - 1)) + 1] = s[(n - (i - 1)) + 1]
        BY <1>2, <3>1
      <4>4. p[i] = z[(n - (i - 1)) + 1]
        BY <1>4, <3>1
      <4> QED
        BY <4>1, <4>2, <4>3, <4>4
    <3> QED
      BY <3>2
  <2> QED
    BY <2>1, <2>2
<1>7. Len(p) = Len(q) /\ Len(p) = n + 1
  BY <1>1, <1>4, <1>5
<1>8. p = q
  BY <1>4, <1>5, <1>6, <1>7, SeqEqual
<1> QED
  BY <1>8 DEF p, q, z, r

\* A sequence turned around twice is itself.
LEMMA ReverseTwice ==
    ASSUME NEW S, NEW s \in Seq(S)
    PROVE  Q!Reverse(Q!Reverse(s)) = s
<1> DEFINE n == Len(s)
           r == Q!Reverse(s)
           p == Q!Reverse(r)
<1>1. n \in Nat
  BY LenProperties
<1>2. r \in Seq(S) /\ Len(r) = n /\ \A i \in 1 .. n : r[i] = s[(n - i) + 1]
  BY ReverseIs
<1> HIDE DEF r
<1>3. p \in Seq(S) /\ Len(p) = n /\ \A i \in 1 .. n : p[i] = r[(n - i) + 1]
  BY <1>2, ReverseIs
<1> HIDE DEF p, n
<1>4. \A i \in 1 .. n : (n - i) + 1 \in 1 .. n /\ (n - ((n - i) + 1)) + 1 = i
  BY <1>1
<1>5. \A i \in 1 .. n : p[i] = s[i]
  BY <1>2, <1>3, <1>4
<1>6. p = s
  BY <1>2, <1>3, <1>5, SeqEqual DEF n
<1> QED
  BY <1>6 DEF p, r

----------------
\* What hunks in ascending order, a gap between any two, make of a stretch of a text:
\* where each of them ends, and what has been written by then.
Within(C, t, H, a, gap, E, P) ==
    /\ E \in [0 .. Len(H) -> Nat] /\ P \in [0 .. Len(H) -> Str(C)]
    /\ E[0] = a /\ P[0] = <<>>
    /\ \A n \in 1 .. Len(H) :
        /\ E[n - 1] <= H[n].start /\ (n > 1 => E[n - 1] + gap <= H[n].start)
        /\ Fits(t, H[n]) /\ E[n] = H[n].end
        /\ P[n] = (P[n - 1] \o Slice(t, E[n - 1], H[n].start)) \o H[n].new
Makes(C, t, H, a, b, u, gap) ==
    \E E, P : /\ Within(C, t, H, a, gap, E, P)
              /\ E[Len(H)] <= b /\ b \in 0 .. Len(t)
              /\ u = P[Len(H)] \o Slice(t, E[Len(H)], b)

\* Three texts joined in either order, and a text carried on by a slice and the one after it.
Joins(p, q, r) == (p \o q) \o r = p \o (q \o r)
Goes(p, t, e, b, c) == (p \o Slice(t, e, b)) \o Slice(t, b, c) = p \o Slice(t, e, c)

\* Three texts, joined in either order.
LEMMA StrJoin ==
    ASSUME NEW C, NEW p \in Str(C), NEW q \in Str(C), NEW r \in Str(C)
    PROVE  Joins(p, q, r)
<1>1. \A x, y, z \in Str(C) : (x \o y) \o z = x \o (y \o z)
  BY StrConcat
<1>2. (p \o q) \o r = p \o (q \o r)
  BY ONLY <1>1, p \in Str(C), q \in Str(C), r \in Str(C)
<1> QED
  BY ONLY <1>2 DEF Joins

\* A slice and the one after it, written behind a text.
LEMMA SliceMore ==
    ASSUME NEW C, NEW p \in Str(C), NEW t \in Str(C),
           NEW e \in 0 .. Len(t), NEW b \in e .. Len(t), NEW c \in b .. Len(t)
    PROVE  Goes(p, t, e, b, c)
<1> DEFINE q == Slice(t, e, b)
           r == Slice(t, b, c)
<1>1. Len(t) \in Nat
  BY StrProperties
<1>2. b \in 0 .. Len(t)
  BY <1>1
<1>3. q \in Str(C)
  BY SliceProperties
<1>4. r \in Str(C)
  BY <1>2, SliceProperties
<1>5. q \o r = Slice(t, e, c)
  BY SliceJoin
<1> HIDE DEF q, r
<1>6. (p \o q) \o r = p \o (q \o r)
  <2>j. Joins(p, q, r)
    BY ONLY StrJoin, p \in Str(C), <1>3, <1>4
  <2> QED
    BY ONLY <2>j DEF Joins
<1>7. (p \o q) \o r = p \o Slice(t, e, c)
  BY ONLY <1>5, <1>6
<1>8. (p \o Slice(t, e, b)) \o Slice(t, b, c) = p \o Slice(t, e, c)
  BY ONLY <1>7 DEF q, r
<1> QED
  BY ONLY <1>8 DEF Goes

\* A hunk that fits a text lies inside it and its old text stands there.
LEMMA FitsIs ==
    ASSUME NEW C, NEW t \in Str(C), NEW h \in Hunks(C), Fits(t, h)
    PROVE  /\ h.start \in 0 .. Len(t) /\ h.end \in h.start .. Len(t)
           /\ h.end \in 0 .. Len(t)
           /\ Slice(t, h.start, h.end) = h.old /\ h.new \in Str(C) /\ h.old \in Str(C)
<1>1. Len(t) \in Nat
  BY StrProperties
<1>2. h.start \in Int /\ h.end \in Int /\ h.new \in Str(C) /\ h.old \in Str(C)
  BY DEF Hunks
<1> QED
  BY <1>1, <1>2 DEF Fits, InBounds

\* No hunks make of a stretch what it is.
LEMMA MakesNothing ==
    ASSUME NEW C, NEW t \in Str(C), NEW a \in 0 .. Len(t), NEW b \in a .. Len(t), NEW gap
    PROVE  Makes(C, t, <<>>, a, b, Slice(t, a, b), gap)
<1>1. Len(t) \in Nat
  BY StrProperties
<1>2. a \in Nat /\ a <= b /\ b \in 0 .. Len(t)
  BY <1>1
<1>3. Slice(t, a, b) \in Str(C) /\ <<>> \in Str(C)
  BY SliceProperties, StrProperties
<1> DEFINE E == [n \in 0 .. 0 |-> a]
           P == [n \in 0 .. 0 |-> <<>>]
<1>4. Len(<<>>) = 0
  BY EmptySeq
<1>5. E[0] = a /\ P[0] = <<>> /\ E \in [0 .. 0 -> Nat] /\ P \in [0 .. 0 -> Str(C)]
  BY <1>2, <1>3
<1> HIDE DEF E, P
<1>6. Within(C, t, <<>>, a, gap, E, P)
  BY <1>4, <1>5 DEF Within
<1>7. P[0] \o Slice(t, E[0], b) = Slice(t, a, b)
  BY <1>3, <1>5, StrConcat
<1> QED
  BY <1>2, <1>4, <1>5, <1>6, <1>7 DEF Makes

\* What hunks make of a stretch is a text.
LEMMA MakesText ==
    ASSUME NEW C, NEW t \in Str(C), NEW H \in Seq(Hunks(C)), NEW a, NEW b, NEW u, NEW gap,
           Makes(C, t, H, a, b, u, gap)
    PROVE  u \in Str(C) /\ b \in 0 .. Len(t)
<1>1. PICK E, P : /\ Within(C, t, H, a, gap, E, P)
                  /\ E[Len(H)] <= b /\ b \in 0 .. Len(t)
                  /\ u = P[Len(H)] \o Slice(t, E[Len(H)], b)
  BY DEF Makes
<1>2. Len(H) \in Nat /\ Len(t) \in Nat
  BY LenProperties, StrProperties
<1> DEFINE e == E[Len(H)]
           p == P[Len(H)]
<1>3. e \in Nat /\ p \in Str(C)
  BY <1>1, <1>2 DEF Within
<1>4. e <= b /\ b \in 0 .. Len(t) /\ u = p \o Slice(t, e, b)
  BY <1>1
<1> HIDE DEF e, p
<1>5. e \in 0 .. Len(t) /\ b \in e .. Len(t)
  BY <1>2, <1>3, <1>4
<1>6. Slice(t, e, b) \in Str(C)
  BY <1>5, SliceProperties
<1> QED
  BY <1>3, <1>4, <1>6, StrConcat

\* Beyond the last hunk the text is copied.
LEMMA MakesExtend ==
    ASSUME NEW C, NEW t \in Str(C), NEW H \in Seq(Hunks(C)), NEW a, NEW b, NEW u, NEW gap,
           Makes(C, t, H, a, b, u, gap), NEW c \in b .. Len(t)
    PROVE  Makes(C, t, H, a, c, u \o Slice(t, b, c), gap)
<1>1. PICK E, P : /\ Within(C, t, H, a, gap, E, P)
                  /\ E[Len(H)] <= b /\ b \in 0 .. Len(t)
                  /\ u = P[Len(H)] \o Slice(t, E[Len(H)], b)
  BY DEF Makes
<1>2. Len(H) \in Nat /\ Len(t) \in Nat
  BY LenProperties, StrProperties
<1> DEFINE e == E[Len(H)]
           p == P[Len(H)]
<1>3. e \in Nat /\ p \in Str(C)
  BY <1>1, <1>2 DEF Within
<1>4. e <= b /\ b \in 0 .. Len(t) /\ u = p \o Slice(t, e, b)
  BY <1>1
<1> HIDE DEF e, p
<1>5. /\ e \in 0 .. Len(t) /\ b \in e .. Len(t) /\ c \in b .. Len(t) /\ c \in 0 .. Len(t) /\ e <= c
      /\ b \in 0 .. Len(t)
  BY <1>2, <1>3, <1>4
<1>9. u \o Slice(t, b, c) = p \o Slice(t, e, c)
  <2>1. p \in Str(C)
    BY <1>3
  <2>2. e \in 0 .. Len(t)
    BY <1>5
  <2>3. b \in e .. Len(t)
    BY <1>5
  <2>4. c \in b .. Len(t)
    BY <1>5
  <2>5. (p \o Slice(t, e, b)) \o Slice(t, b, c) = p \o Slice(t, e, c)
    <3>j. Goes(p, t, e, b, c)
      BY ONLY t \in Str(C), <2>1, <2>2, <2>3, <2>4, SliceMore
    <3> QED
      BY ONLY <3>j DEF Goes
  <2> QED
    BY <1>4, <2>5
<1> QED
  BY <1>1, <1>5, <1>9 DEF e, p, Makes

\* One more hunk, a gap behind the stretch, adds its new text.
LEMMA MakesAppend ==
    ASSUME NEW C, NEW t \in Str(C), NEW H \in Seq(Hunks(C)), NEW a, NEW b, NEW u, NEW gap \in Nat,
           Makes(C, t, H, a, b, u, gap), NEW h \in Hunks(C), Fits(t, h), b <= h.start,
           H = <<>> \/ b + gap <= h.start
    PROVE  Makes(C, t, Append(H, h), a, h.end, (u \o Slice(t, b, h.start)) \o h.new, gap)
<1>1. PICK E, P : /\ Within(C, t, H, a, gap, E, P)
                  /\ E[Len(H)] <= b /\ b \in 0 .. Len(t)
                  /\ u = P[Len(H)] \o Slice(t, E[Len(H)], b)
  BY DEF Makes
<1> DEFINE N == Len(H)
           e == E[N]
           p == P[N]
           G == Append(H, h)
           s == h.start
<1>2. N \in Nat /\ Len(t) \in Nat
  BY LenProperties, StrProperties
<1>3. e \in Nat /\ p \in Str(C)
  BY <1>1, <1>2 DEF Within
<1>4. e <= b /\ b \in 0 .. Len(t) /\ u = p \o Slice(t, e, b)
  BY <1>1
<1>5. s \in 0 .. Len(t) /\ h.end \in s .. Len(t) /\ h.end \in 0 .. Len(t) /\ h.new \in Str(C)
  BY FitsIs
<1>6. G \in Seq(Hunks(C)) /\ Len(G) = N + 1 /\ G[N + 1] = h /\ \A n \in 1 .. N : G[n] = H[n]
  BY AppendProperties
<1>7. /\ E \in [0 .. N -> Nat] /\ P \in [0 .. N -> Str(C)]
      /\ E[0] = a /\ P[0] = <<>>
      /\ \A n \in 1 .. N :
          /\ E[n - 1] <= H[n].start /\ (n > 1 => E[n - 1] + gap <= H[n].start)
          /\ Fits(t, H[n]) /\ E[n] = H[n].end
          /\ P[n] = (P[n - 1] \o Slice(t, E[n - 1], H[n].start)) \o H[n].new
  BY <1>1 DEF Within
<1>8. b <= s /\ (N = 0 \/ b + gap <= s)
  <2>1. H = <<>> => N = 0
    BY EmptySeq
  <2> QED
    BY <2>1
<1> HIDE DEF N, e, p, G, s
<1>9. e <= s /\ (N = 0 \/ e + gap <= s) /\ e \in 0 .. Len(t) /\ b \in e .. Len(t) /\ s \in b .. Len(t)
  BY <1>2, <1>3, <1>4, <1>5, <1>8
<1>10. Slice(t, e, b) \in Str(C)
  BY <1>9, SliceProperties
<1>11. Slice(t, b, s) \in Str(C)
  BY <1>4, <1>9, SliceProperties
<1>13. u \o Slice(t, b, s) = p \o Slice(t, e, s)
  <2>1. p \in Str(C)
    BY <1>3
  <2>2. e \in 0 .. Len(t)
    BY <1>9
  <2>3. b \in e .. Len(t)
    BY <1>9
  <2>4. s \in b .. Len(t)
    BY <1>9
  <2>5. Goes(p, t, e, b, s)
    BY ONLY t \in Str(C), <2>1, <2>2, <2>3, <2>4, SliceMore
  <2> QED
    BY <1>4, <2>5 DEF Goes
<1> DEFINE v == (u \o Slice(t, b, s)) \o h.new
           E1 == [n \in 0 .. N + 1 |-> IF n = N + 1 THEN h.end ELSE E[n]]
           P1 == [n \in 0 .. N + 1 |-> IF n = N + 1 THEN v ELSE P[n]]
<1>14. v \in Str(C)
  <2>1. u \in Str(C)
    BY <1>3, <1>4, <1>10, StrConcat
  <2>2. u \o Slice(t, b, s) \in Str(C)
    BY <1>11, <2>1, StrConcat
  <2> QED
    BY <1>5, <2>2, StrConcat
<1>15. v = (p \o Slice(t, e, s)) \o h.new
  BY <1>13
<1> HIDE DEF v
<1>16. /\ E1 \in [0 .. N + 1 -> Nat] /\ P1 \in [0 .. N + 1 -> Str(C)]
       /\ \A n \in 0 .. N : E1[n] = E[n] /\ P1[n] = P[n]
       /\ E1[N + 1] = h.end /\ P1[N + 1] = v
  <2>1. \A n \in 0 .. N + 1 : n = N + 1 \/ n \in 0 .. N
    BY <1>2
  <2>2. h.end \in Nat
    BY <1>2, <1>5
  <2>3. \A n \in 0 .. N : n \in 0 .. N + 1 /\ n # N + 1
    BY <1>2
  <2>4. N + 1 \in 0 .. N + 1
    BY <1>2
  <2> QED
    BY <1>7, <1>14, <2>1, <2>2, <2>3, <2>4
<1> HIDE DEF E1, P1
<1>17. ASSUME NEW n \in 1 .. N + 1
       PROVE  /\ E1[n - 1] <= G[n].start /\ (n > 1 => E1[n - 1] + gap <= G[n].start)
              /\ Fits(t, G[n]) /\ E1[n] = G[n].end
              /\ P1[n] = (P1[n - 1] \o Slice(t, E1[n - 1], G[n].start)) \o G[n].new
  <2>1. CASE n = N + 1
    <3>1. n - 1 = N /\ N \in 0 .. N /\ (n > 1 => N # 0)
      BY <1>2, <2>1
    <3>2. G[n] = h /\ E1[n - 1] = e /\ P1[n - 1] = p /\ E1[n] = h.end /\ P1[n] = v
      BY <1>6, <1>16, <2>1, <3>1 DEF e, p
    <3> QED
      BY <1>9, <1>15, <3>1, <3>2 DEF s
  <2>2. CASE n # N + 1
    <3>1. n \in 1 .. N /\ n \in 0 .. N /\ n - 1 \in 0 .. N
      BY <1>2, <2>2
    <3>2. G[n] = H[n] /\ E1[n - 1] = E[n - 1] /\ P1[n - 1] = P[n - 1] /\ E1[n] = E[n] /\ P1[n] = P[n]
      BY <1>6, <1>16, <3>1
    <3> QED
      BY <1>7, <3>1, <3>2
  <2> QED
    BY <2>1, <2>2
<1>18. Within(C, t, G, a, gap, E1, P1)
  <2>1. 0 \in 0 .. N
    BY <1>2
  <2>2. E1[0] = a /\ P1[0] = <<>>
    BY <1>7, <1>16, <2>1
  <2> QED
    BY <1>6, <1>16, <1>17, <2>2 DEF Within
<1>19. Slice(t, h.end, h.end) = <<>>
  BY <1>5, SliceEmpty
<1>20. v = P1[Len(G)] \o Slice(t, E1[Len(G)], h.end)
  BY <1>6, <1>14, <1>16, <1>19, StrConcat
<1>21. E1[Len(G)] <= h.end
  <2>1. h.end \in Int
    BY <1>2, <1>5
  <2> QED
    BY <1>6, <1>16, <2>1
<1>22. Makes(C, t, G, a, h.end, v, gap)
  BY <1>5, <1>18, <1>20, <1>21 DEF Makes
<1> QED
  BY <1>22 DEF G, v, s

\* A slice of a slice is a slice.
LEMMA SliceOfSlice ==
    ASSUME NEW C, NEW t \in Str(C), NEW c \in 0 .. Len(t), NEW d \in c .. Len(t),
           NEW x \in 0 .. d - c, NEW y \in x .. d - c
    PROVE  Slice(Slice(t, c, d), x, y) = Slice(t, c + x, c + y)
<1> DEFINE s == Slice(t, c, d)
           p == Slice(s, x, y)
           q == Slice(t, c + x, c + y)
<1>1. Len(t) \in Nat
  BY StrProperties
<1>2. c \in Nat /\ d \in Nat /\ x \in Nat /\ y \in Nat /\ d - c \in Nat /\ d <= Len(t)
  BY <1>1
<1>3. s \in Str(C) /\ Len(s) = d - c /\ \A i \in 1 .. d - c : s[i] = t[c + i]
  BY SliceProperties
<1> HIDE DEF s
<1>4. x \in 0 .. Len(s) /\ y \in x .. Len(s)
  BY <1>3
<1>5. p \in Str(C) /\ Len(p) = y - x /\ \A i \in 1 .. y - x : p[i] = s[x + i]
  <2>1. s \in Str(C)
    BY <1>3
  <2> QED
    BY ONLY <1>4, <2>1, SliceProperties
<1>6. c + x \in 0 .. Len(t) /\ c + y \in c + x .. Len(t) /\ (c + y) - (c + x) = y - x
  BY <1>1, <1>2
<1>7. q \in Str(C) /\ Len(q) = y - x /\ \A i \in 1 .. y - x : q[i] = t[(c + x) + i]
  <2> DEFINE f == c + x
             g == c + y
  <2>1. f \in 0 .. Len(t) /\ g \in f .. Len(t) /\ g - f = y - x
    BY <1>6
  <2> HIDE DEF f, g
  <2>2. /\ Slice(t, f, g) \in Str(C) /\ Len(Slice(t, f, g)) = g - f
        /\ \A i \in 1 .. g - f : Slice(t, f, g)[i] = t[f + i]
    BY <2>1, SliceProperties
  <2>3. /\ Slice(t, f, g) \in Str(C) /\ Len(Slice(t, f, g)) = y - x
        /\ \A i \in 1 .. y - x : Slice(t, f, g)[i] = t[f + i]
    BY <2>1, <2>2
  <2> QED
    BY <2>3 DEF f, g
<1> HIDE DEF p, q
<1>8. \A i \in 1 .. y - x : x + i \in 1 .. d - c /\ c + (x + i) = (c + x) + i
  BY <1>2
<1>9. \A i \in 1 .. Len(p) : p[i] = q[i]
  BY <1>3, <1>5, <1>7, <1>8
<1>10. p = q
  BY <1>5, <1>7, <1>9, StrEqual
<1> QED
  BY <1>10 DEF p, q, s

\* A hunk with other places is a hunk.
LEMMA HunkMoved ==
    ASSUME NEW C, NEW g \in Hunks(C), NEW s \in Int, NEW e \in Int
    PROVE  /\ [g EXCEPT !.start = s, !.end = e] = [start |-> s, end |-> e, old |-> g.old, new |-> g.new]
           /\ [start |-> s, end |-> e, old |-> g.old, new |-> g.new] \in Hunks(C)
<1>1. g \in [start : Int, end : Int, old : Str(C), new : Str(C)]
  BY DEF Hunks
<1> DEFINE x == [g EXCEPT !.start = s, !.end = e]
<1>2. x \in [start : Int, end : Int, old : Str(C), new : Str(C)]
  BY <1>1
<1>3. x.start = s /\ x.end = e /\ x.old = g.old /\ x.new = g.new
  BY <1>1
<1>4. g.old \in Str(C) /\ g.new \in Str(C)
  BY <1>1
<1> HIDE DEF x
<1>5. x = [start |-> s, end |-> e, old |-> g.old, new |-> g.new]
  BY <1>2, <1>3
<1> QED
  BY <1>4, <1>5 DEF x, Hunks

\* Hunks moved by an offset, one by one.
LEMMA LiftedIs ==
    ASSUME NEW C, NEW G \in Seq(Hunks(C)), NEW c \in Int
    PROVE  /\ Lifted(G, c) \in Seq(Hunks(C)) /\ Len(Lifted(G, c)) = Len(G)
           /\ \A n \in 1 .. Len(G) :
               Lifted(G, c)[n] = [start |-> G[n].start + c, end |-> G[n].end + c,
                                  old |-> G[n].old, new |-> G[n].new]
<1>1. Len(G) \in Nat /\ DOMAIN G = 1 .. Len(G)
  BY LenProperties
<1>2. ASSUME NEW n \in 1 .. Len(G)
      PROVE  /\ [G[n] EXCEPT !.start = @ + c, !.end = @ + c]
                    = [start |-> G[n].start + c, end |-> G[n].end + c, old |-> G[n].old, new |-> G[n].new]
             /\ [start |-> G[n].start + c, end |-> G[n].end + c, old |-> G[n].old, new |-> G[n].new]
                    \in Hunks(C)
  <2>1. G[n] \in Hunks(C)
    BY ElementOfSeq
  <2> DEFINE g == G[n]
  <2>2. /\ g = [start |-> g.start, end |-> g.end, old |-> g.old, new |-> g.new]
        /\ g.start \in Int /\ g.end \in Int /\ g.old \in Str(C) /\ g.new \in Str(C)
    <3> HIDE DEF g
    <3>1. g \in [start : Int, end : Int, old : Str(C), new : Str(C)]
      BY <2>1 DEF Hunks, g
    <3> QED
      BY <3>1
  <2> HIDE DEF g
  <2>3. g \in Hunks(C) /\ g.start + c \in Int /\ g.end + c \in Int
    BY <2>1, <2>2 DEF g
  <2>4. [g EXCEPT !.start = @ + c, !.end = @ + c] = [g EXCEPT !.start = g.start + c, !.end = g.end + c]
    OBVIOUS
  <2>5. /\ [g EXCEPT !.start = g.start + c, !.end = g.end + c]
                = [start |-> g.start + c, end |-> g.end + c, old |-> g.old, new |-> g.new]
        /\ [start |-> g.start + c, end |-> g.end + c, old |-> g.old, new |-> g.new] \in Hunks(C)
    BY <2>3, HunkMoved
  <2> QED
    BY <2>4, <2>5 DEF g
<1>3. Lifted(G, c) = [n \in 1 .. Len(G) |-> [start |-> G[n].start + c, end |-> G[n].end + c,
                                             old |-> G[n].old, new |-> G[n].new]]
  BY <1>1, <1>2 DEF Lifted
<1>4. Lifted(G, c) \in [1 .. Len(G) -> Hunks(C)]
  BY <1>2, <1>3
<1> QED
  BY <1>1, <1>3, <1>4

\* The hunks lie in the stretch, one after the other.
LEMMA MakesSpan ==
    ASSUME NEW C, NEW t \in Str(C), NEW H \in Seq(Hunks(C)), NEW a, NEW b, NEW u, NEW gap \in Nat,
           Makes(C, t, H, a, b, u, gap)
    PROVE  /\ \A n \in 1 .. Len(H) : Fits(t, H[n]) /\ a <= H[n].start /\ H[n].end <= b
           /\ \A m, n \in 1 .. Len(H) : m < n => H[m].end + gap <= H[n].start
<1> DEFINE N == Len(H)
<1>1. PICK E, P : /\ Within(C, t, H, a, gap, E, P)
                  /\ E[N] <= b /\ b \in 0 .. Len(t)
  BY DEF Makes
<1>2. N \in Nat /\ Len(t) \in Nat
  BY LenProperties, StrProperties
<1>3. /\ E \in [0 .. N -> Nat] /\ E[0] = a
      /\ \A n \in 1 .. N :
          /\ E[n - 1] <= H[n].start /\ (n > 1 => E[n - 1] + gap <= H[n].start)
          /\ Fits(t, H[n]) /\ E[n] = H[n].end
  BY <1>1 DEF Within
<1>4. \A n \in 1 .. N : /\ H[n].start \in Nat /\ H[n].end \in Nat /\ H[n].start <= H[n].end
                        /\ H[n].end = E[n] /\ Fits(t, H[n]) /\ E[n - 1] \in Nat /\ E[n] \in Nat
                        /\ E[n - 1] <= H[n].start /\ (n > 1 => E[n - 1] + gap <= H[n].start)
  <2> TAKE n \in 1 .. N
  <2>1. H[n] \in Hunks(C) /\ Fits(t, H[n])
    BY <1>3, ElementOfSeq
  <2> DEFINE h == H[n]
  <2>2. h.start \in 0 .. Len(t) /\ h.end \in h.start .. Len(t)
    <3> HIDE DEF h
    <3>1. h \in Hunks(C) /\ Fits(t, h)
      BY <2>1 DEF h
    <3> QED
      BY <3>1, FitsIs
  <2>3. n \in 0 .. N /\ n - 1 \in 0 .. N
    BY <1>2
  <2>4. h.start \in Nat /\ h.end \in Nat /\ h.start <= h.end
    <3> HIDE DEF h
    <3> QED
      BY <1>2, <2>2
  <2> QED
    BY <1>3, <2>3, <2>4
<1> HIDE DEF N
<1>5. ASSUME NEW m \in 0 .. N
      PROVE  \A n \in m .. N : E[m] <= E[n] /\ (n > m /\ m > 0 => E[m] + gap <= H[n].start)
                                            /\ (n > m => E[m] <= H[n].start)
  <2> DEFINE T == {n \in 0 .. N : n >= m => /\ E[m] <= E[n]
                                            /\ (n > m /\ m > 0 => E[m] + gap <= H[n].start)
                                            /\ (n > m => E[m] <= H[n].start)}
  <2>1. E[m] \in Nat
    BY <1>3
  <2>2. 0 \in T
    <3>1. 0 \in 0 .. N /\ (0 >= m => m = 0) /\ ~(0 > m)
      BY <1>2
    <3> QED
      BY <2>1, <3>1
  <2>3. ASSUME NEW n \in 1 .. N, n - 1 \in T
        PROVE  n \in T
    <3>1. n \in 0 .. N /\ n - 1 \in 0 .. N
      BY <1>2
    <3>2. CASE n < m
      BY <3>1, <3>2
    <3>3. CASE n = m
      BY <2>1, <3>1, <3>3
    <3>4. CASE n > m
      <4>1. E[m] <= E[n - 1]
        BY <2>3, <3>1, <3>4
      <4> DEFINE x == E[m]
                 y == E[n - 1]
                 z == E[n]
                 s == H[n].start
      <4>2. x \in Nat /\ y \in Nat /\ z \in Nat /\ s \in Nat /\ x <= y /\ y <= s /\ s <= z
        BY <1>4, <2>1, <4>1
      <4>3. n > 1 => y + gap <= s
        BY <1>4
      <4>4. m > 0 => n > 1
        BY <3>4
      <4> HIDE DEF x, y, z, s
      <4>5. x <= z /\ x <= s /\ (m > 0 => x + gap <= s)
        BY <4>2, <4>3, <4>4
      <4> QED
        BY <3>1, <4>5 DEF x, z, s
    <3> QED
      BY <3>2, <3>3, <3>4
  <2>4. \A n \in 0 .. N : n \in T
    <3> HIDE DEF T
    <3> QED
      BY <1>2, <2>2, <2>3, UpTo
  <2>5. \A n \in m .. N : n \in 0 .. N /\ n >= m
    BY <1>2
  <2> QED
    BY <2>4, <2>5
<1>6. ASSUME NEW n \in 1 .. N
      PROVE  Fits(t, H[n]) /\ a <= H[n].start /\ H[n].end <= b
  <2>1. 0 \in 0 .. N /\ n \in 0 .. N /\ n > 0 /\ N \in n .. N /\ n \in 0 .. N
    BY <1>2
  <2>2. E[0] <= H[n].start /\ E[n] <= E[N]
    BY <1>5, <2>1
  <2> DEFINE z == E[n]
             w == E[N]
  <2>3. z \in Nat /\ w \in Nat /\ z <= w /\ w <= b /\ b \in Nat
    BY <1>1, <1>2, <1>3, <2>1, <2>2
  <2> HIDE DEF z, w
  <2>4. z <= b
    BY <2>3
  <2> QED
    BY <1>3, <1>4, <2>2, <2>4 DEF z
<1>7. ASSUME NEW m \in 1 .. N, NEW n \in 1 .. N, m < n
      PROVE  H[m].end + gap <= H[n].start
  <2>1. m \in 0 .. N /\ n \in m .. N /\ n > m /\ m > 0
    BY <1>2, <1>7
  <2>2. E[m] + gap <= H[n].start
    BY <1>5, <2>1
  <2> QED
    BY <1>4, <2>2
<1> QED
  BY <1>6, <1>7 DEF N

\* Hunks that make one text of another, put where that text stands in a longer one
\* and behind the hunks before it.
LEMMA MakesMore ==
    ASSUME NEW C, NEW t \in Str(C), NEW H \in Seq(Hunks(C)), NEW a, NEW b, NEW u, NEW gap \in Nat,
           Makes(C, t, H, a, b, u, gap),
           NEW s \in Str(C), NEW G \in Seq(Hunks(C)), NEW v, Makes(C, s, G, 0, Len(s), v, gap),
           NEW c \in b .. Len(t), c + Len(s) <= Len(t), Slice(t, c, c + Len(s)) = s,
           H = <<>> \/ b + gap <= c
    PROVE  /\ H \o Lifted(G, c) \in Seq(Hunks(C))
           /\ Makes(C, t, H \o Lifted(G, c), a, c + Len(s), (u \o Slice(t, b, c)) \o v, gap)
<1> DEFINE L == Lifted(G, c)
           N == Len(G)
           l == Len(s)
           K(k) == H \o Front(L, k)
           base0 == u \o Slice(t, b, c)
<1>0. \A x, y, z \in Str(C) : (x \o y) \o z = x \o (y \o z)
  BY StrConcat
<1>1. u \in Str(C) /\ b \in 0 .. Len(t)
  BY MakesText
<1>2. Len(t) \in Nat /\ l \in Nat /\ N \in Nat /\ b \in Nat /\ c \in Nat /\ c \in 0 .. Len(t)
  <2>1. Len(t) \in Nat /\ l \in Nat /\ N \in Nat
    BY LenProperties, StrProperties
  <2> QED
    BY <1>1, <2>1
<1>3. PICK E, P : /\ Within(C, s, G, 0, gap, E, P)
                  /\ E[N] <= l /\ l \in 0 .. l
                  /\ v = P[N] \o Slice(s, E[N], l)
  BY DEF Makes
<1>4. /\ E \in [0 .. N -> Nat] /\ P \in [0 .. N -> Str(C)]
      /\ E[0] = 0 /\ P[0] = <<>>
      /\ \A n \in 1 .. N :
          /\ E[n - 1] <= G[n].start /\ (n > 1 => E[n - 1] + gap <= G[n].start)
          /\ Fits(s, G[n]) /\ E[n] = G[n].end
          /\ P[n] = (P[n - 1] \o Slice(s, E[n - 1], G[n].start)) \o G[n].new
  BY <1>3 DEF Within
<1>5. /\ L \in Seq(Hunks(C)) /\ Len(L) = N
      /\ \A n \in 1 .. N : L[n] = [start |-> G[n].start + c, end |-> G[n].end + c,
                                   old |-> G[n].old, new |-> G[n].new]
  BY <1>2, LiftedIs
<1>6. base0 \in Str(C)
  <2>1. Slice(t, b, c) \in Str(C)
    BY <1>1, SliceProperties
  <2> QED
    BY <1>1, <2>1, StrConcat
<1> HIDE DEF L, base0, N, l
<1>7. /\ Front(L, 0) = <<>> /\ Front(L, N) = L
      /\ \A n \in 0 .. N : Front(L, n) \in Seq(Hunks(C))
      /\ \A n \in 1 .. N : Front(L, n) = Append(Front(L, n - 1), L[n])
  BY <1>5, FrontProperties
<1>8. /\ K(0) = H /\ K(N) = H \o L
      /\ \A n \in 0 .. N : K(n) \in Seq(Hunks(C))
      /\ \A n \in 1 .. N : K(n) = Append(K(n - 1), L[n])
  <2>1. H \o <<>> = H
    BY ConcatEmptySeq
  <2>2. \A n \in 0 .. N : K(n) \in Seq(Hunks(C))
    BY <1>7, ConcatProperties
  <2>3. ASSUME NEW n \in 1 .. N
        PROVE  K(n) = Append(K(n - 1), L[n])
    <3>1. n - 1 \in 0 .. N /\ L[n] \in Hunks(C)
      BY <1>2, <1>5, ElementOfSeq
    <3> DEFINE F == Front(L, n - 1)
               x == L[n]
    <3>2. F \in Seq(Hunks(C)) /\ x \in Hunks(C)
      BY <1>7, <3>1
    <3>3. Front(L, n) = Append(F, x)
      BY <1>7
    <3> HIDE DEF F, x
    <3>4. H \o Append(F, x) = Append(H \o F, x)
      BY <3>2, SMTT(60)
    <3> QED
      BY <3>3, <3>4 DEF F, x
  <2> QED
    BY <1>7, <2>1, <2>2, <2>3
<1> HIDE DEF K
<1>9. ASSUME NEW n \in 1 .. N, n > 1 => Makes(C, t, K(n - 1), a, c + E[n - 1], base0 \o P[n - 1], gap)
      PROVE  Makes(C, t, K(n), a, c + E[n], base0 \o P[n], gap)
  <2> DEFINE h == L[n]
             g == G[n]
             e == E[n - 1]
             p == P[n - 1]
             x == g.start
  <2>1. n \in 0 .. N /\ n - 1 \in 0 .. N
    BY <1>2
  <2>2. /\ e \in Nat /\ p \in Str(C) /\ e <= x /\ (n > 1 => e + gap <= x)
        /\ Fits(s, g) /\ E[n] = g.end /\ P[n] = (p \o Slice(s, e, x)) \o g.new
    BY <1>4, <2>1
  <2>3. g \in Hunks(C) /\ h \in Hunks(C)
    BY <1>5, ElementOfSeq DEF N
  <2>4. h.start = x + c /\ h.end = g.end + c /\ h.old = g.old /\ h.new = g.new
    BY <1>5
  <2>5. n = 1 => e = 0 /\ p = <<>>
    BY <1>4
  <2>6. K(n) = Append(K(n - 1), h) /\ K(n - 1) \in Seq(Hunks(C))
    BY <1>8, <2>1
  <2> HIDE DEF h, g, e, p
  <2>7. /\ x \in 0 .. l /\ g.end \in x .. l /\ g.end \in 0 .. l
        /\ Slice(s, x, g.end) = g.old /\ g.new \in Str(C)
    BY <2>2, <2>3, FitsIs DEF l
  <2> DEFINE y == g.end
  <2>7a. y \in x .. l /\ y \in 0 .. l /\ Slice(s, x, y) = g.old
    BY <2>7
  <2> HIDE DEF x, y
  <2>8. c + l \in c .. Len(t) /\ (c + l) - c = l /\ c + l <= Len(t)
    BY <1>2 DEF l
  <2>9. Slice(t, c, c + l) = s
    BY DEF l
  <2>10. \A i \in 0 .. l : \A j \in i .. l : Slice(s, i, j) = Slice(t, c + i, c + j)
    <3> DEFINE d == c + l
    <3>1. c \in 0 .. Len(t) /\ d \in c .. Len(t) /\ d - c = l
      BY <1>2, <2>8
    <3>2. Slice(t, c, d) = s
      BY <2>9
    <3> HIDE DEF d
    <3> TAKE i \in 0 .. l
    <3> TAKE j \in i .. l
    <3>3. i \in 0 .. d - c /\ j \in i .. d - c
      BY <3>1
    <3>4. Slice(Slice(t, c, d), i, j) = Slice(t, c + i, c + j)
      BY <3>1, <3>3, SliceOfSlice
    <3> QED
      BY <3>2, <3>4
  <2>11. Fits(t, h)
    <3>1. Slice(t, c + x, c + y) = g.old
      BY <2>7, <2>7a, <2>10
    <3>2. h.start = c + x /\ h.end = c + y
      BY <1>2, <2>4, <2>7, <2>7a DEF x, y
    <3>3. 0 <= c + x /\ c + x <= c + y /\ c + y <= Len(t)
      BY <1>2, <2>7, <2>7a, <2>8, SMTT(60)
    <3> QED
      BY <2>4, <3>1, <3>2, <3>3 DEF Fits, InBounds
  <2>12. h.start = c + x /\ h.end = c + y /\ h.new = g.new /\ c + x \in Nat
    BY <1>2, <2>4, <2>7, <2>7a, SMTT(60) DEF x, y
  <2>13. Slice(s, e, x) = Slice(t, c + e, c + x) /\ e \in 0 .. l /\ x \in e .. l
    <3>1. e \in 0 .. l /\ x \in e .. l
      BY <1>2, <2>2, <2>7 DEF x
    <3> QED
      BY <2>10, <3>1
  <2>14. CASE n > 1
    <3>1. Makes(C, t, K(n - 1), a, c + e, base0 \o p, gap)
      BY <1>9, <2>14 DEF e, p
    <3>2. c + e <= h.start /\ (c + e) + gap <= h.start
      BY <1>2, <2>2, <2>7, <2>12, <2>14, SMTT(60) DEF x
    <3>3. Makes(C, t, Append(K(n - 1), h), a, h.end, ((base0 \o p) \o Slice(t, c + e, h.start)) \o h.new, gap)
      <4> DEFINE b1 == c + e
                 u1 == base0 \o p
                 H1 == K(n - 1)
      <4>1. /\ H1 \in Seq(Hunks(C)) /\ Makes(C, t, H1, a, b1, u1, gap) /\ h \in Hunks(C)
            /\ Fits(t, h) /\ b1 <= h.start /\ b1 + gap <= h.start
        BY <2>3, <2>6, <2>11, <3>1, <3>2
      <4> HIDE DEF b1, u1, H1
      <4>2. Makes(C, t, Append(H1, h), a, h.end, (u1 \o Slice(t, b1, h.start)) \o h.new, gap)
        BY <4>1, MakesAppend
      <4> QED
        BY <4>2 DEF b1, u1, H1
    <3>4. ((base0 \o p) \o Slice(t, c + e, h.start)) \o h.new = base0 \o P[n]
      <4> DEFINE q == Slice(s, e, x)
                 r == g.new
      <4>1. q \in Str(C) /\ r \in Str(C) /\ base0 \in Str(C) /\ p \in Str(C)
        <5>1. q \in Str(C)
          BY <2>13, SliceProperties DEF l
        <5> QED
          BY <1>6, <2>2, <2>7, <5>1
      <4>2. Slice(t, c + e, h.start) = q /\ h.new = r /\ P[n] = (p \o q) \o r
        BY <2>2, <2>12, <2>13
      <4> HIDE DEF q, r
      <4>3. (base0 \o p) \o q = base0 \o (p \o q) /\ p \o q \in Str(C)
        <5>1. (base0 \o p) \o q = base0 \o (p \o q)
          <6>j. Joins(base0, p, q)
            BY ONLY <4>1, StrJoin
          <6> QED
            BY ONLY <6>j DEF Joins
        <5> QED
          BY <4>1, <5>1, StrConcat
      <4> DEFINE w == p \o q
      <4>4. (base0 \o w) \o r = base0 \o (w \o r)
        <5>1. w \in Str(C)
          BY <4>3
        <5> HIDE DEF w
        <5>j. Joins(base0, w, r)
          BY ONLY <4>1, <5>1, StrJoin
        <5> QED
          BY ONLY <5>j DEF Joins
      <4> QED
        BY ONLY <4>2, <4>3, <4>4
    <3> QED
      BY <2>6, <2>12, <3>3, <3>4, <2>2 DEF y
  <2>15. CASE n = 1
    <3>1. K(n - 1) = H
      BY <1>8, <2>15
    <3>2. b <= h.start /\ (H = <<>> \/ b + gap <= h.start)
      <4>1. c <= h.start
        BY <1>2, <2>7, <2>12
      <4> QED
        BY <1>2, <2>12, <4>1
    <3>3. Makes(C, t, Append(H, h), a, h.end, (u \o Slice(t, b, h.start)) \o h.new, gap)
      BY <2>3, <2>11, <3>2, MakesAppend
    <3>4. u \o Slice(t, b, h.start) = base0 \o Slice(t, c, c + x)
      <4> DEFINE f == c + x
      <4>1. f \in c .. Len(t) /\ h.start = f
        BY <1>2, <2>7, <2>8, <2>12, SMTT(60)
      <4> HIDE DEF f
      <4>2. (u \o Slice(t, b, c)) \o Slice(t, c, f) = u \o Slice(t, b, f)
        <5>j. Goes(u, t, b, c, f)
          BY ONLY t \in Str(C), <1>1, c \in b .. Len(t), <4>1, SliceMore
        <5> QED
          BY ONLY <5>j DEF Goes
      <4> QED
        BY <4>1, <4>2 DEF base0, f
    <3>5. Slice(t, c, c + x) = Slice(s, e, x) /\ p \o Slice(s, e, x) = Slice(s, e, x)
      <4>1. c + e = c
        BY <1>2, <2>5, <2>15
      <4>2. Slice(s, e, x) \in Str(C)
        BY <2>13, SliceProperties DEF l
      <4> QED
        BY <2>5, <2>13, <2>15, <4>1, <4>2, StrConcat
    <3>6. (u \o Slice(t, b, h.start)) \o h.new = base0 \o P[n]
      <4> DEFINE q == Slice(s, e, x)
                 r == g.new
      <4>1. q \in Str(C) /\ r \in Str(C) /\ base0 \in Str(C)
        <5>1. q \in Str(C)
          BY <2>13, SliceProperties DEF l
        <5> QED
          BY <1>6, <2>7, <5>1
      <4>2. u \o Slice(t, b, h.start) = base0 \o q /\ h.new = r /\ P[n] = q \o r
        BY <2>2, <2>12, <3>4, <3>5
      <4> HIDE DEF q, r
      <4>3. (base0 \o q) \o r = base0 \o (q \o r)
        <5>1. Joins(base0, q, r)
          BY ONLY <4>1, StrJoin
        <5> QED
          BY ONLY <5>1 DEF Joins
      <4> QED
        BY ONLY <4>2, <4>3
    <3> QED
      BY <2>2, <2>6, <2>12, <3>1, <3>3, <3>6 DEF y
  <2> QED
    BY <1>2, <2>14, <2>15
<1> DEFINE T == {n \in 0 .. N : n = 0 \/ Makes(C, t, K(n), a, c + E[n], base0 \o P[n], gap)}
<1>10. \A n \in 0 .. N : n \in T
  <2>1. 0 \in T
    BY <1>2
  <2>2. ASSUME NEW n \in 1 .. N, n - 1 \in T
        PROVE  n \in T
    <3>1. n \in 0 .. N /\ (n > 1 => n - 1 # 0)
      BY <1>2
    <3>2. n > 1 => Makes(C, t, K(n - 1), a, c + E[n - 1], base0 \o P[n - 1], gap)
      BY <2>2, <3>1
    <3>3. Makes(C, t, K(n), a, c + E[n], base0 \o P[n], gap)
      BY <1>9, <3>2
    <3> QED
      BY <3>1, <3>3
  <2> HIDE DEF T
  <2> QED
    BY <1>2, <2>1, <2>2, UpTo
<1>11. /\ Makes(C, t, K(N), a, c + E[N], base0 \o P[N], gap)
  <2>1. CASE N = 0
    <3>1. K(N) = H /\ E[N] = 0 /\ P[N] = <<>> /\ c + 0 = c
      BY <1>2, <1>4, <1>8, <2>1
    <3>2. Makes(C, t, H, a, c, base0, gap)
      BY MakesExtend DEF base0
    <3>3. base0 \o <<>> = base0
      BY <1>6, StrConcat
    <3> QED
      BY <1>2, <3>1, <3>2, <3>3
  <2>2. CASE N # 0
    <3>1. N \in 0 .. N
      BY <1>2
    <3> QED
      BY <1>10, <2>2, <3>1
  <2> QED
    BY <2>1, <2>2
<1>12. Makes(C, t, K(N), a, c + l, base0 \o v, gap)
  <2> DEFINE e == E[N]
             p == P[N]
             f == c + e
             z == c + l
             q == Slice(s, e, l)
  <2>1. e \in Nat /\ p \in Str(C) /\ e <= l /\ v = p \o q
    BY <1>2, <1>3, <1>4
  <2>2. e \in 0 .. l /\ l \in e .. l
    BY <1>2, <2>1
  <2>3. q \in Str(C)
    <3>1. e \in 0 .. Len(s) /\ Len(s) \in e .. Len(s)
      BY <2>2 DEF l
    <3>2. Slice(s, e, Len(s)) \in Str(C)
      <4> HIDE DEF e
      <4> QED
        BY <3>1, SliceProperties
    <3> QED
      BY <3>2 DEF l
  <2>4. q = Slice(t, f, z)
    <3>1. c \in 0 .. Len(t) /\ z \in c .. Len(t) /\ z - c = l
      BY <1>2 DEF l
    <3>2. e \in 0 .. z - c /\ l \in e .. z - c
      BY <2>2, <3>1
    <3>3. Slice(t, c, z) = s
      BY DEF l
    <3> HIDE DEF z, e
    <3>4. Slice(Slice(t, c, z), e, l) = Slice(t, c + e, c + l)
      BY <3>1, <3>2, SliceOfSlice
    <3> QED
      BY <3>3, <3>4 DEF z
  <2>5. Makes(C, t, K(N), a, f, base0 \o p, gap)
    BY <1>11
  <2>6. z \in f .. Len(t)
    BY <1>2, <2>1 DEF l
  <2>7. K(N) \in Seq(Hunks(C))
    <3>1. N \in 0 .. N
      BY <1>2
    <3> QED
      BY <1>8, <3>1
  <2> HIDE DEF e, p, f, z, q
  <2>8. Makes(C, t, K(N), a, z, (base0 \o p) \o Slice(t, f, z), gap)
    BY <2>5, <2>6, <2>7, MakesExtend
  <2>9. (base0 \o p) \o q = base0 \o (p \o q)
    BY ONLY <1>6, <2>1, <2>3, <1>0
  <2>10. (base0 \o p) \o Slice(t, f, z) = base0 \o v
    BY ONLY <2>1, <2>4, <2>9
  <2> QED
    BY <2>8, <2>10 DEF z
<1>13. K(N) \in Seq(Hunks(C))
  <2>1. N \in 0 .. N
    BY <1>2
  <2> QED
    BY <1>8, <2>1
<1> QED
  BY <1>8, <1>12, <1>13 DEF L, base0, l

\* Replacing at the end of what is still the old text.
LEMMA SplicedFront ==
    ASSUME NEW C, NEW t \in Str(C), NEW e \in 0 .. Len(t), NEW s \in 0 .. e, NEW a \in 0 .. s,
           NEW new \in Str(C), NEW r \in Str(C)
    PROVE  /\ Slice(t, 0, e) \o r \in Str(C)
           /\ e <= Len(Slice(t, 0, e) \o r)
           /\ Slice(Slice(t, 0, e) \o r, s, e) = Slice(t, s, e)
           /\ Spliced(Slice(t, 0, e) \o r, s, e, new)
                  = Slice(t, 0, a) \o ((Slice(t, a, s) \o new) \o r)
           /\ (Slice(t, a, s) \o new) \o r \in Str(C)
<1> DEFINE f == Slice(t, 0, e)
           z == f \o r
           n == Len(r)
<1>0. \A x, y, w \in Str(C) : (x \o y) \o w = x \o (y \o w)
  BY StrConcat
<1>0a. \A x, y \in Str(C) : x \o y \in Str(C) /\ Len(x \o y) = Len(x) + Len(y)
  BY StrConcat
<1>1. Len(t) \in Nat /\ n \in Nat /\ e \in Nat /\ s \in Nat /\ a \in Nat /\ e <= Len(t)
  <2>1. Len(t) \in Nat /\ n \in Nat
    BY StrProperties
  <2> QED
    BY <2>1
<1>2. 0 \in 0 .. Len(t) /\ e \in 0 .. Len(t) /\ s \in 0 .. Len(t) /\ a \in 0 .. Len(t) /\ s \in a .. Len(t)
  BY <1>1
<1>3. f \in Str(C) /\ Len(f) = e
  <2>1. f \in Str(C) /\ Len(f) = e - 0
    BY <1>2, SliceProperties
  <2> QED
    BY <1>1, <2>1
<1>4. z \in Str(C) /\ Len(z) = e + n
  <2> HIDE DEF f
  <2>1. f \o r \in Str(C) /\ Len(f \o r) = Len(f) + Len(r)
    BY <1>0a, <1>3
  <2> QED
    BY <1>3, <2>1
<1>5. Slice(z, s, e) = Slice(t, s, e) /\ Slice(z, 0, s) = Slice(t, 0, s)
  <2>1. s \in 0 .. Len(f) /\ e \in s .. Len(f) /\ 0 \in 0 .. Len(f) /\ s \in 0 .. Len(f)
    BY <1>1, <1>3
  <2>2. Slice(z, s, e) = Slice(f, s, e)
    <3> HIDE DEF f
    <3> QED
      BY <1>3, <2>1, SliceOfFront
  <2>3. Slice(z, 0, s) = Slice(f, 0, s)
    <3> HIDE DEF f
    <3> QED
      BY <1>3, <2>1, SliceOfFront
  <2>4. PICK o \in Nat : o = 0
    OBVIOUS
  <2>5. \A x \in 0 .. e : \A y \in x .. e : Slice(f, x, y) = Slice(t, x, y)
    <3> TAKE x \in 0 .. e
    <3> TAKE y \in x .. e
    <3>1. o \in 0 .. Len(t) /\ e \in o .. Len(t) /\ x \in 0 .. e - o /\ y \in x .. e - o
      BY <1>1, <2>4
    <3>2. Slice(Slice(t, o, e), x, y) = Slice(t, o + x, o + y)
      BY <3>1, SliceOfSlice
    <3>3. o + x = x /\ o + y = y
      BY <1>1, <2>4
    <3> QED
      BY <2>4, <3>2, <3>3
  <2>6. s \in 0 .. e /\ e \in s .. e /\ 0 \in 0 .. e /\ s \in 0 .. e
    BY <1>1
  <2> QED
    BY <2>2, <2>3, <2>5, <2>6
<1>6. Slice(z, e, Len(z)) = r
  <2>1. PICK o \in Nat : o = 0
    OBVIOUS
  <2>2. o \in 0 .. n /\ n \in o .. n
    BY <1>1, <2>1
  <2>3. Slice(f \o r, Len(f) + o, Len(f) + n) = Slice(r, o, n)
    <3> HIDE DEF f
    <3> QED
      BY <1>3, <2>2, SliceOfBack
  <2>4. Len(f) + o = e /\ Len(f) + n = Len(z)
    BY <1>1, <1>3, <1>4, <2>1
  <2>5. Slice(r, 0, Len(r)) = r
    BY SliceWhole
  <2> HIDE DEF f
  <2> QED
    BY <2>1, <2>3, <2>4, <2>5
<1> DEFINE p == Slice(t, 0, a)
           q == Slice(t, a, s)
           w == Slice(t, 0, s)
<1>7. p \in Str(C)
  BY <1>2, SliceProperties
<1>8. q \in Str(C)
  BY <1>2, SliceProperties
<1>9. w \in Str(C) /\ p \o q = w
  <2>1. w \in Str(C)
    BY <1>2, SliceProperties
  <2>2. p \o q = w
    BY <1>2, SliceJoin
  <2> QED
    BY <2>1, <2>2
<1>10. Spliced(z, s, e, new) = w \o (new \o r)
  <2>1. Spliced(z, s, e, new) = Slice(z, 0, s) \o (new \o Slice(z, e, Len(z)))
    <3> HIDE DEF z
    <3>1. s \in 0 .. Len(z) /\ e \in s .. Len(z)
      BY <1>1, <1>4
    <3>2. Spliced(z, s, e, new) = (Slice(z, 0, s) \o new) \o Slice(z, e, Len(z))
      BY <1>4, <3>1, SplicedType
    <3>3. Slice(z, e, Len(z)) \in Str(C)
      BY <1>6
    <3>4. Slice(z, 0, s) \in Str(C)
      BY <1>5, <1>9
    <3>5. (Slice(z, 0, s) \o new) \o Slice(z, e, Len(z)) = Slice(z, 0, s) \o (new \o Slice(z, e, Len(z)))
      <4> DEFINE x == Slice(z, 0, s)
                 y == Slice(z, e, Len(z))
      <4>1. x \in Str(C) /\ y \in Str(C)
        BY <3>3, <3>4
      <4> HIDE DEF x, y
      <4>2. (x \o new) \o y = x \o (new \o y)
        BY <1>0, <4>1, SMTT(60)
      <4> QED
        BY <4>2 DEF x, y
    <3> QED
      BY <3>2, <3>5
  <2> HIDE DEF z
  <2> QED
    BY <1>5, <1>6, <2>1
<1> HIDE DEF f, z, p, q, w
<1>11. q \o new \in Str(C) /\ new \o r \in Str(C) /\ (q \o new) \o r \in Str(C)
  BY <1>0a, <1>8
<1>12. w \o (new \o r) = p \o ((q \o new) \o r)
  <2> DEFINE m == new \o r
  <2>1. (p \o q) \o m = p \o (q \o m)
    <3> HIDE DEF m
    <3>1. m \in Str(C)
      BY <1>11 DEF m
    <3> QED
      BY ONLY <1>0, <1>7, <1>8, <3>1, ZenonT(60)
  <2>2. (q \o new) \o r = q \o (new \o r)
    BY ONLY <1>0, <1>8, new \in Str(C), r \in Str(C)
  <2> QED
    BY ONLY <1>9, <2>1, <2>2 DEF m
<1>13. e <= Len(z)
  BY <1>1, <1>4
<1> QED
  BY <1>4, <1>5, <1>10, <1>11, <1>12, <1>13 DEF f, z, p, q

\* Applied in reverse, the hunks make of the text what they are said to make of it.
LEMMA MakesBack ==
    ASSUME NEW C, NEW t \in Str(C), NEW H \in Seq(Hunks(C)), NEW u, NEW gap \in Nat,
           Makes(C, t, H, 0, Len(t), u, gap)
    PROVE  Replaced(t, Q!Reverse(H)) = [text |-> u, drift |-> 0]
<1> DEFINE N == Len(H)
           Back1(n) == Q!Reverse(Front(H, n))
<1>1. PICK E, P : /\ Within(C, t, H, 0, gap, E, P)
                  /\ E[N] <= Len(t)
                  /\ u = P[N] \o Slice(t, E[N], Len(t))
  BY DEF Makes
<1>2. /\ E \in [0 .. N -> Nat] /\ P \in [0 .. N -> Str(C)]
      /\ E[0] = 0 /\ P[0] = <<>>
      /\ \A n \in 1 .. N :
          /\ E[n - 1] <= H[n].start
          /\ Fits(t, H[n]) /\ E[n] = H[n].end
          /\ P[n] = (P[n - 1] \o Slice(t, E[n - 1], H[n].start)) \o H[n].new
  BY <1>1 DEF Within
<1>3. N \in Nat /\ Len(t) \in Nat
  BY LenProperties, StrProperties
<1>0. \A x, y, w \in Str(C) : (x \o y) \o w = x \o (y \o w)
  BY StrConcat
<1>0a. /\ \A x, y \in Str(C) : x \o y \in Str(C)
       /\ \A x \in Str(C) : x \o <<>> = x /\ <<>> \o x = x
  BY StrConcat
<1>4. \A n \in 1 .. N : /\ H[n] \in Hunks(C)
                        /\ H[n].start \in 0 .. Len(t) /\ H[n].end \in H[n].start .. Len(t)
                        /\ H[n].end \in 0 .. Len(t)
                        /\ Slice(t, H[n].start, H[n].end) = H[n].old /\ H[n].new \in Str(C)
  <2> TAKE n \in 1 .. N
  <2>1. H[n] \in Hunks(C) /\ Fits(t, H[n])
    BY <1>2, ElementOfSeq
  <2> DEFINE h == H[n]
  <2>2. h \in Hunks(C) /\ Fits(t, h)
    BY <2>1
  <2> HIDE DEF h
  <2>3. /\ h.start \in 0 .. Len(t) /\ h.end \in h.start .. Len(t) /\ h.end \in 0 .. Len(t)
        /\ Slice(t, h.start, h.end) = h.old /\ h.new \in Str(C)
    BY <2>2, FitsIs
  <2> QED
    BY <2>2, <2>3 DEF h
<1>5. /\ Front(H, 0) = <<>> /\ Front(H, N) = H
      /\ \A n \in 0 .. N : Front(H, n) \in Seq(Hunks(C))
      /\ \A n \in 1 .. N : Front(H, n) = Append(Front(H, n - 1), H[n])
  BY FrontProperties
<1> HIDE DEF N
<1>6. Back1(0) = <<>>
  <2>1. <<>> \in Seq(Hunks(C)) /\ Len(<<>>) = 0
    BY EmptySeq
  <2>2. Q!Reverse(<<>>) \in Seq(Hunks(C)) /\ Len(Q!Reverse(<<>>)) = 0
    BY <2>1, ReverseIs
  <2> QED
    BY <1>5, <2>2, EmptySeq
<1>7. \A n \in 0 .. N : Back1(n) \in Seq(Hunks(C))
  BY <1>5, ReverseIs
<1>8. ASSUME NEW n \in 1 .. N
      PROVE  Back1(n) = <<H[n]>> \o Back1(n - 1)
  <2>1. n - 1 \in 0 .. N
    BY <1>3
  <2> DEFINE F == Front(H, n - 1)
             h == H[n]
  <2>2. F \in Seq(Hunks(C)) /\ h \in Hunks(C)
    BY <1>4, <1>5, <2>1
  <2>3. Front(H, n) = Append(F, h)
    BY <1>5
  <2> HIDE DEF F, h
  <2>4. Q!Reverse(Append(F, h)) = <<h>> \o Q!Reverse(F)
    BY <2>2, ReverseAppend
  <2> QED
    BY <2>3, <2>4 DEF F, h
<1> HIDE DEF Back1
<1> DEFINE Text1(n, r) == Slice(t, 0, E[n]) \o r
           T == {n \in 0 .. N : \A r \in Str(C) :
                    Replaced(Text1(n, r), Back1(n)) = [text |-> P[n] \o r, drift |-> 0]}
<1>9. 0 \in T
  <2>1. 0 \in 0 .. N /\ 0 \in 0 .. Len(t)
    BY <1>3
  <2>2. Slice(t, 0, 0) = <<>>
    BY <2>1, SliceEmpty
  <2> SUFFICES ASSUME NEW r \in Str(C)
               PROVE  Replaced(Text1(0, r), Back1(0)) = [text |-> P[0] \o r, drift |-> 0]
    BY <2>1
  <2>3. Text1(0, r) = r /\ P[0] \o r = r
    BY <1>0a, <1>2, <2>2
  <2> HIDE DEF Text1
  <2> QED
    BY <1>6, <2>3, ReplacedNothing
<1>10. ASSUME NEW n \in 1 .. N, n - 1 \in T
       PROVE  n \in T
  <2>1. n \in 0 .. N /\ n - 1 \in 0 .. N
    BY <1>3
  <2> SUFFICES ASSUME NEW r \in Str(C)
               PROVE  Replaced(Text1(n, r), Back1(n)) = [text |-> P[n] \o r, drift |-> 0]
    BY <2>1
  <2> DEFINE h == H[n]
             s == h.start
             e == h.end
             a == E[n - 1]
             p == P[n - 1]
             q == Slice(t, a, s)
             w == (q \o h.new) \o r
             z == Slice(t, 0, e) \o r
  <2>2. /\ h \in Hunks(C) /\ s \in 0 .. Len(t) /\ e \in s .. Len(t) /\ e \in 0 .. Len(t)
        /\ Slice(t, s, e) = h.old /\ h.new \in Str(C)
    BY <1>4
  <2>3. a \in Nat /\ p \in Str(C) /\ a <= s /\ E[n] = e /\ P[n] = (p \o q) \o h.new
    BY <1>2, <2>1
  <2> HIDE DEF h, a, p, q
  <2>4. s \in 0 .. e /\ a \in 0 .. s
    <3> HIDE DEF s, e
    <3> QED
      BY <1>3, <2>2, <2>3
  <2>5. /\ z \in Str(C) /\ e <= Len(z) /\ Slice(z, s, e) = Slice(t, s, e)
        /\ Spliced(z, s, e, h.new) = Slice(t, 0, a) \o w
        /\ w \in Str(C)
    <3> HIDE DEF s, e
    <3>1. /\ Slice(t, 0, e) \o r \in Str(C)
          /\ e <= Len(Slice(t, 0, e) \o r)
          /\ Slice(Slice(t, 0, e) \o r, s, e) = Slice(t, s, e)
          /\ Spliced(Slice(t, 0, e) \o r, s, e, h.new)
                 = Slice(t, 0, a) \o ((Slice(t, a, s) \o h.new) \o r)
          /\ (Slice(t, a, s) \o h.new) \o r \in Str(C)
      BY <2>2, <2>4, SplicedFront
    <3> QED
      BY <3>1 DEF q
  <2> HIDE DEF z, w
  <2>6. Fits(z, h)
    <3>1. 0 <= s /\ s <= e
      <4> HIDE DEF s, e
      <4> QED
        BY <1>3, <2>2
    <3> QED
      BY <2>2, <2>5, <3>1 DEF Fits, InBounds
  <2>7. Replaced(z, <<h>> \o Back1(n - 1)) = Replaced(Spliced(z, h.start, h.end, h.new), Back1(n - 1))
    BY <1>7, <2>1, <2>2, <2>5, <2>6, ReplacedFirst
  <2>8. Spliced(z, h.start, h.end, h.new) = Text1(n - 1, w)
    BY <2>5 DEF a
  <2>9. Replaced(Text1(n - 1, w), Back1(n - 1)) = [text |-> p \o w, drift |-> 0]
    <3> HIDE DEF Text1
    <3> QED
      BY <1>10, <2>5 DEF p
  <2>10. p \o w = P[n] \o r
    <3>1. q \in Str(C)
      <4>1. a \in 0 .. Len(t) /\ s \in a .. Len(t)
        <5> HIDE DEF s
        <5> QED
          BY <1>3, <2>2, <2>3
      <4> HIDE DEF s
      <4> QED
        BY <4>1, SliceProperties DEF q
    <3> DEFINE m == h.new
               k == q \o m
    <3>2. m \in Str(C) /\ k \in Str(C)
      BY <1>0a, <2>2, <3>1
    <3>3. P[n] = p \o k
      <4> HIDE DEF m
      <4>0. p \in Str(C) /\ q \in Str(C) /\ m \in Str(C)
        BY <2>3, <3>1, <3>2
      <4>1. (p \o q) \o m = p \o (q \o m)
        <5>j. Joins(p, q, m)
          BY ONLY <4>0, StrJoin
        <5> QED
          BY ONLY <5>j DEF Joins
      <4> QED
        BY <2>3, <4>1 DEF m
    <3>4. w = k \o r
      BY DEF w
    <3> HIDE DEF m, k
    <3>5. p \in Str(C) /\ k \in Str(C) /\ r \in Str(C)
      BY <2>3, <3>2
    <3>6. (p \o k) \o r = p \o (k \o r)
      BY ONLY <1>0, <3>5, ZenonT(60)
    <3> QED
      BY ONLY <3>3, <3>4, <3>6
  <2>11. Text1(n, r) = z
    BY <2>3 DEF z
  <2>12. Back1(n) = <<h>> \o Back1(n - 1)
    BY <1>8 DEF h
  <2> HIDE DEF Text1
  <2> QED
    BY <2>7, <2>8, <2>9, <2>10, <2>11, <2>12
<1>11. N \in T
  <2>1. \A n \in 0 .. N : n \in T
    <3> HIDE DEF T
    <3> QED
      BY <1>3, <1>9, <1>10, UpTo
  <2> HIDE DEF T
  <2> QED
    BY <1>3, <2>1
<1> DEFINE e == E[N]
           r == Slice(t, e, Len(t))
<1>12. e \in 0 .. Len(t) /\ Len(t) \in e .. Len(t) /\ 0 \in 0 .. Len(t)
  <2>1. e \in Nat /\ e <= Len(t)
    BY <1>1, <1>2, <1>3
  <2> HIDE DEF e
  <2> QED
    BY <1>3, <2>1
<1>13. r \in Str(C) /\ Slice(t, 0, e) \o r = t
  <2> HIDE DEF e
  <2>1. Slice(t, 0, Len(t)) = t
    BY SliceWhole
  <2>2. Slice(t, 0, e) \o Slice(t, e, Len(t)) = Slice(t, 0, Len(t))
    BY <1>12, SliceJoin
  <2>3. Slice(t, e, Len(t)) \in Str(C)
    BY <1>12, SliceProperties
  <2> QED
    BY <2>1, <2>2, <2>3
<1>14. Replaced(Slice(t, 0, E[N]) \o r, Back1(N)) = [text |-> P[N] \o r, drift |-> 0]
  <2> HIDE DEF r
  <2> QED
    BY <1>11, <1>13
<1>15. Back1(N) = Q!Reverse(H)
  BY <1>5 DEF Back1
<1> QED
  BY <1>1, <1>13, <1>14, <1>15

\* Hunks in ascending order that fit the text make something of it.
LEMMA MakesExists ==
    ASSUME NEW C, NEW t \in Str(C), NEW S \in Seq(Hunks(C)), NEW gap \in Nat,
           \A n \in 1 .. Len(S) : Fits(t, S[n]),
           \A n \in 1 .. Len(S) : n > 1 => S[n - 1].end + gap <= S[n].start
    PROVE  \E u : Makes(C, t, S, 0, Len(t), u, gap)
<1> DEFINE N == Len(S)
           to(n) == IF n = 0 THEN 0 ELSE S[n].end
           Made(n) == \E u : Makes(C, t, Front(S, n), 0, to(n), u, gap)
           T == {n \in 0 .. N : Made(n)}
<1>1. N \in Nat /\ Len(t) \in Nat
  BY LenProperties, StrProperties
<1>2. \A n \in 1 .. N : /\ S[n] \in Hunks(C) /\ Fits(t, S[n])
                        /\ S[n].start \in Nat /\ S[n].end \in 0 .. Len(t)
  <2> TAKE n \in 1 .. N
  <2>1. S[n] \in Hunks(C) /\ Fits(t, S[n])
    BY ElementOfSeq
  <2>2. S[n].start \in 0 .. Len(t) /\ S[n].end \in 0 .. Len(t)
    <3> DEFINE h == S[n]
    <3>1. h \in Hunks(C) /\ Fits(t, h)
      BY <2>1
    <3> HIDE DEF h
    <3>2. h.start \in 0 .. Len(t) /\ h.end \in 0 .. Len(t)
      BY <3>1, FitsIs
    <3> QED
      BY <3>2 DEF h
  <2> QED
    BY <1>1, <2>1, <2>2
<1>3. /\ Front(S, 0) = <<>> /\ Front(S, N) = S
      /\ \A n \in 0 .. N : Front(S, n) \in Seq(Hunks(C))
      /\ \A n \in 1 .. N : Front(S, n) = Append(Front(S, n - 1), S[n])
  BY FrontProperties
<1> HIDE DEF N
<1>4. 0 \in T
  <2>1. 0 \in 0 .. Len(t) /\ 0 \in 0 .. N
    BY <1>1
  <2>2. PICK o \in Nat : o = 0
    OBVIOUS
  <2>3. o \in 0 .. Len(t) /\ o \in o .. Len(t)
    BY <2>1, <2>2
  <2>4. Makes(C, t, <<>>, o, o, Slice(t, o, o), gap)
    BY <2>3, MakesNothing
  <2>5. Front(S, 0) = <<>> /\ to(0) = 0
    BY <1>3
  <2>6. Made(0)
    BY <2>2, <2>4, <2>5
  <2> HIDE DEF Made
  <2> QED
    BY <2>1, <2>6
<1>5. ASSUME NEW n \in 1 .. N, n - 1 \in T
      PROVE  n \in T
  <2>1. n \in 0 .. N /\ n - 1 \in 0 .. N /\ n # 0
    BY <1>1
  <2> DEFINE F == Front(S, n - 1)
             h == S[n]
             b == to(n - 1)
  <2>2. PICK u : Makes(C, t, F, 0, b, u, gap)
    BY <1>5
  <2>3. h \in Hunks(C) /\ Fits(t, h) /\ F \in Seq(Hunks(C)) /\ h.start \in Nat
    BY <1>2, <1>3, <2>1
  <2>4. b <= h.start /\ (F = <<>> \/ b + gap <= h.start)
    <3>1. CASE n = 1
      <4>1. n - 1 = 0
        BY <3>1
      <4>2. b = 0 /\ F = <<>>
        BY <1>3, <4>1
      <4> QED
        BY <2>3, <4>2
    <3>2. CASE n # 1
      <4>1. n - 1 \in 1 .. N /\ n > 1 /\ n - 1 # 0
        BY <1>1, <3>2
      <4>2. b = S[n - 1].end
        BY <4>1
      <4>3. b + gap <= h.start /\ b \in 0 .. Len(t)
        BY <1>2, <4>1, <4>2 DEF N
      <4> HIDE DEF b, h
      <4>4. b <= h.start
        BY <1>1, <2>3, <4>3
      <4> QED
        BY <4>3, <4>4
    <3> QED
      BY <3>1, <3>2
  <2>5. Front(S, n) = Append(F, h) /\ to(n) = h.end
    BY <1>3, <2>1
  <2> HIDE DEF F, h, b, to
  <2>6. Makes(C, t, Append(F, h), 0, h.end, (u \o Slice(t, b, h.start)) \o h.new, gap)
    BY <2>2, <2>3, <2>4, MakesAppend
  <2>7. Made(n)
    BY <2>5, <2>6
  <2> HIDE DEF Made
  <2> QED
    BY <2>1, <2>7
<1>6. Made(N)
  <2> HIDE DEF Made, T
  <2>1. \A n \in 0 .. N : n \in T
    BY <1>1, <1>4, <1>5, UpTo
  <2>2. N \in T
    BY <1>1, <2>1
  <2> QED
    BY <2>2 DEF T
<1>7. PICK u : Makes(C, t, S, 0, to(N), u, gap)
  BY <1>3, <1>6
<1>8. Len(t) \in to(N) .. Len(t)
  <2>1. CASE N = 0
    BY <1>1, <2>1
  <2>2. CASE N # 0
    <3>1. N \in 1 .. N
      BY <1>1, <2>2
    <3>2. S[N].end \in 0 .. Len(t) /\ to(N) = S[N].end
      BY <1>2, <2>2, <3>1
    <3> QED
      BY <1>1, <3>2
  <2> QED
    BY <2>1, <2>2
<1> HIDE DEF to
<1>9. Makes(C, t, S, 0, Len(t), u \o Slice(t, to(N), Len(t)), gap)
  BY <1>7, <1>8, MakesExtend
<1> QED
  BY <1>9

\* Each range replaced by hunks that make its new text of its old one.
LEMMA MakesFlatten ==
    ASSUME NEW C, NEW t \in Str(C), NEW S \in Seq(Hunks(C)), NEW u,
           Makes(C, t, S, 0, Len(t), u, 1),
           NEW X \in [1 .. Len(S) -> Str(Hunks(C))],
           \A n \in 1 .. Len(S) : Makes(C, S[n].old, X[n], 0, Len(S[n].old), S[n].new, 1),
           NEW ss \in Seq(Str(Hunks(C))), Len(ss) = Len(S),
           \A n \in 1 .. Len(S) : ss[n] = Lifted(X[n], S[n].start)
    PROVE  Makes(C, t, Q!FlattenSeq(ss), 0, Len(t), u, 1)
<1> DEFINE N == Len(S)
<1>1. PICK E, P : /\ Within(C, t, S, 0, 1, E, P)
                  /\ E[N] <= Len(t) /\ Len(t) \in 0 .. Len(t)
                  /\ u = P[N] \o Slice(t, E[N], Len(t))
  BY DEF Makes
<1>2. /\ E \in [0 .. N -> Nat] /\ P \in [0 .. N -> Str(C)]
      /\ E[0] = 0 /\ P[0] = <<>>
      /\ \A n \in 1 .. N :
          /\ E[n - 1] <= S[n].start /\ (n > 1 => E[n - 1] + 1 <= S[n].start)
          /\ Fits(t, S[n]) /\ E[n] = S[n].end
          /\ P[n] = (P[n - 1] \o Slice(t, E[n - 1], S[n].start)) \o S[n].new
  BY <1>1 DEF Within
<1>3. N \in Nat /\ Len(t) \in Nat
  BY LenProperties, StrProperties
<1>4. PICK f \in [0 .. N -> Str(Hunks(C))] :
          /\ f[0] = <<>>
          /\ \A n \in 1 .. N : f[n] = f[n - 1] \o ss[n]
          /\ Q!FlattenSeq(ss) = f[N]
  <2> DEFINE D == Hunks(C)
  <2>1. ss \in Seq(Str(D)) /\ Len(ss) = N
    OBVIOUS
  <2> HIDE DEF D, N
  <2>2. \E f \in [0 .. Len(ss) -> Str(D)] :
          /\ f[0] = <<>>
          /\ \A n \in 1 .. Len(ss) : f[n] = f[n - 1] \o ss[n]
          /\ Q!FlattenSeq(ss) = f[Len(ss)]
    BY <2>1, FlattenPrefixes
  <2> QED
    BY <2>1, <2>2 DEF D
<1> DEFINE T == {n \in 0 .. N : Makes(C, t, f[n], 0, E[n], P[n], 1)}
<1>5. 0 \in T
  <2>1. 0 \in 0 .. Len(t) /\ 0 \in 0 .. N
    BY <1>3
  <2>2. PICK o \in Nat : o = 0
    OBVIOUS
  <2>3. o \in 0 .. Len(t) /\ o \in o .. Len(t)
    BY <2>1, <2>2
  <2>4. Makes(C, t, <<>>, o, o, Slice(t, o, o), 1)
    BY <2>3, MakesNothing
  <2>5. Slice(t, o, o) = <<>>
    BY <2>3, SliceEmpty
  <2> QED
    BY <1>2, <1>4, <2>1, <2>2, <2>4, <2>5
<1>6. ASSUME NEW n \in 1 .. N, n - 1 \in T
      PROVE  n \in T
  <2>1. n \in 0 .. N /\ n - 1 \in 0 .. N
    BY <1>3
  <2> DEFINE H == f[n - 1]
             b == E[n - 1]
             p == P[n - 1]
             h == S[n]
             s == h.old
             G == X[n]
             c == h.start
  <2>2. Makes(C, t, H, 0, b, p, 1)
    BY <1>6
  <2>3. H \in Seq(Hunks(C)) /\ G \in Seq(Hunks(C))
    BY <1>4, <2>1 DEF Str
  <2>4. h \in Hunks(C) /\ Fits(t, h)
    BY <1>2, ElementOfSeq
  <2>5. Makes(C, s, G, 0, Len(s), h.new, 1)
    OBVIOUS
  <2>6. b \in Nat /\ b <= c /\ (n > 1 => b + 1 <= c) /\ E[n] = h.end /\ P[n] = (p \o Slice(t, b, c)) \o h.new
    BY <1>2, <2>1
  <2>7. n = 1 => H = <<>>
    BY <1>4
  <2>8. f[n] = H \o Lifted(G, c)
    BY <1>4
  <2> HIDE DEF H, b, p, h, G
  <2>9. /\ c \in 0 .. Len(t) /\ h.end \in c .. Len(t) /\ h.end \in 0 .. Len(t)
        /\ Slice(t, c, h.end) = s /\ s \in Str(C)
    BY <2>4, FitsIs
  <2> DEFINE e == h.end
  <2>10. Len(s) = e - c
    <3>1. Len(Slice(t, c, e)) = e - c
      <4>1. c \in 0 .. Len(t) /\ e \in c .. Len(t)
        BY <2>9
      <4> HIDE DEF c, e
      <4> QED
        BY <4>1, SliceProperties
    <3> QED
      BY <2>9, <3>1
  <2>10a. c \in 0 .. Len(t) /\ e \in c .. Len(t) /\ Slice(t, c, e) = s
    BY <2>9
  <2> HIDE DEF c, e, s
  <2>11. c + Len(s) = e /\ c + Len(s) <= Len(t) /\ c \in b .. Len(t)
    BY <1>3, <2>6, <2>10, <2>10a
  <2>12. H = <<>> \/ b + 1 <= c
    BY <1>3, <2>6, <2>7
  <2>13. Slice(t, c, c + Len(s)) = s
    BY <2>10a, <2>11
  <2>14. PICK g \in Nat : g = 1
    OBVIOUS
  <2>15. Makes(C, t, H \o Lifted(G, c), 0, c + Len(s), (p \o Slice(t, b, c)) \o h.new, g)
    <3>1. /\ Makes(C, t, H, 0, b, p, g) /\ Makes(C, s, G, 0, Len(s), h.new, g) /\ s \in Str(C)
          /\ (H = <<>> \/ b + g <= c)
      BY <2>2, <2>5, <2>9, <2>12, <2>14
    <3> QED
      BY <2>3, <2>11, <2>13, <3>1, MakesMore
  <2> QED
    BY <2>1, <2>6, <2>8, <2>11, <2>14, <2>15 DEF e
<1>7. Makes(C, t, f[N], 0, E[N], P[N], 1)
  <2> HIDE DEF T
  <2>1. \A n \in 0 .. N : n \in T
    BY <1>3, <1>5, <1>6, UpTo
  <2>2. N \in T
    <3> HIDE DEF N
    <3> QED
      BY <1>3, <2>1
  <2> QED
    BY <2>2 DEF T
<1>8. Makes(C, t, f[N], 0, Len(t), P[N] \o Slice(t, E[N], Len(t)), 1)
  <2> DEFINE H == f[N]
             b == E[N]
             p == P[N]
  <2>0. N \in 0 .. N
    <3> HIDE DEF N
    <3> QED
      BY <1>3
  <2>1. Makes(C, t, H, 0, b, p, 1) /\ H \in Seq(Hunks(C))
    BY <1>4, <1>7, <2>0 DEF Str
  <2>2. b \in Nat /\ b <= Len(t)
    BY <1>1, <1>2, <2>0
  <2> HIDE DEF H, b, p
  <2>3. Len(t) \in b .. Len(t)
    BY <1>3, <2>2
  <2>4. Makes(C, t, H, 0, Len(t), p \o Slice(t, b, Len(t)), 1)
    BY <2>1, <2>3, MakesExtend
  <2> QED
    BY <2>4 DEF H, b, p
<1> QED
  BY <1>1, <1>4, <1>8

----------------
\* The tokens of a text cut it into pieces that are not empty.
Tokens(C) == [start : Int, end : Int, text : Str(C)]
Cuts(t, A, bd) ==
    /\ bd \in [0 .. Len(A) -> 0 .. Len(t)] /\ bd[0] = 0 /\ bd[Len(A)] = Len(t)
    /\ \A n \in 1 .. Len(A) : /\ bd[n - 1] < bd[n]
                              /\ A[n].start = bd[n - 1] /\ A[n].end = bd[n]
                              /\ A[n].text = Slice(t, bd[n - 1], bd[n])

\* The tokens of a text (tokenizeForDiff) cut it into pieces that are not empty.
LEMMA TokenizeCuts ==
    ASSUME NEW C, NEW t \in Str(C)
    PROVE  /\ Tokenize(t) \in Seq(Tokens(C)) /\ Len(Tokenize(t)) \in Nat
           /\ \E bd : Cuts(t, Tokenize(t), bd)
<1> DEFINE S == {i \in 0 .. Len(t) - 1 : i = 0 \/ (Space(t[i]) /\ ~Space(t[i + 1]))}
           cut == Ascending(S)
           N == Len(cut)
           to(n) == IF n < N THEN cut[n + 1] ELSE Len(t)
           A == Tokenize(t)
<1>1. Len(t) \in Nat
  BY StrProperties
<1>2. S \subseteq 0 .. Len(t) - 1 /\ S \subseteq Int /\ IsFiniteSet(S)
  <2>1. S \subseteq 0 .. Len(t) - 1 /\ S \subseteq Int
    OBVIOUS
  <2>2. IsFiniteSet(0 .. Len(t) - 1)
    <3>1. 0 \in Int /\ Len(t) - 1 \in Int
      BY <1>1
    <3> QED
      BY <3>1, FS_Interval
  <2> HIDE DEF S
  <2> QED
    BY <2>1, <2>2, FS_Subset
<1>3. A = [n \in 1 .. N |-> [start |-> cut[n], end |-> to(n), text |-> Slice(t, cut[n], to(n))]]
  BY DEF Tokenize
<1>4. Len(t) > 0 => 0 \in S
  BY <1>1
<1> HIDE DEF S
<1>5. /\ N \in Nat /\ cut \in Seq(S) /\ N = Cardinality(S)
      /\ \A m, n \in 1 .. N : m < n <=> cut[m] < cut[n]
      /\ \A x \in S : \E n \in 1 .. N : cut[n] = x
  <2> HIDE DEF N, cut
  <2>1. /\ Cardinality(S) \in Nat
        /\ cut \in Seq(S) /\ Len(cut) = Cardinality(S)
        /\ \A m, n \in 1 .. Cardinality(S) : m < n <=> cut[m] < cut[n]
        /\ \A x \in S : \E n \in 1 .. Cardinality(S) : cut[n] = x
    BY <1>2, AscendingProperties DEF cut
  <2> QED
    BY <2>1 DEF N
<1>6. \A n \in 1 .. N : cut[n] \in 0 .. Len(t) - 1 /\ cut[n] \in Nat /\ cut[n] < Len(t)
  <2> TAKE n \in 1 .. N
  <2>1. cut[n] \in S
    <3> HIDE DEF cut
    <3> QED
      BY <1>5, ElementOfSeq
  <2>2. cut[n] \in 0 .. Len(t) - 1
    BY <1>2, <2>1
  <2> HIDE DEF cut, N
  <2> QED
    BY <1>1, <2>2
<1> DEFINE bd == [n \in 0 .. N |-> to(n)]
<1>7. \A n \in 0 .. N : to(n) \in 0 .. Len(t)
  <2> TAKE n \in 0 .. N
  <2> HIDE DEF cut, N
  <2>1. n < N => n + 1 \in 1 .. N
    BY <1>5
  <2>2. n < N => cut[n + 1] \in 0 .. Len(t)
    <3>1. \A i \in 0 .. Len(t) - 1 : i \in 0 .. Len(t)
      BY <1>1
    <3> QED
      BY <1>6, <2>1, <3>1
  <2> QED
    BY <1>1, <2>2
<1>8. \A n \in 1 .. N : cut[n] = to(n - 1) /\ cut[n] < to(n) /\ n - 1 \in 0 .. N /\ n \in 0 .. N
  <2> TAKE n \in 1 .. N
  <2> HIDE DEF cut, N
  <2>1. n - 1 < N /\ (n - 1) + 1 = n /\ n - 1 \in 0 .. N /\ n \in 0 .. N
    BY <1>5
  <2>2. cut[n] < to(n)
    <3>1. CASE n < N
      <4>1. n + 1 \in 1 .. N /\ n < n + 1
        BY <1>5, <3>1
      <4> QED
        BY <1>5, <3>1, <4>1
    <3>2. CASE ~(n < N)
      BY <1>6, <3>2
    <3> QED
      BY <3>1, <3>2
  <2> QED
    BY <2>1, <2>2
<1>9. to(0) = 0
  <2>1. CASE Len(t) = 0
    <3>1. N = 0
      <4>1. \A n \in 1 .. N : FALSE
        BY <1>6, <2>1
      <4> HIDE DEF N
      <4> QED
        BY <1>5, <4>1
    <3> HIDE DEF N, cut
    <3> QED
      BY <2>1, <3>1
  <2>2. CASE Len(t) # 0
    <3>1. PICK k \in 1 .. N : cut[k] = 0
      BY <1>1, <1>4, <1>5, <2>2
    <3> HIDE DEF N, cut
    <3>2. 1 \in 1 .. N /\ k \in Nat /\ (k = 1 \/ 1 < k)
      BY <1>5
    <3>3. cut[1] \in Nat /\ (1 < k => cut[1] < cut[k])
      BY <1>5, <1>6, <3>2
    <3>4. cut[1] = 0
      BY <3>1, <3>2, <3>3
    <3> QED
      BY <1>5, <3>2, <3>4
  <2> QED
    BY <2>1, <2>2
<1>10. to(N) = Len(t)
  <2> HIDE DEF N, cut
  <2> QED
    BY <1>5
<1> HIDE DEF N, cut, to
<1>11. ASSUME NEW n \in 1 .. N
       PROVE  /\ cut[n] \in Int /\ to(n) \in Int /\ Slice(t, cut[n], to(n)) \in Str(C)
  <2> DEFINE a == cut[n]
             b == to(n)
  <2>1. a \in 0 .. Len(t) /\ b \in a .. Len(t)
    <3>1. a \in Nat /\ a < Len(t) /\ b \in 0 .. Len(t) /\ a < b
      BY <1>6, <1>7, <1>8
    <3> HIDE DEF a, b
    <3> QED
      BY <1>1, <3>1
  <2> HIDE DEF a, b
  <2>2. Slice(t, a, b) \in Str(C)
    BY <2>1, SliceProperties
  <2> QED
    BY <1>1, <2>1, <2>2 DEF a, b
<1>12. A \in [1 .. N -> Tokens(C)]
  <2>1. \A n \in 1 .. N : [start |-> cut[n], end |-> to(n), text |-> Slice(t, cut[n], to(n))] \in Tokens(C)
    BY <1>11 DEF Tokens
  <2> HIDE DEF A
  <2> QED
    BY <1>3, <2>1
<1>13. A \in Seq(Tokens(C)) /\ Len(A) = N
  <2> HIDE DEF A
  <2> QED
    BY <1>5, <1>12
<1>14. \A n \in 1 .. N : A[n].start = cut[n] /\ A[n].end = to(n) /\ A[n].text = Slice(t, cut[n], to(n))
  <2> HIDE DEF A
  <2> QED
    BY <1>3
<1>15. /\ bd \in [0 .. N -> 0 .. Len(t)] /\ bd[0] = 0 /\ bd[N] = Len(t)
       /\ \A n \in 0 .. N : bd[n] = to(n)
  <2>1. 0 \in 0 .. N /\ N \in 0 .. N
    BY <1>5
  <2> QED
    BY <1>7, <1>9, <1>10, <2>1
<1> HIDE DEF bd, A
<1>16. Cuts(t, A, bd)
  <2>1. \A n \in 1 .. N : /\ bd[n - 1] < bd[n]
                          /\ A[n].start = bd[n - 1] /\ A[n].end = bd[n]
                          /\ A[n].text = Slice(t, bd[n - 1], bd[n])
    BY <1>8, <1>14, <1>15
  <2> QED
    BY <1>13, <1>15, <2>1 DEF Cuts
<1> QED
  BY <1>5, <1>13, <1>16 DEF A

----------------
Elements == [type : STRING, text : Str(Characters)]
Cards == [old : Str(Characters), new : Str(Characters), start : Int, end : Int]

\* The plain text of elements is a text.
LEMMA PlainTextType ==
    ASSUME NEW elements \in Seq(Elements)
    PROVE  GetPlainText(elements) \in Str(Characters)
<1> DEFINE ss == [n \in DOMAIN elements |-> elements[n].text]
<1>1. Len(elements) \in Nat /\ DOMAIN elements = 1 .. Len(elements)
  BY LenProperties
<1>2. \A n \in 1 .. Len(elements) : elements[n].text \in Str(Characters)
  <2> TAKE n \in 1 .. Len(elements)
  <2>1. elements[n] \in Elements
    BY ElementOfSeq
  <2> QED
    BY <2>1 DEF Elements
<1>3. ss \in Seq(Str(Characters))
  BY <1>1, <1>2
<1> HIDE DEF ss
<1>4. Q!FlattenSeq(ss) \in Str(Characters)
  BY <1>3, FlattenType
<1> QED
  BY <1>4 DEF GetPlainText, ss

\* A paragraph is a sequence of elements, and its plain text is a text.
LEMMA ParagraphType ==
    ASSUME NEW elements \in Paragraphs
    PROVE  elements \in Seq(Elements) /\ GetPlainText(elements) \in Str(Characters)
<1>1. elements \in Seq(Elements)
  BY ParagraphsAssumption DEF Elements, Str, Text
<1> QED
  BY <1>1, PlainTextType

\* The cards of an input are cards, and those without an original have no place.
LEMMA CardsType ==
    ASSUME NEW elements \in Paragraphs, NEW input \in Inputs(GetPlainText(elements))
    PROVE  /\ input.cards \in Seq(Cards)
           /\ \A n \in DOMAIN input.cards :
               input.cards[n].old = <<>> => /\ input.cards[n].start = Unplaced
                                           /\ input.cards[n].end = Unplaced
<1>1. \A i \in Inputs(GetPlainText(elements)) :
        /\ i.cards \in Seq([old : Text, new : Text, start : Int, end : Int])
        /\ \A n \in DOMAIN i.cards :
            i.cards[n].old = <<>> => /\ i.cards[n].start = Unplaced
                                     /\ i.cards[n].end = Unplaced
  BY InputsAssumption
<1>2. input.cards \in Seq([old : Text, new : Text, start : Int, end : Int])
  BY <1>1
<1> QED
  BY <1>1, <1>2 DEF Cards, Str, Text

\* The plan is the one for the cards and the paragraph the command was planned against,
\* which is still the whole text until it is.
Planned ==
    /\ base \in Paragraphs
    /\ group = NoGroup => text = GetPlainText(base) /\ todo = <<>>
    /\ group # NoGroup => group \in Inputs(GetPlainText(base))
    /\ plan = PlanSentenceGroupReplacement(GetPlainText(base), group.segment, group.cards)

\* Before a command is planned there is no plan, which is what no card gives.
LEMMA NoGroupNoPlan ==
    ASSUME NEW t
    PROVE  PlanSentenceGroupReplacement(t, NoGroup.segment, NoGroup.cards) = NoPlan
<1> DEFINE l == Len(SplitIntoSentences(t))
<1>1. NoGroup.segment = 0
  BY DEF NoGroup
<1>2. \A m : 0 \notin 1 .. m
  OBVIOUS
<1>3. \E m : DOMAIN SplitIntoSentences(t) = 1 .. m
  BY DEF SplitIntoSentences
<1>4. 0 \notin DOMAIN SplitIntoSentences(t)
  BY <1>2, <1>3
<1> QED
  BY <1>1, <1>4 DEF PlanSentenceGroupReplacement

\* In every reachable state the plan is the one for the command's cards and its paragraph.
LEMMA PlannedHolds == Spec => []Planned
<1>1. Init => Planned
  <2> SUFFICES ASSUME Init PROVE Planned
    OBVIOUS
  <2>1. plan = PlanSentenceGroupReplacement(GetPlainText(base), group.segment, group.cards)
    BY NoGroupNoPlan DEF Init
  <2> QED
    BY <2>1 DEF Init, Planned
<1>2. Planned /\ [Next]_vars => Planned'
  <2> SUFFICES ASSUME Planned, [Next]_vars PROVE Planned'
    OBVIOUS
  <2>1. CASE Plan
    <3>1. PICK input \in Inputs(text) :
            /\ group' = input
            /\ plan' = PlanSentenceGroupReplacement(text, input.segment, input.cards)
            /\ todo' = plan'.hunks
      BY <2>1 DEF Plan
    <3>2. text = GetPlainText(base) /\ base' = base /\ text' = text
      BY <2>1 DEF Plan, Planned
    <3>3. group' = NoGroup => todo' = <<>>
      BY <3>1, NoGroupNoPlan DEF NoPlan
    <3> QED
      BY <3>1, <3>2, <3>3 DEF Planned
  <2>2. CASE ApplyNext
    BY <2>2 DEF ApplyNext, Planned
  <2>3. CASE UNCHANGED vars
    BY <2>3 DEF vars, Planned
  <2> QED
    BY <2>1, <2>2, <2>3 DEF Next
<1> QED
  BY <1>1, <1>2, PTL DEF Spec

\* The script of two texts has as many entries that are no EQUAL as the texts have tokens
\* outside a longest common subsequence.
LEMMA ScriptEdits ==
    ASSUME NEW C, NEW s \in Str(C), NEW t \in Str(C)
    PROVE  LET A == Tokenize(s)
               B == Tokenize(t)
               edits(script) == Cardinality({i \in DOMAIN script : script[i].op # "EQUAL"})
           IN  With(DiffTokenSequences(A, B), edits) = Len(A) + Len(B) - 2 * CommonWords(A, B)
<1> DEFINE A == Tokenize(s)
           B == Tokenize(t)
<1>1. Len(A) \in Nat /\ Len(B) \in Nat
  BY TokenizeCuts
<1> HIDE DEF A, B
<1>2. Cardinality({i \in DOMAIN DiffTokenSequences(A, B) : DiffTokenSequences(A, B)[i].op # "EQUAL"})
          = Len(A) + Len(B) - 2 * CommonWords(A, B)
  BY <1>1, ScriptIsShortest
<1> QED
  BY <1>2 DEF With, A, B

\* FewestWords, in every reachable state: the diff of any two of the texts at hand changes
\* as few words as any could (diff_engine.ts, diffTokenSequences).
THEOREM FewestWordsHolds == Spec => []FewestWords
<1>1. Planned => FewestWords
  <2> SUFFICES ASSUME Planned, NEW n \in DOMAIN group.cards
               PROVE  /\ group.cards[n].old \in Str(Characters) /\ group.cards[n].new \in Str(Characters)
    BY ScriptEdits DEF FewestWords
  <2>1. group \in Inputs(GetPlainText(base)) /\ base \in Paragraphs
    BY DEF Planned, NoGroup
  <2>2. group.cards \in Seq(Cards)
    BY <2>1, CardsType
  <2>3. group.cards[n] \in Cards
    BY <2>2, ElementOfSeq
  <2> QED
    BY <2>3 DEF Cards
<1> QED
  BY <1>1, PlannedHolds, PTL

----------------
\* The hunks built so far, at the point the script has come to: those that are done make
\* the texts agree up to where the last of them ends, and the one being built goes on to
\* the point itself.
Build(C) == [done : Str(Hunks(C)), open : Str(Hunks(C)), cursor : Int]
BuiltWith(C, t, s, b, z, h, x, g, e, w) ==
    /\ h \in Build(C) /\ h.cursor = x
    /\ g \in Hunks(C) /\ g.end = b /\ Fits(t, g)
    /\ h.open = <<g>> \/ (h.open = <<>> /\ g.new = <<>> /\ g.old = <<>> /\ g.start = b)
    /\ e \in Nat /\ e <= g.start /\ (h.done = <<>> \/ e + 1 <= g.start)
    /\ Makes(C, t, h.done, 0, e, w, 1)
    /\ (w \o Slice(t, e, g.start)) \o g.new = Slice(s, 0, z)
Built(C, t, s, bd, bu, h, x, y) == \E g, e, w : BuiltWith(C, t, s, bd[x], bu[y], h, x, g, e, w)

\* The pieces meet, and each token is the piece between two cuts.
LEMMA CutsAre ==
    ASSUME NEW C, NEW t \in Str(C), NEW A \in Seq(Tokens(C)), NEW bd, Cuts(t, A, bd)
    PROVE  /\ \A n \in 0 .. Len(A) : bd[n] \in 0 .. Len(t)
           /\ bd[0] = 0 /\ bd[Len(A)] = Len(t)
           /\ \A n \in 0 .. Len(A) - 1 :
                /\ bd[n + 1] \in bd[n] .. Len(t) /\ bd[n] + 1 <= bd[n + 1]
                /\ A[n + 1].start = bd[n] /\ A[n + 1].end = bd[n + 1]
                /\ A[n + 1].text = Slice(t, bd[n], bd[n + 1]) /\ A[n + 1].text \in Str(C)
<1>1. Len(A) \in Nat /\ Len(t) \in Nat
  BY LenProperties, StrProperties
<1>2. /\ bd \in [0 .. Len(A) -> 0 .. Len(t)] /\ bd[0] = 0 /\ bd[Len(A)] = Len(t)
      /\ \A n \in 1 .. Len(A) : /\ bd[n - 1] < bd[n]
                                /\ A[n].start = bd[n - 1] /\ A[n].end = bd[n]
                                /\ A[n].text = Slice(t, bd[n - 1], bd[n])
  BY DEF Cuts
<1>3. ASSUME NEW n \in 0 .. Len(A) - 1
      PROVE  /\ bd[n + 1] \in bd[n] .. Len(t) /\ bd[n] + 1 <= bd[n + 1]
             /\ A[n + 1].start = bd[n] /\ A[n + 1].end = bd[n + 1]
             /\ A[n + 1].text = Slice(t, bd[n], bd[n + 1]) /\ A[n + 1].text \in Str(C)
  <2>1. n \in 0 .. Len(A) /\ n + 1 \in 1 .. Len(A) /\ n + 1 \in 0 .. Len(A) /\ (n + 1) - 1 = n
    BY <1>1
  <2> DEFINE x == bd[n]
             y == bd[n + 1]
  <2>2. x \in 0 .. Len(t) /\ y \in 0 .. Len(t) /\ x < y
    BY <1>2, <2>1
  <2>3. A[n + 1] \in Tokens(C)
    BY <2>1, ElementOfSeq
  <2>4. /\ A[n + 1].start = x /\ A[n + 1].end = y /\ A[n + 1].text = Slice(t, x, y)
        /\ A[n + 1].text \in Str(C)
    BY <1>2, <2>1, <2>3 DEF Tokens
  <2>5. y \in x .. Len(t) /\ x + 1 <= y
    <3> HIDE DEF x, y
    <3> QED
      BY <1>1, <2>2
  <2> QED
    BY <2>4, <2>5
<1> QED
  BY <1>2, <1>3

\* A token of both texts closes the hunk being built.
LEMMA TakeEqual ==
    ASSUME NEW C, NEW t \in Str(C), NEW s \in Str(C), NEW A, NEW B, NEW length,
           NEW h, NEW g, NEW e, NEW w, NEW x, NEW z, NEW b,
           BuiltWith(C, t, s, b, z, h, x, g, e, w),
           NEW b1 \in 0 .. Len(t), NEW z1 \in 0 .. Len(s), b \in 0 .. b1, b + 1 <= b1, z \in 0 .. z1,
           Slice(t, b, b1) = Slice(s, z, z1),
           NEW o \in Op, o.op = "EQUAL"
    PROVE  \E g1, e1, w1 : BuiltWith(C, t, s, b1, z1, TakeOp(A, B, length, h, o), o.a, g1, e1, w1)
<1> DEFINE h1 == TakeOp(A, B, length, h, o)
           g1 == Hunk(b1, b1, <<>>, <<>>)
           done == h.done
           p == Slice(t, b, b1)
<1>1. /\ h \in Build(C) /\ h.cursor = x
      /\ g \in Hunks(C) /\ g.end = b /\ Fits(t, g)
      /\ h.open = <<g>> \/ (h.open = <<>> /\ g.new = <<>> /\ g.old = <<>> /\ g.start = b)
      /\ e \in Nat /\ e <= g.start /\ (h.done = <<>> \/ e + 1 <= g.start)
      /\ Makes(C, t, h.done, 0, e, w, 1)
      /\ (w \o Slice(t, e, g.start)) \o g.new = Slice(s, 0, z)
  BY DEF BuiltWith
<1>2. h1 = [done |-> h.done \o h.open, open |-> <<>>, cursor |-> o.a]
  BY DEF TakeOp, PushHunk
<1>3. done \in Seq(Hunks(C)) /\ o.a \in Int
  BY <1>1 DEF Build, Str, Op
<1>4. Len(t) \in Nat /\ Len(s) \in Nat /\ b \in 0 .. Len(t) /\ b1 \in b .. Len(t) /\ b \in Nat /\ b1 \in Nat
      /\ z \in 0 .. Len(s) /\ z1 \in z .. Len(s) /\ b <= b1
  <2>1. Len(t) \in Nat /\ Len(s) \in Nat
    BY StrProperties
  <2> QED
    BY <2>1
<1>5. g1 = [start |-> b1, end |-> b1, old |-> <<>>, new |-> <<>>]
  BY DEF Hunk
<1>6. g1 \in Hunks(C) /\ g1.end = b1 /\ g1.start = b1 /\ g1.new = <<>> /\ g1.old = <<>>
  <2>1. <<>> \in Str(C) /\ b1 \in Int
    BY <1>4, StrProperties
  <2> QED
    BY <1>5, <2>1 DEF Hunks
<1> HIDE DEF g1
<1>7. Fits(t, g1)
  <2>1. Slice(t, b1, b1) = <<>>
    BY SliceEmpty
  <2> QED
    BY <1>4, <1>6, <2>1 DEF Fits, InBounds
<1>8. Slice(s, 0, z) \o p = Slice(s, 0, z1)
  <2>1. 0 \in 0 .. Len(s) /\ z \in 0 .. Len(s)
    BY <1>4
  <2>2. Slice(s, 0, z) \o Slice(s, z, z1) = Slice(s, 0, z1)
    BY <1>4, <2>1, SliceJoin
  <2> QED
    BY <2>2
<1>10. w \in Str(C)
  BY <1>1, <1>3, MakesText
<1>11. CASE h.open = <<g>>
  <2> DEFINE w1 == (w \o Slice(t, e, g.start)) \o g.new
  <2>1. done \o h.open = Append(done, g)
    BY <1>1, <1>3, <1>11
  <2>2. Append(done, g) \in Seq(Hunks(C)) /\ h1.done = Append(done, g) /\ h1.open = <<>>
    BY <1>1, <1>2, <1>3, <2>1
  <2>3. Makes(C, t, Append(done, g), 0, g.end, w1, 1)
    <3>1. PICK k \in Nat : k = 1
      OBVIOUS
    <3>2. Makes(C, t, done, 0, e, w, k) /\ (done = <<>> \/ e + k <= g.start)
      BY <1>1, <3>1
    <3> HIDE DEF done, w1
    <3>3. Makes(C, t, Append(done, g), 0, g.end, (w \o Slice(t, e, g.start)) \o g.new, k)
      BY <1>1, <1>3, <3>2, MakesAppend
    <3> QED
      BY <3>1, <3>3 DEF w1
  <2>4. (w1 \o Slice(t, b, b1)) \o <<>> = Slice(s, 0, z1)
    <3>1. w1 \o Slice(t, b, b1) = Slice(s, 0, z1)
      BY <1>1, <1>8
    <3>2. Slice(s, 0, z1) \in Str(C)
      <4>1. 0 \in 0 .. Len(s) /\ z1 \in 0 .. Len(s)
        BY <1>4
      <4> QED
        BY <4>1, SliceProperties
    <3> QED
      BY <3>1, <3>2, StrConcat
  <2>5. h1 \in Build(C)
    <3>1. <<>> \in Str(Hunks(C))
      BY StrProperties
    <3> QED
      BY <1>2, <1>3, <2>1, <2>2, <3>1 DEF Build, Str
  <2>6. h1.cursor = o.a
    BY <1>2
  <2> HIDE DEF w1, h1
  <2>7. BuiltWith(C, t, s, b1, z1, h1, o.a, g1, b, w1)
    BY <1>1, <1>4, <1>6, <1>7, <2>2, <2>3, <2>4, <2>5, <2>6 DEF BuiltWith
  <2> QED
    BY <2>7 DEF h1
<1>12. CASE h.open = <<>> /\ g.new = <<>> /\ g.old = <<>> /\ g.start = b
  <2>1. done \o h.open = done
    BY <1>3, <1>12
  <2>2. h1.done = done /\ h1.open = <<>> /\ h1.cursor = o.a
    BY <1>2, <2>1
  <2>3. h1 \in Build(C)
    <3>1. <<>> \in Str(Hunks(C))
      BY StrProperties
    <3> QED
      BY <1>2, <1>3, <2>1, <3>1 DEF Build, Str
  <2>4. e \in 0 .. Len(t) /\ b \in e .. Len(t) /\ b1 \in b .. Len(t) /\ e <= b1 /\ e <= b
    BY <1>1, <1>4, <1>12
  <2>5. (w \o Slice(t, e, b)) \o Slice(t, b, b1) = w \o Slice(t, e, b1)
    <3>j. Goes(w, t, e, b, b1)
      BY <1>10, <2>4, SliceMore
    <3> QED
      BY ONLY <3>j DEF Goes
  <2>6. w \o Slice(t, e, b) = Slice(s, 0, z)
    <3>1. Slice(t, e, b) \in Str(C)
      BY <2>4, SliceProperties
    <3>2. w \o Slice(t, e, b) \in Str(C)
      BY <1>10, <3>1, StrConcat
    <3>3. (w \o Slice(t, e, b)) \o <<>> = w \o Slice(t, e, b)
      BY <3>2, StrConcat
    <3> QED
      BY <1>1, <1>12, <3>3
  <2>7. (w \o Slice(t, e, b1)) \o <<>> = Slice(s, 0, z1)
    <3>1. w \o Slice(t, e, b1) = Slice(s, 0, z1)
      BY <1>8, <2>5, <2>6
    <3>2. Slice(s, 0, z1) \in Str(C)
      <4>1. 0 \in 0 .. Len(s) /\ z1 \in 0 .. Len(s)
        BY <1>4
      <4> QED
        BY <4>1, SliceProperties
    <3> QED
      BY <3>1, <3>2, StrConcat
  <2>8. done = <<>> \/ e + 1 <= b1
    BY <1>1, <1>4, <1>12
  <2> HIDE DEF h1
  <2>9. BuiltWith(C, t, s, b1, z1, h1, o.a, g1, e, w)
    BY <1>1, <1>4, <1>6, <1>7, <2>2, <2>3, <2>4, <2>7, <2>8 DEF BuiltWith
  <2> QED
    BY <2>9 DEF h1
<1> QED
  BY <1>1, <1>11, <1>12

\* A token of the first text alone is taken into the hunk being built.
LEMMA TakeDelete ==
    ASSUME NEW C, NEW t \in Str(C), NEW s \in Str(C), NEW A, NEW B, NEW length,
           NEW h, NEW g, NEW e, NEW w, NEW x, NEW z, NEW b,
           BuiltWith(C, t, s, b, z, h, x, g, e, w),
           NEW b1 \in 0 .. Len(t), b \in 0 .. b1,
           NEW o \in Op, o.op = "DELETE",
           A[o.a].start = b, A[o.a].end = b1, A[o.a].text = Slice(t, b, b1)
    PROVE  \E g1, e1, w1 : BuiltWith(C, t, s, b1, z, TakeOp(A, B, length, h, o), o.a, g1, e1, w1)
<1> DEFINE h1 == TakeOp(A, B, length, h, o)
           p == Slice(t, b, b1)
           g1 == [start |-> g.start, end |-> b1, old |-> g.old \o p, new |-> g.new]
           cur == IF h.open = <<>> THEN Hunk(b, b1, <<>>, <<>>) ELSE h.open[1]
           c1 == Hunk(IF cur.old = <<>> THEN b ELSE cur.start, b1, cur.old \o p, cur.new)
<1>1. /\ h \in Build(C) /\ h.cursor = x
      /\ g \in Hunks(C) /\ g.end = b /\ Fits(t, g)
      /\ h.open = <<g>> \/ (h.open = <<>> /\ g.new = <<>> /\ g.old = <<>> /\ g.start = b)
      /\ e \in Nat /\ e <= g.start /\ (h.done = <<>> \/ e + 1 <= g.start)
      /\ Makes(C, t, h.done, 0, e, w, 1)
      /\ (w \o Slice(t, e, g.start)) \o g.new = Slice(s, 0, z)
  BY DEF BuiltWith
<1>2. h1 = [h EXCEPT !.cursor = o.a, !.open = <<c1>>]
  BY DEF TakeOp
<1>3. Len(t) \in Nat /\ b \in 0 .. Len(t) /\ b1 \in b .. Len(t) /\ b \in Nat /\ b1 \in Nat /\ b <= b1
  <2>1. Len(t) \in Nat
    BY StrProperties
  <2> QED
    BY <2>1
<1>4. /\ g.start \in 0 .. Len(t) /\ g.end \in g.start .. Len(t) /\ g.start \in Nat /\ g.start <= b
      /\ Slice(t, g.start, g.end) = g.old /\ g.new \in Str(C) /\ g.old \in Str(C)
  <2>1. /\ g.start \in 0 .. Len(t) /\ g.end \in g.start .. Len(t)
        /\ Slice(t, g.start, g.end) = g.old /\ g.new \in Str(C) /\ g.old \in Str(C)
    BY <1>1, FitsIs
  <2> QED
    BY <1>1, <1>3, <2>1
<1>5. p \in Str(C)
  BY <1>3, SliceProperties
<1>6. g.old = <<>> => g.start = b
  <2>1. Len(Slice(t, g.start, b)) = b - g.start
    <3>1. g.start \in 0 .. Len(t) /\ b \in g.start .. Len(t)
      BY <1>1, <1>4
    <3> QED
      BY <3>1, SliceProperties
  <2>2. Len(<<>>) = 0
    OBVIOUS
  <2> QED
    BY <1>1, <1>3, <1>4, <2>1, <2>2
<1>7. c1 = g1
  <2>1. CASE h.open = <<g>>
    <3>1. cur = g
      BY <2>1
    <3>2. c1 = Hunk(IF g.old = <<>> THEN b ELSE g.start, b1, g.old \o p, g.new)
      BY <3>1
    <3> QED
      BY <1>6, <3>2 DEF Hunk
  <2>2. CASE h.open = <<>> /\ g.new = <<>> /\ g.old = <<>> /\ g.start = b
    <3>1. cur = Hunk(b, b1, <<>>, <<>>)
      BY <2>2
    <3> QED
      BY <2>2, <3>1 DEF Hunk
  <2> QED
    BY <1>1, <2>1, <2>2
<1> HIDE DEF c1, p
<1>8. g1 \in Hunks(C)
  <2>1. g.start \in Int /\ b1 \in Int /\ g.old \o p \in Str(C) /\ g.new \in Str(C)
    BY <1>3, <1>4, <1>5, StrConcat
  <2> QED
    BY <2>1 DEF Hunks
<1>9. Slice(t, g.start, b1) = g.old \o p
  <2>1. Slice(t, g.start, b) \o Slice(t, b, b1) = Slice(t, g.start, b1)
    <3>1. g.start \in 0 .. Len(t) /\ b \in g.start .. Len(t)
      BY <1>1, <1>4
    <3> QED
      BY <1>3, <3>1, SliceJoin
  <2> QED
    BY <1>1, <1>4, <2>1 DEF p
<1>10. Fits(t, g1)
  <2>1. InBounds(t, g1)
    BY <1>3, <1>4 DEF InBounds
  <2> QED
    BY <1>9, <2>1 DEF Fits
<1>11. h1 = [done |-> h.done, open |-> <<g1>>, cursor |-> o.a]
  <2> HIDE DEF g1
  <2> QED
    BY <1>1, <1>2, <1>7 DEF Build
<1>12. h1 \in Build(C)
  <2>1. <<g1>> \in Str(Hunks(C))
    <3> HIDE DEF g1
    <3> QED
      BY <1>8 DEF Str
  <2>2. h.done \in Str(Hunks(C)) /\ o.a \in Int
    BY <1>1 DEF Build, Op
  <2> HIDE DEF h1, g1
  <2> QED
    BY <1>11, <2>1, <2>2 DEF Build
<1>13. g1.start = g.start /\ g1.end = b1 /\ g1.new = g.new
  OBVIOUS
<1>14. h1.cursor = o.a /\ h1.open = <<g1>> /\ h1.done = h.done
  <2> HIDE DEF h1, g1
  <2> QED
    BY <1>11
<1> HIDE DEF h1, g1
<1>15. BuiltWith(C, t, s, b1, z, h1, o.a, g1, e, w)
  BY <1>1, <1>8, <1>10, <1>12, <1>13, <1>14 DEF BuiltWith
<1> QED
  BY <1>15 DEF h1

\* A token of the second text alone is put behind what the hunk being built writes.
LEMMA TakeInsert ==
    ASSUME NEW C, NEW t \in Str(C), NEW s \in Str(C), NEW A, NEW B, NEW length,
           NEW h, NEW g, NEW e, NEW w, NEW x, NEW z, NEW b \in 0 .. Len(t),
           BuiltWith(C, t, s, b, z, h, x, g, e, w),
           NEW z1 \in 0 .. Len(s), z \in 0 .. z1,
           NEW o \in Op, o.op = "INSERT", B[o.b].text = Slice(s, z, z1),
           IF x < Len(A) THEN A[x + 1].start = b ELSE length = b
    PROVE  \E g1, e1, w1 : BuiltWith(C, t, s, b, z1, TakeOp(A, B, length, h, o), x, g1, e1, w1)
<1> DEFINE h1 == TakeOp(A, B, length, h, o)
           p == Slice(s, z, z1)
           g1 == [start |-> g.start, end |-> g.end, old |-> g.old, new |-> g.new \o p]
           cur == IF h.open = <<>> THEN Hunk(b, b, <<>>, <<>>) ELSE h.open[1]
<1>1. /\ h \in Build(C) /\ h.cursor = x
      /\ g \in Hunks(C) /\ g.end = b /\ Fits(t, g)
      /\ h.open = <<g>> \/ (h.open = <<>> /\ g.new = <<>> /\ g.old = <<>> /\ g.start = b)
      /\ e \in Nat /\ e <= g.start /\ (h.done = <<>> \/ e + 1 <= g.start)
      /\ Makes(C, t, h.done, 0, e, w, 1)
      /\ (w \o Slice(t, e, g.start)) \o g.new = Slice(s, 0, z)
  BY DEF BuiltWith
<1>2. h1 = [h EXCEPT !.open = <<[cur EXCEPT !.new = @ \o p]>>]
  <2>1. (IF h.cursor < Len(A) THEN A[h.cursor + 1].start ELSE length) = b
    BY <1>1
  <2>2. o.op # "EQUAL" /\ o.op # "DELETE"
    OBVIOUS
  <2> QED
    BY <2>1, <2>2 DEF TakeOp
<1>3. Len(s) \in Nat /\ z \in 0 .. Len(s) /\ z1 \in z .. Len(s) /\ Len(t) \in Nat /\ 0 \in 0 .. Len(s)
  <2>1. Len(s) \in Nat /\ Len(t) \in Nat
    BY StrProperties
  <2> QED
    BY <2>1
<1>4. g.start \in Int /\ g.end \in Int /\ g.old \in Str(C) /\ g.new \in Str(C) /\ p \in Str(C)
  <2>1. p \in Str(C)
    BY <1>3, SliceProperties
  <2> QED
    BY <1>1, <2>1 DEF Hunks
<1>5. g = [start |-> g.start, end |-> g.end, old |-> g.old, new |-> g.new]
  BY <1>1 DEF Hunks
<1>6. cur = g
  <2>1. CASE h.open = <<g>>
    BY <2>1
  <2>2. CASE h.open = <<>> /\ g.new = <<>> /\ g.old = <<>> /\ g.start = b
    <3>1. cur = [start |-> b, end |-> b, old |-> <<>>, new |-> <<>>]
      BY <2>2 DEF Hunk
    <3> QED
      BY <1>1, <1>5, <2>2, <3>1
  <2> QED
    BY <1>1, <2>1, <2>2
<1> HIDE DEF cur
<1>7. [cur EXCEPT !.new = @ \o p] = g1
  <2>1. [cur EXCEPT !.new = @ \o p] = [cur EXCEPT !.new = cur.new \o p]
    OBVIOUS
  <2> DEFINE n == g.new \o p
  <2> HIDE DEF n, p
  <2>2. [g EXCEPT !.new = n] = [start |-> g.start, end |-> g.end, old |-> g.old, new |-> n]
    BY <1>5
  <2> QED
    BY <1>6, <2>1, <2>2 DEF n
<1>8. g1 \in Hunks(C) /\ g1.start = g.start /\ g1.end = g.end /\ g1.old = g.old /\ g1.new = g.new \o p
  <2>1. g.new \o p \in Str(C)
    BY <1>4, StrConcat
  <2> HIDE DEF p
  <2> QED
    BY <1>4, <2>1 DEF Hunks
<1>9. h1 = [done |-> h.done, open |-> <<g1>>, cursor |-> x]
  <2> HIDE DEF g1, p
  <2> QED
    BY <1>1, <1>2, <1>7 DEF Build
<1> HIDE DEF g1
<1>10. Fits(t, g1)
  BY <1>1, <1>8 DEF Fits, InBounds
<1>11. (w \o Slice(t, e, g1.start)) \o g1.new = Slice(s, 0, z1)
  <2> DEFINE v == w \o Slice(t, e, g.start)
  <2>1. v \in Str(C)
    <3>1. w \in Str(C)
      <4>1. h.done \in Seq(Hunks(C))
        BY <1>1 DEF Build, Str
      <4> QED
        BY <1>1, <4>1, MakesText
    <3>2. e \in 0 .. Len(t) /\ g.start \in e .. Len(t)
      <4>1. g.start \in 0 .. Len(t)
        BY <1>1, FitsIs
      <4> QED
        BY <1>1, <1>3, <4>1
    <3>3. Slice(t, e, g.start) \in Str(C)
      BY <3>2, SliceProperties
    <3> QED
      BY <3>1, <3>3, StrConcat
  <2> HIDE DEF v, p
  <2> DEFINE n == g.new
  <2>2. n \in Str(C)
    BY <1>4
  <2> HIDE DEF n
  <2>3. (v \o n) \o p = v \o (n \o p)
    <3>1. \A x1, y1, z2 \in Str(C) : (x1 \o y1) \o z2 = x1 \o (y1 \o z2)
      BY StrConcat
    <3>2. p \in Str(C)
      BY <1>4
    <3> QED
      BY ONLY <2>1, <2>2, <3>2, <3>1, SMTT(60)
  <2>4. Slice(s, 0, z) \o Slice(s, z, z1) = Slice(s, 0, z1)
    BY <1>3, SliceJoin
  <2> QED
    BY <1>1, <1>8, <2>3, <2>4 DEF v, n, p
<1>12. h1 \in Build(C)
  <2>1. <<g1>> \in Str(Hunks(C))
    BY <1>8 DEF Str
  <2>2. h.done \in Str(Hunks(C)) /\ x \in Int
    BY <1>1 DEF Build
  <2> HIDE DEF h1
  <2> QED
    BY <1>9, <2>1, <2>2 DEF Build
<1>13. h1.cursor = x /\ h1.open = <<g1>> /\ h1.done = h.done
  <2> HIDE DEF h1
  <2> QED
    BY <1>9
<1> HIDE DEF h1
<1>14. BuiltWith(C, t, s, b, z1, h1, x, g1, e, w)
  BY <1>1, <1>8, <1>10, <1>11, <1>12, <1>13 DEF BuiltWith
<1> QED
  BY <1>14 DEF h1

\* One entry of the script.
LEMMA TakeOpBuilds ==
    ASSUME NEW C, NEW t \in Str(C), NEW s \in Str(C), NEW A \in Seq(Tokens(C)), NEW B \in Seq(Tokens(C)),
           NEW bd, Cuts(t, A, bd), NEW bu, Cuts(s, B, bu),
           NEW h, NEW x \in 0 .. Len(A), NEW y \in 0 .. Len(B), Built(C, t, s, bd, bu, h, x, y),
           NEW o \in Op, NEW x1, NEW y1, Move(A, B, o, x, y, x1, y1)
    PROVE  /\ Built(C, t, s, bd, bu, TakeOp(A, B, Len(t), h, o), x1, y1)
           /\ x1 \in 0 .. Len(A) /\ y1 \in 0 .. Len(B)
<1> DEFINE b == bd[x]
           z == bu[y]
<1>1. Len(t) \in Nat /\ Len(s) \in Nat /\ Len(A) \in Nat /\ Len(B) \in Nat
  BY LenProperties, StrProperties
<1>2. PICK g, e, w : BuiltWith(C, t, s, b, z, h, x, g, e, w)
  BY DEF Built
<1>3. /\ \A n \in 0 .. Len(A) : bd[n] \in 0 .. Len(t)
      /\ bd[0] = 0 /\ bd[Len(A)] = Len(t)
      /\ \A n \in 0 .. Len(A) - 1 :
           /\ bd[n + 1] \in bd[n] .. Len(t) /\ bd[n] + 1 <= bd[n + 1]
           /\ A[n + 1].start = bd[n] /\ A[n + 1].end = bd[n + 1]
           /\ A[n + 1].text = Slice(t, bd[n], bd[n + 1]) /\ A[n + 1].text \in Str(C)
  BY CutsAre
<1>4. /\ \A n \in 0 .. Len(B) : bu[n] \in 0 .. Len(s)
      /\ \A n \in 0 .. Len(B) - 1 :
           /\ bu[n + 1] \in bu[n] .. Len(s) /\ bu[n] + 1 <= bu[n + 1]
           /\ B[n + 1].text = Slice(s, bu[n], bu[n + 1])
  BY CutsAre
<1>5. b \in 0 .. Len(t) /\ z \in 0 .. Len(s)
  BY <1>3, <1>4
<1>6. x < Len(A) => /\ x + 1 \in 0 .. Len(A)
                    /\ bd[x + 1] \in 0 .. Len(t) /\ b \in 0 .. bd[x + 1] /\ b + 1 <= bd[x + 1]
                    /\ A[x + 1].start = b /\ A[x + 1].end = bd[x + 1]
                    /\ A[x + 1].text = Slice(t, b, bd[x + 1])
  <2> SUFFICES ASSUME x < Len(A)
               PROVE  /\ x + 1 \in 0 .. Len(A)
                      /\ bd[x + 1] \in 0 .. Len(t) /\ b \in 0 .. bd[x + 1] /\ b + 1 <= bd[x + 1]
                      /\ A[x + 1].start = b /\ A[x + 1].end = bd[x + 1]
                      /\ A[x + 1].text = Slice(t, b, bd[x + 1])
    OBVIOUS
  <2>1. x \in 0 .. Len(A) - 1 /\ x + 1 \in 0 .. Len(A)
    BY <1>1
  <2> DEFINE b1 == bd[x + 1]
  <2>2. /\ b1 \in b .. Len(t) /\ b + 1 <= b1 /\ A[x + 1].start = b /\ A[x + 1].end = b1
        /\ A[x + 1].text = Slice(t, b, b1) /\ b1 \in 0 .. Len(t)
    BY <1>3, <2>1
  <2>3. b \in 0 .. b1
    <3> HIDE DEF b, b1
    <3> QED
      BY <1>1, <1>5, <2>2
  <2> QED
    BY <2>1, <2>2, <2>3
<1>7. y < Len(B) => /\ y + 1 \in 0 .. Len(B)
                    /\ bu[y + 1] \in 0 .. Len(s) /\ z \in 0 .. bu[y + 1]
                    /\ B[y + 1].text = Slice(s, z, bu[y + 1])
  <2> SUFFICES ASSUME y < Len(B)
               PROVE  /\ y + 1 \in 0 .. Len(B)
                      /\ bu[y + 1] \in 0 .. Len(s) /\ z \in 0 .. bu[y + 1]
                      /\ B[y + 1].text = Slice(s, z, bu[y + 1])
    OBVIOUS
  <2>1. y \in 0 .. Len(B) - 1 /\ y + 1 \in 0 .. Len(B)
    BY <1>1
  <2> DEFINE z1 == bu[y + 1]
  <2>2. z1 \in z .. Len(s) /\ z + 1 <= z1 /\ B[y + 1].text = Slice(s, z, z1) /\ z1 \in 0 .. Len(s)
    BY <1>4, <2>1
  <2>3. z \in 0 .. z1
    <3> HIDE DEF z, z1
    <3> QED
      BY <1>1, <1>5, <2>2
  <2> QED
    BY <2>1, <2>2, <2>3
<1> HIDE DEF b, z
<1>8. CASE /\ o.op = "EQUAL" /\ x1 = x + 1 /\ y1 = y + 1 /\ o.a = x1 /\ o.b = y1
           /\ x1 <= Len(A) /\ y1 <= Len(B) /\ A[x1].text = B[y1].text
  <2> DEFINE b1 == bd[x1]
             z1 == bu[y1]
  <2>1. x < Len(A) /\ y < Len(B)
    BY <1>1, <1>8
  <2>2. /\ b1 \in 0 .. Len(t) /\ b \in 0 .. b1 /\ b + 1 <= b1 /\ z1 \in 0 .. Len(s) /\ z \in 0 .. z1
        /\ Slice(t, b, b1) = Slice(s, z, z1)
    BY <1>6, <1>7, <1>8, <2>1
  <2> HIDE DEF b1, z1
  <2>3. \E g1, e1, w1 : BuiltWith(C, t, s, b1, z1, TakeOp(A, B, Len(t), h, o), o.a, g1, e1, w1)
    BY <1>2, <1>8, <2>2, TakeEqual
  <2>4. Built(C, t, s, bd, bu, TakeOp(A, B, Len(t), h, o), x1, y1)
    BY <1>8, <2>3 DEF Built, b1, z1
  <2> QED
    BY <1>6, <1>7, <1>8, <2>1, <2>4
<1>9. CASE o.op = "DELETE" /\ x1 = x + 1 /\ y1 = y /\ o.a = x1 /\ x1 <= Len(A)
  <2> DEFINE b1 == bd[x1]
  <2>1. x < Len(A)
    BY <1>1, <1>9
  <2>2. /\ b1 \in 0 .. Len(t) /\ b \in 0 .. b1
        /\ A[o.a].start = b /\ A[o.a].end = b1 /\ A[o.a].text = Slice(t, b, b1)
    BY <1>6, <1>9, <2>1
  <2> HIDE DEF b1
  <2>3. \E g1, e1, w1 : BuiltWith(C, t, s, b1, z, TakeOp(A, B, Len(t), h, o), o.a, g1, e1, w1)
    BY <1>2, <1>9, <2>2, TakeDelete
  <2>4. Built(C, t, s, bd, bu, TakeOp(A, B, Len(t), h, o), x1, y1)
    BY <1>9, <2>3 DEF Built, b1, z
  <2> QED
    BY <1>6, <1>9, <2>1, <2>4
<1>10. CASE o.op = "INSERT" /\ x1 = x /\ y1 = y + 1 /\ o.b = y1 /\ y1 <= Len(B)
  <2> DEFINE z1 == bu[y1]
  <2>1. y < Len(B)
    BY <1>1, <1>10
  <2>2. z1 \in 0 .. Len(s) /\ z \in 0 .. z1 /\ B[o.b].text = Slice(s, z, z1)
    BY <1>7, <1>10, <2>1
  <2>3. IF x < Len(A) THEN A[x + 1].start = b ELSE Len(t) = b
    BY <1>1, <1>3, <1>6 DEF b
  <2> HIDE DEF z1
  <2>4. \E g1, e1, w1 : BuiltWith(C, t, s, b, z1, TakeOp(A, B, Len(t), h, o), x, g1, e1, w1)
    BY <1>2, <1>5, <1>10, <2>2, <2>3, TakeInsert
  <2>5. Built(C, t, s, bd, bu, TakeOp(A, B, Len(t), h, o), x1, y1)
    BY <1>10, <2>4 DEF Built, z1, b
  <2> QED
    BY <1>7, <1>10, <2>1, <2>5
<1> QED
  BY <1>8, <1>9, <1>10 DEF Move

\* Nothing is built at the beginning.
LEMMA BuiltNothing ==
    ASSUME NEW C, NEW t \in Str(C), NEW s \in Str(C), NEW bd, bd[0] = 0, NEW bu, bu[0] = 0
    PROVE  Built(C, t, s, bd, bu, [done |-> <<>>, open |-> <<>>, cursor |-> 0], 0, 0)
<1> DEFINE h == [done |-> <<>>, open |-> <<>>, cursor |-> 0]
           g == [start |-> 0, end |-> 0, old |-> <<>>, new |-> <<>>]
<1>1. Len(t) \in Nat /\ Len(s) \in Nat /\ 0 \in 0 .. Len(t) /\ 0 \in 0 .. Len(s)
  BY StrProperties
<1>2. <<>> \in Str(C) /\ <<>> \in Str(Hunks(C))
  BY StrProperties
<1>3. h \in Build(C) /\ g \in Hunks(C)
  BY <1>2 DEF Build, Hunks
<1>4. Slice(t, 0, 0) = <<>> /\ Slice(s, 0, 0) = <<>>
  BY <1>1, SliceEmpty
<1>5. Fits(t, g)
  BY <1>1, <1>4 DEF Fits, InBounds
<1>6. Makes(C, t, <<>>, 0, 0, Slice(t, 0, 0), 1)
  <2>1. PICK a \in 0 .. Len(t) : a = 0
    BY <1>1
  <2>2. a \in a .. Len(t)
    BY <1>1, <2>1
  <2>3. Makes(C, t, <<>>, a, a, Slice(t, a, a), 1)
    BY <2>2, MakesNothing
  <2> QED
    BY <2>1, <2>3
<1>7. /\ h.done = <<>> /\ h.open = <<>> /\ h.cursor = 0
      /\ g.start = 0 /\ g.end = 0 /\ g.old = <<>> /\ g.new = <<>>
  OBVIOUS
<1>8. (<<>> \o Slice(t, 0, 0)) \o <<>> = Slice(s, 0, 0)
  BY <1>2, <1>4, StrConcat
<1> HIDE DEF h, g
<1>9. BuiltWith(C, t, s, 0, 0, h, 0, g, 0, <<>>)
  BY <1>3, <1>4, <1>5, <1>6, <1>7, <1>8 DEF BuiltWith
<1> QED
  BY <1>9 DEF Built, h

\* The hunk being built at the end is the last.
LEMMA BuiltAll ==
    ASSUME NEW C, NEW t \in Str(C), NEW s \in Str(C), NEW bd, NEW bu, NEW x, NEW y,
           bd[x] = Len(t), bu[y] = Len(s), NEW h, Built(C, t, s, bd, bu, h, x, y)
    PROVE  /\ PushHunk(h).done \in Seq(Hunks(C))
           /\ Makes(C, t, PushHunk(h).done, 0, Len(t), s, 1)
<1> DEFINE done == h.done
           l == Len(t)
<1>1. PICK g, e, w : BuiltWith(C, t, s, l, Len(s), h, x, g, e, w)
  BY DEF Built
<1>2. /\ h \in Build(C) /\ h.cursor = x
      /\ g \in Hunks(C) /\ g.end = l /\ Fits(t, g)
      /\ h.open = <<g>> \/ (h.open = <<>> /\ g.new = <<>> /\ g.old = <<>> /\ g.start = l)
      /\ e \in Nat /\ e <= g.start /\ (done = <<>> \/ e + 1 <= g.start)
      /\ Makes(C, t, done, 0, e, w, 1)
      /\ (w \o Slice(t, e, g.start)) \o g.new = Slice(s, 0, Len(s))
  BY <1>1 DEF BuiltWith
<1>3. done \in Seq(Hunks(C)) /\ l \in Nat /\ Slice(s, 0, Len(s)) = s
  BY <1>2, StrProperties, SliceWhole DEF Build, Str
<1>4. PushHunk(h).done = done \o h.open
  BY DEF PushHunk
<1>5. PICK k \in Nat : k = 1
  OBVIOUS
<1>6. CASE h.open = <<g>>
  <2>1. done \o h.open = Append(done, g) /\ Append(done, g) \in Seq(Hunks(C))
    BY <1>2, <1>3, <1>6
  <2>2. Makes(C, t, done, 0, e, w, k) /\ (done = <<>> \/ e + k <= g.start)
    BY <1>2, <1>5
  <2> HIDE DEF done
  <2>3. Makes(C, t, Append(done, g), 0, g.end, (w \o Slice(t, e, g.start)) \o g.new, k)
    BY <1>2, <1>3, <2>2, MakesAppend
  <2> QED
    BY <1>2, <1>3, <1>4, <1>5, <2>1, <2>3 DEF l
<1>7. CASE h.open = <<>> /\ g.new = <<>> /\ g.old = <<>> /\ g.start = l
  <2>1. done \o h.open = done
    BY <1>3, <1>7
  <2>2. e \in 0 .. Len(t) /\ Len(t) \in e .. Len(t)
    BY <1>2, <1>3, <1>7
  <2>3. Makes(C, t, done, 0, e, w, k)
    BY <1>2, <1>5
  <2>4. w \in Str(C)
    BY <1>3, <2>3, MakesText
  <2>5. (w \o Slice(t, e, Len(t))) \o <<>> = w \o Slice(t, e, Len(t))
    <3>1. Slice(t, e, Len(t)) \in Str(C)
      BY <2>2, SliceProperties
    <3>2. w \o Slice(t, e, Len(t)) \in Str(C)
      BY <2>4, <3>1, StrConcat
    <3> QED
      BY <3>2, StrConcat
  <2> HIDE DEF done
  <2>6. Makes(C, t, done, 0, Len(t), w \o Slice(t, e, Len(t)), k)
    BY <1>3, <2>2, <2>3, MakesExtend
  <2> QED
    BY <1>2, <1>3, <1>4, <1>5, <1>7, <2>1, <2>5, <2>6 DEF l
<1> QED
  BY <1>2, <1>6, <1>7

\* The hunks built along a script that leads from one text to the other make the one of
\* the other, and no two of them touch.
LEMMA BuildHunksMake ==
    ASSUME NEW C, NEW t \in Str(C), NEW s \in Str(C), NEW A \in Seq(Tokens(C)), NEW B \in Seq(Tokens(C)),
           NEW bd, Cuts(t, A, bd), NEW bu, Cuts(s, B, bu),
           NEW ops \in Seq(Op), NEW edits, Leads(A, B, ops, 0, 0, Len(A), Len(B), edits)
    PROVE  /\ BuildHunks(ops, A, B, Len(t)) \in Seq(Hunks(C))
           /\ Makes(C, t, BuildHunks(ops, A, B, Len(t)), 0, Len(t), s, 1)
<1> DEFINE N == Len(ops)
           S == Build(C)
           b == [done |-> <<>>, open |-> <<>>, cursor |-> 0]
           Take(h, n) == TakeOp(A, B, Len(t), h, ops[n])
           step == [n \in 1 .. N |-> [h \in S |-> IF Take(h, n) \in S THEN Take(h, n) ELSE h]]
           G == CHOOSE g : g = [n \in 0 .. N |-> IF n = 0 THEN b
                    ELSE With(g[n - 1], LAMBDA h : TakeOp(A, B, Len(t), h, ops[n]))]
<1>1. N \in Nat /\ Len(A) \in Nat /\ Len(B) \in Nat /\ \A n \in 1 .. N : ops[n] \in Op
  BY LenProperties, ElementOfSeq
<1>2. PICK X, Y, E : /\ Walk(A, B, ops, X, Y, E)
                     /\ X[0] = 0 /\ Y[0] = 0 /\ X[N] = Len(A) /\ Y[N] = Len(B)
  BY DEF Leads
<1>3. \A n \in 1 .. N : Move(A, B, ops[n], X[n - 1], Y[n - 1], X[n], Y[n])
  BY <1>2 DEF Walk
<1>4. b \in S
  <2>1. <<>> \in Str(Hunks(C))
    BY StrProperties
  <2> QED
    BY <2>1 DEF Build
<1>5. PICK F \in [0 .. N -> S] : F[0] = b /\ \A n \in 1 .. N : F[n] = step[n][F[n - 1]]
  <2>1. step \in [1 .. N -> [S -> S]]
    <3> HIDE DEF S
    <3> QED
      OBVIOUS
  <2> HIDE DEF step, S, N, b
  <2>2. PICK c \in S : c = b
    BY <1>4
  <2>3. N \in Nat /\ c \in S /\ step \in [1 .. N -> [S -> S]]
    BY <1>1, <2>1
  <2> DEFINE R == Recursion(S, c, N, step)
  <2>4. R \in [0 .. N -> S] /\ R[0] = c /\ \A n \in 1 .. N : R[n] = step[n][R[n - 1]]
    BY ONLY <2>3, RecursionIs
  <2> HIDE DEF R
  <2> QED
    BY <2>2, <2>4
<1>6. bd[0] = 0 /\ bd[Len(A)] = Len(t) /\ bu[0] = 0 /\ bu[Len(B)] = Len(s)
  BY CutsAre
<1> DEFINE Good(n) == /\ Built(C, t, s, bd, bu, F[n], X[n], Y[n])
                      /\ X[n] \in 0 .. Len(A) /\ Y[n] \in 0 .. Len(B)
           T == {n \in 0 .. N : Good(n) /\ (n > 0 => F[n] = Take(F[n - 1], n))}
<1>7. \A n \in 0 .. N : n \in T
  <2>1. 0 \in T
    <3>1. Built(C, t, s, bd, bu, F[0], 0, 0)
      BY <1>5, <1>6, BuiltNothing
    <3> HIDE DEF N
    <3> QED
      BY <1>1, <1>2, <3>1
  <2>2. ASSUME NEW n \in 1 .. N, n - 1 \in T
        PROVE  n \in T
    <3>1. n \in 0 .. N /\ n - 1 \in 0 .. N
      BY <1>1
    <3> DEFINE h == F[n - 1]
               x == X[n - 1]
               y == Y[n - 1]
               h1 == Take(h, n)
    <3>2. Built(C, t, s, bd, bu, h, x, y) /\ x \in 0 .. Len(A) /\ y \in 0 .. Len(B)
      BY <2>2
    <3>3. /\ Built(C, t, s, bd, bu, h1, X[n], Y[n])
          /\ X[n] \in 0 .. Len(A) /\ Y[n] \in 0 .. Len(B)
      <4>1. Move(A, B, ops[n], x, y, X[n], Y[n]) /\ ops[n] \in Op
        BY <1>1, <1>3
      <4> HIDE DEF h, x, y
      <4> QED
        BY <3>2, <4>1, TakeOpBuilds
    <3>4. h1 \in S
      BY <3>3 DEF Built, BuiltWith
    <3>5. h \in S /\ F[n] = step[n][h]
      BY <1>5, <3>1
    <3>6. F[n] = h1
      <4> HIDE DEF S, h
      <4>1. step[n][h] = IF Take(h, n) \in S THEN Take(h, n) ELSE h
        BY <3>5
      <4> QED
        BY <3>4, <3>5, <4>1
    <3> HIDE DEF S, step, N
    <3> QED
      BY <3>1, <3>3, <3>6
  <2> HIDE DEF T
  <2> QED
    BY <1>1, <2>1, <2>2, UpTo
<1> HIDE DEF S, step
<1>8. \A n \in 1 .. N : F[n] = Take(F[n - 1], n)
  <2> TAKE n \in 1 .. N
  <2>1. n \in 0 .. N /\ n > 0
    BY <1>1
  <2> QED
    BY <1>7, <2>1
<1>9. BuildHunks(ops, A, B, Len(t)) = PushHunk(G[N]).done
  BY DEF BuildHunks
<1> HIDE DEF N, b
<1>10. F = [n \in 0 .. N |-> IF n = 0 THEN b
                ELSE With(F[n - 1], LAMBDA h : TakeOp(A, B, Len(t), h, ops[n]))]
  <2>1. \A n \in 1 .. N : With(F[n - 1], LAMBDA h : TakeOp(A, B, Len(t), h, ops[n])) = F[n]
    BY <1>8 DEF With
  <2>2. \A n \in 0 .. N : n = 0 \/ n \in 1 .. N
    BY <1>1
  <2>3. \A n \in 0 .. N : F[n] = IF n = 0 THEN b
                ELSE With(F[n - 1], LAMBDA h : TakeOp(A, B, Len(t), h, ops[n]))
    BY <1>5, <2>1, <2>2
  <2>4. F = [n \in 0 .. N |-> F[n]]
    BY <1>5
  <2> QED
    BY <2>3, <2>4
<1>11. G = [n \in 0 .. N |-> IF n = 0 THEN b
                ELSE With(G[n - 1], LAMBDA h : TakeOp(A, B, Len(t), h, ops[n]))]
  BY <1>10
<1> HIDE DEF G
<1> DEFINE U == {n \in 0 .. N : G[n] = F[n]}
<1>12. 0 \in U
  BY <1>1, <1>5, <1>11
<1>13. ASSUME NEW n \in 1 .. N, n - 1 \in U
       PROVE  n \in U
  <2>1. n \in 0 .. N /\ n # 0
    BY <1>1
  <2>2. G[n] = With(G[n - 1], LAMBDA h : TakeOp(A, B, Len(t), h, ops[n]))
    BY <1>11, <2>1
  <2>3. G[n] = TakeOp(A, B, Len(t), G[n - 1], ops[n])
    BY <2>2 DEF With
  <2> QED
    BY <1>8, <1>13, <2>1, <2>3
<1>14. \A n \in 0 .. N : n \in U
  <2> HIDE DEF U
  <2> QED
    BY <1>1, <1>12, <1>13, UpTo
<1>15. N \in 0 .. N
  BY <1>1
<1>16. G[N] = F[N] /\ Built(C, t, s, bd, bu, F[N], Len(A), Len(B))
  BY <1>2, <1>7, <1>14, <1>15 DEF N
<1>17. /\ PushHunk(F[N]).done \in Seq(Hunks(C))
       /\ Makes(C, t, PushHunk(F[N]).done, 0, Len(t), s, 1)
  BY <1>6, <1>16, BuiltAll
<1> QED
  BY <1>9, <1>16, <1>17

----------------
\* How many of their first characters are the same white space.
Shared(a, b) ==
    Greatest({n \in 0 .. Least({Len(a), Len(b)}) : \A i \in 1 .. n : Space(a[i]) /\ a[i] = b[i]})

\* The first of them are the same in both texts.
LEMMA SharedIs ==
    ASSUME NEW C, NEW a \in Str(C), NEW b \in Str(C)
    PROVE  /\ Shared(a, b) \in 0 .. Len(a) /\ Shared(a, b) \in 0 .. Len(b)
           /\ \A i \in 1 .. Shared(a, b) : a[i] = b[i]
<1> DEFINE m == Least({Len(a), Len(b)})
           T == {n \in 0 .. m : \A i \in 1 .. n : Space(a[i]) /\ a[i] = b[i]}
<1>1. Len(a) \in Nat /\ Len(b) \in Nat
  BY StrProperties
<1>2. m \in Nat /\ m <= Len(a) /\ m <= Len(b)
  <2>1. m = IF Len(a) <= Len(b) THEN Len(a) ELSE Len(b)
    BY <1>1, LeastOfTwo
  <2> QED
    BY <1>1, <2>1
<1> HIDE DEF m
<1>3. T \subseteq 0 .. m /\ 0 \in T
  BY <1>2
<1>4. Greatest(T) \in T
  <2> HIDE DEF T
  <2> QED
    BY <1>2, <1>3, GreatestProperties
<1>5. Shared(a, b) = Greatest(T)
  BY DEF Shared, m
<1> DEFINE n == Shared(a, b)
<1>6. n \in 0 .. m /\ \A i \in 1 .. n : a[i] = b[i]
  BY <1>4, <1>5
<1>7. n \in 0 .. Len(a) /\ n \in 0 .. Len(b)
  <2> HIDE DEF n
  <2> QED
    BY <1>1, <1>2, <1>6
<1> QED
  BY <1>6, <1>7

\* Two texts that agree at the start, and at the end.
SameFront(C, a, b, n) ==
    /\ Slice(a, 0, n) = Slice(b, 0, n) /\ Slice(a, 0, n) \in Str(C) /\ Len(Slice(a, 0, n)) = n
    /\ Slice(a, n, Len(a)) \in Str(C) /\ Slice(b, n, Len(b)) \in Str(C)
    /\ a = Slice(a, 0, n) \o Slice(a, n, Len(a))
    /\ b = Slice(b, 0, n) \o Slice(b, n, Len(b))
SameBack(C, a, b, n) ==
    /\ n \in Nat
    /\ \E q \in Str(C) :
         /\ Len(q) = n
         /\ Slice(a, 0, Len(a) - n) \in Str(C) /\ Slice(b, 0, Len(b) - n) \in Str(C)
         /\ a = Slice(a, 0, Len(a) - n) \o q /\ b = Slice(b, 0, Len(b) - n) \o q

\* As many as are shared at the front are a common beginning.
LEMMA SharedFront ==
    ASSUME NEW C, NEW a \in Str(C), NEW b \in Str(C), NEW n, n = Shared(a, b)
    PROVE  SameFront(C, a, b, n)
<1>1. Len(a) \in Nat /\ Len(b) \in Nat
  BY StrProperties
<1>2. n \in 0 .. Len(a) /\ n \in 0 .. Len(b) /\ \A i \in 1 .. n : a[i] = b[i]
  BY SharedIs
<1>3. PICK o \in Nat : o = 0
  OBVIOUS
<1>4. /\ o \in 0 .. Len(a) /\ n \in o .. Len(a) /\ o \in 0 .. Len(b) /\ n \in o .. Len(b)
      /\ Len(a) \in n .. Len(a) /\ Len(b) \in n .. Len(b) /\ n - o = n /\ n \in Nat
  BY <1>1, <1>2, <1>3
<1>5. /\ Slice(a, o, n) \in Str(C) /\ Len(Slice(a, o, n)) = n - o
      /\ \A i \in 1 .. n - o : Slice(a, o, n)[i] = a[o + i]
  BY <1>4, SliceProperties
<1>6. /\ Slice(b, o, n) \in Str(C) /\ Len(Slice(b, o, n)) = n - o
      /\ \A i \in 1 .. n - o : Slice(b, o, n)[i] = b[o + i]
  BY <1>4, SliceProperties, ZenonT(60)
<1> DEFINE p == Slice(a, o, n)
           q == Slice(b, o, n)
<1>7. p = q
  <2>1. \A i \in 1 .. n : o + i = i
    BY <1>3, <1>4
  <2>2. p \in Str(C) /\ q \in Str(C) /\ Len(p) = n /\ Len(q) = n
    BY <1>4, <1>5, <1>6
  <2>3. \A i \in 1 .. n : p[i] = q[i]
    BY <1>2, <1>4, <1>5, <1>6, <2>1
  <2> HIDE DEF p, q
  <2> QED
    BY <2>2, <2>3, StrEqual
<1>8. Slice(a, n, Len(a)) \in Str(C) /\ Slice(b, n, Len(b)) \in Str(C)
  BY <1>2, <1>4, SliceProperties
<1>9. /\ Slice(a, o, n) \o Slice(a, n, Len(a)) = Slice(a, o, Len(a))
      /\ Slice(b, o, n) \o Slice(b, n, Len(b)) = Slice(b, o, Len(b))
  BY <1>4, SliceJoin
<1>10. Slice(a, 0, Len(a)) = a /\ Slice(b, 0, Len(b)) = b
  BY SliceWhole
<1> QED
  BY <1>3, <1>4, <1>5, <1>7, <1>8, <1>9, <1>10 DEF SameFront

\* As many as are shared backwards are a common end.
LEMMA SharedBack ==
    ASSUME NEW C, NEW a \in Str(C), NEW b \in Str(C), NEW n, n = Shared(Q!Reverse(a), Q!Reverse(b))
    PROVE  SameBack(C, a, b, n)
<1> DEFINE x == Len(a) - n
           y == Len(b) - n
           p == Slice(a, x, Len(a))
           q == Slice(b, y, Len(b))
<1>1. Len(a) \in Nat /\ Len(b) \in Nat
  BY StrProperties
<1>2. /\ Q!Reverse(a) \in Str(C) /\ Len(Q!Reverse(a)) = Len(a)
      /\ \A i \in 1 .. Len(a) : Q!Reverse(a)[i] = a[(Len(a) - i) + 1]
  BY ReverseIs DEF Str
<1>3. /\ Q!Reverse(b) \in Str(C) /\ Len(Q!Reverse(b)) = Len(b)
      /\ \A i \in 1 .. Len(b) : Q!Reverse(b)[i] = b[(Len(b) - i) + 1]
  BY ReverseIs DEF Str
<1> DEFINE ra == Q!Reverse(a)
           rb == Q!Reverse(b)
<1>4. n \in 0 .. Len(a) /\ n \in 0 .. Len(b) /\ \A i \in 1 .. n : ra[i] = rb[i]
  <2>1. ra \in Str(C) /\ rb \in Str(C) /\ Len(ra) = Len(a) /\ Len(rb) = Len(b) /\ n = Shared(ra, rb)
    BY <1>2, <1>3
  <2> HIDE DEF ra, rb
  <2> QED
    BY <2>1, SharedIs
<1>5. /\ n \in Nat /\ x \in 0 .. Len(a) /\ y \in 0 .. Len(b) /\ Len(a) \in x .. Len(a) /\ Len(b) \in y .. Len(b)
      /\ Len(a) - x = n /\ Len(b) - y = n /\ 0 \in 0 .. Len(a) /\ 0 \in 0 .. Len(b)
      /\ x \in 0 .. Len(a) /\ y \in 0 .. Len(b)
  BY <1>1, <1>4
<1>6. \A i \in 1 .. n : a[x + i] = b[y + i]
  <2> TAKE i \in 1 .. n
  <2> DEFINE j == (n - i) + 1
  <2>1. /\ j \in 1 .. n /\ j \in 1 .. Len(a) /\ j \in 1 .. Len(b)
        /\ (Len(a) - j) + 1 = x + i /\ (Len(b) - j) + 1 = y + i
    BY <1>1, <1>4
  <2> HIDE DEF j, x, y
  <2>2. ra[j] = a[x + i] /\ rb[j] = b[y + i]
    BY <1>2, <1>3, <2>1
  <2> QED
    BY <1>4, <2>1, <2>2
<1> HIDE DEF x, y
<1>7. /\ p \in Str(C) /\ Len(p) = Len(a) - x
      /\ \A i \in 1 .. Len(a) - x : p[i] = a[x + i]
  BY <1>5, SliceProperties
<1>8. /\ q \in Str(C) /\ Len(q) = Len(b) - y
      /\ \A i \in 1 .. Len(b) - y : q[i] = b[y + i]
  BY <1>5, SliceProperties, ZenonT(60)
<1> HIDE DEF p, q
<1>9. p = q
  <2>1. Len(p) = Len(q) /\ \A i \in 1 .. Len(p) : p[i] = q[i]
    BY <1>5, <1>6, <1>7, <1>8
  <2> QED
    BY <1>7, <1>8, <2>1, StrEqual
<1>10. Slice(a, 0, x) \o p = a /\ Slice(b, 0, y) \o q = b
  <2>1. /\ Slice(a, 0, x) \o Slice(a, x, Len(a)) = Slice(a, 0, Len(a))
        /\ Slice(b, 0, y) \o Slice(b, y, Len(b)) = Slice(b, 0, Len(b))
    <3>1. x \in 0 .. Len(a) /\ y \in 0 .. Len(b)
      BY <1>5
    <3> QED
      BY <1>5, <3>1, SliceJoin
  <2>2. Slice(a, 0, Len(a)) = a /\ Slice(b, 0, Len(b)) = b
    BY SliceWhole
  <2> QED
    BY <2>1, <2>2 DEF p, q
<1>11. Slice(a, 0, x) \in Str(C) /\ Slice(b, 0, y) \in Str(C)
  BY <1>5, SliceProperties
<1>12. Len(q) = n
  BY <1>5, <1>8
<1> QED
  BY <1>5, <1>8, <1>9, <1>10, <1>11, <1>12 DEF x, y, SameBack

\* What trimming leaves of a hunk, and the text on both sides of it.
Trimmed(C, h, g, p, q) ==
    /\ p \in Str(C) /\ q \in Str(C) /\ g \in Hunks(C)
    /\ g.start = h.start + Len(p) /\ g.end = h.end - Len(q)
    /\ h.old = (p \o g.old) \o q /\ h.new = (p \o g.new) \o q

\* Trimming a hunk (trimHunkWhitespace) takes the same text off both of its texts, at
\* both ends.
LEMMA TrimIs ==
    ASSUME NEW C, NEW h \in Hunks(C)
    PROVE  \E p, q : Trimmed(C, h, TrimHunkWhitespace(h), p, q)
<1> DEFINE a == h.old
           b == h.new
           lead == Shared(a, b)
           old == Slice(a, lead, Len(a))
           new == Slice(b, lead, Len(b))
           tail == Shared(Q!Reverse(old), Q!Reverse(new))
           o == Slice(old, 0, Len(old) - tail)
           w == Slice(new, 0, Len(new) - tail)
           p == Slice(a, 0, lead)
           g == TrimHunkWhitespace(h)
<1>1. h.start \in Int /\ h.end \in Int /\ a \in Str(C) /\ b \in Str(C)
  BY DEF Hunks
<1>2. g = Hunk(h.start + lead, h.end - tail, o, w)
  BY DEF TrimHunkWhitespace, Shared
<1> HIDE DEF a, b
<1>3. /\ p = Slice(b, 0, lead) /\ p \in Str(C) /\ Len(p) = lead
      /\ old \in Str(C) /\ new \in Str(C)
      /\ a = p \o old /\ b = Slice(b, 0, lead) \o new
  <2>1. a \in Str(C) /\ b \in Str(C) /\ lead = Shared(a, b)
    BY <1>1
  <2> HIDE DEF lead
  <2>2. /\ Slice(a, 0, lead) = Slice(b, 0, lead) /\ Slice(a, 0, lead) \in Str(C) /\ Len(Slice(a, 0, lead)) = lead
        /\ Slice(a, lead, Len(a)) \in Str(C) /\ Slice(b, lead, Len(b)) \in Str(C)
        /\ a = Slice(a, 0, lead) \o Slice(a, lead, Len(a))
        /\ b = Slice(b, 0, lead) \o Slice(b, lead, Len(b))
    <3>1. SameFront(C, a, b, lead)
      BY <2>1, SharedFront
    <3> QED
      BY <3>1 DEF SameFront
  <2> QED
    BY <2>2
<1>4. lead \in Nat
  BY <1>3, StrProperties
<1>5. b = p \o new
  BY <1>3
<1> HIDE DEF lead, p, old, new
<1>6. /\ tail \in Nat
      /\ \E q \in Str(C) :
           /\ Len(q) = tail
           /\ o \in Str(C) /\ w \in Str(C)
           /\ old = o \o q /\ new = w \o q
  <2>1. old \in Str(C) /\ new \in Str(C) /\ tail = Shared(Q!Reverse(old), Q!Reverse(new))
    BY <1>3
  <2>2. SameBack(C, old, new, tail)
    <3> HIDE DEF tail
    <3> QED
      BY <2>1, SharedBack
  <2> QED
    BY <2>2 DEF SameBack
<1> HIDE DEF tail, o, w
<1>7. PICK q \in Str(C) : /\ Len(q) = tail
                          /\ o \in Str(C) /\ w \in Str(C)
                          /\ old = o \o q /\ new = w \o q
  BY <1>6
<1>8. g = [start |-> h.start + lead, end |-> h.end - tail, old |-> o, new |-> w]
  BY <1>2 DEF Hunk
<1>9. g \in Hunks(C) /\ g.start = h.start + lead /\ g.end = h.end - tail /\ g.old = o /\ g.new = w
  <2>1. h.start + lead \in Int /\ h.end - tail \in Int
    BY <1>1, <1>4, <1>6
  <2> HIDE DEF g
  <2> QED
    BY <1>7, <1>8, <2>1 DEF Hunks
<1>11. p \in Str(C) /\ q \in Str(C) /\ o \in Str(C) /\ w \in Str(C)
  BY <1>3, <1>7
<1>12. (p \o o) \o q = p \o (o \o q) /\ (p \o w) \o q = p \o (w \o q)
  <2>5. (p \o o) \o q = p \o (o \o q)
    <3>j. Joins(p, o, q)
      BY ONLY <1>11, StrJoin
    <3> QED
      BY ONLY <3>j DEF Joins
  <2>6. (p \o w) \o q = p \o (w \o q)
    <3>j. Joins(p, w, q)
      BY ONLY <1>11, StrJoin
    <3> QED
      BY ONLY <3>j DEF Joins
  <2> QED
    BY <2>5, <2>6
<1>13. a = (p \o o) \o q /\ b = (p \o w) \o q
  <2>1. a = p \o old /\ b = p \o new
    BY <1>3, <1>5
  <2> QED
    BY <1>7, <1>12, <2>1
<1> HIDE DEF g
<1>14. Trimmed(C, h, g, p, q)
  BY <1>3, <1>7, <1>9, <1>11, <1>13 DEF Trimmed, a, b
<1> QED
  BY <1>14 DEF g

\* A trimmed hunk fits where the whole of it did, and what was taken off stands beside it.
LEMMA TrimFits ==
    ASSUME NEW C, NEW t \in Str(C), NEW h \in Hunks(C), Fits(t, h),
           NEW g, NEW p, NEW q, Trimmed(C, h, g, p, q)
    PROVE  /\ Fits(t, g) /\ g.end \in 0 .. Len(t)
           /\ g.start \in h.start .. Len(t) /\ h.end \in g.end .. Len(t)
           /\ p = Slice(t, h.start, g.start) /\ q = Slice(t, g.end, h.end)
<1> DEFINE a == h.start
           b == h.end
           x == g.start
           y == g.end
           o == g.old
           l == Len(p)
           m == Len(o)
           n == Len(q)
<1>1. /\ p \in Str(C) /\ q \in Str(C) /\ g \in Hunks(C) /\ x = a + l /\ y = b - n
      /\ h.old = (p \o o) \o q
  BY DEF Trimmed
<1>2. o \in Str(C) /\ x \in Int /\ y \in Int
  BY <1>1 DEF Hunks
<1>3. /\ a \in 0 .. Len(t) /\ b \in a .. Len(t) /\ Slice(t, a, b) = h.old /\ Len(t) \in Nat
      /\ a \in Nat /\ b \in Nat
  <2>1. Len(t) \in Nat
    BY StrProperties
  <2>2. a \in 0 .. Len(t) /\ b \in a .. Len(t) /\ Slice(t, a, b) = h.old
    BY FitsIs
  <2> HIDE DEF a, b
  <2> QED
    BY <2>1, <2>2
<1>4. l \in Nat /\ m \in Nat /\ n \in Nat
  BY <1>1, <1>2, StrProperties
<1>5. b - a = l + m + n
  <2>1. Len(Slice(t, a, b)) = b - a
    BY <1>3, SliceProperties
  <2>2. p \o o \in Str(C) /\ Len(p \o o) = l + m
    BY <1>1, <1>2, StrConcat
  <2>3. Len((p \o o) \o q) = Len(p \o o) + n
    BY <1>1, <2>2, StrConcat
  <2> QED
    BY <1>1, <1>3, <2>1, <2>2, <2>3
<1> HIDE DEF l, m, n, a, b, x, y, o
<1>6. x = a + l /\ y = a + (l + m) /\ b = a + (l + m + n)
  BY <1>1, <1>3, <1>4, <1>5
<1>7. /\ x \in 0 .. Len(t) /\ y \in 0 .. Len(t) /\ x \in a .. Len(t) /\ b \in y .. Len(t) /\ y \in x .. Len(t)
      /\ x \in Nat /\ y \in Nat /\ x <= y /\ y <= Len(t)
  BY <1>3, <1>4, <1>6
\* Each part of the old text stands where it is cut out of the text.
<1>8. Slice(t, a, x) = p
  <2>1. PICK z \in Nat : z = 0
    OBVIOUS
  <2>2. z \in 0 .. b - a /\ l \in z .. b - a
    BY <1>4, <1>5, <2>1
  <2>3. Slice(Slice(t, a, b), z, l) = Slice(t, a + z, a + l)
    BY <1>3, <2>2, SliceOfSlice
  <2>4. a + z = a
    BY <1>3, <2>1
  <2> DEFINE r == o \o q
  <2>5. r \in Str(C) /\ h.old = p \o r
    <3>1. (p \o o) \o q = p \o (o \o q)
      <4>1. \A u, v, w \in Str(C) : (u \o v) \o w = u \o (v \o w)
        BY StrConcat
      <4> QED
        BY ONLY <1>1, <1>2, <4>1
    <3> QED
      BY <1>1, <1>2, <3>1, StrConcat
  <2> HIDE DEF r
  <2>6. Slice(p \o r, z, l) = Slice(p, z, l)
    <3>1. z \in 0 .. Len(p) /\ l \in z .. Len(p)
      BY <1>4, <2>1 DEF l
    <3> QED
      BY <1>1, <2>5, <3>1, SliceOfFront
  <2>7. Slice(p, 0, Len(p)) = p
    BY <1>1, SliceWhole
  <2> QED
    BY <1>3, <1>6, <2>1, <2>3, <2>4, <2>5, <2>6, <2>7 DEF l
<1>9. Slice(t, x, y) = o
  <2>1. l \in 0 .. b - a /\ l + m \in l .. b - a
    BY <1>4, <1>5
  <2> DEFINE lm == l + m
  <2>2. Slice(Slice(t, a, b), l, lm) = Slice(t, a + l, a + lm)
    <3> HIDE DEF lm
    <3>1. l \in 0 .. b - a /\ lm \in l .. b - a
      BY <2>1 DEF lm
    <3> QED
      BY <1>3, <3>1, SliceOfSlice
  <2> DEFINE r == p \o o
  <2>3. r \in Str(C) /\ Len(r) = lm /\ h.old = r \o q
    BY <1>1, <1>2, StrConcat DEF l, m
  <2>4. l \in 0 .. Len(r) /\ lm \in l .. Len(r)
    BY <1>4, <2>3
  <2> HIDE DEF r, lm
  <2>5. Slice(r \o q, l, lm) = Slice(r, l, lm)
    BY <1>1, <2>3, <2>4, SliceOfFront
  <2>6. PICK z \in Nat : z = 0
    OBVIOUS
  <2>7. Slice(p \o o, Len(p) + z, Len(p) + m) = Slice(o, z, m)
    <3>1. z \in 0 .. Len(o) /\ m \in z .. Len(o)
      BY <1>4, <2>6 DEF m
    <3> QED
      BY <1>1, <1>2, <3>1, SliceOfBack
  <2>8. Len(p) + z = l /\ Len(p) + m = lm
    BY <1>4, <2>6 DEF l, lm
  <2>9. Slice(o, 0, Len(o)) = o
    BY <1>2, SliceWhole
  <2> QED
    BY <1>3, <1>6, <2>2, <2>3, <2>5, <2>6, <2>7, <2>8, <2>9 DEF r, m, lm
<1>10. Slice(t, y, b) = q
  <2> DEFINE lm == l + m
             lmn == l + m + n
  <2>1. lm \in 0 .. b - a /\ lmn \in lm .. b - a
    BY <1>4, <1>5
  <2>2. Slice(Slice(t, a, b), lm, lmn) = Slice(t, a + lm, a + lmn)
    <3> HIDE DEF lm, lmn
    <3> QED
      BY <1>3, <2>1, SliceOfSlice
  <2> DEFINE r == p \o o
  <2>3. r \in Str(C) /\ Len(r) = lm /\ h.old = r \o q
    BY <1>1, <1>2, StrConcat DEF l, m
  <2> HIDE DEF r
  <2>4. PICK z \in Nat : z = 0
    OBVIOUS
  <2>5. Slice(r \o q, Len(r) + z, Len(r) + n) = Slice(q, z, n)
    <3>1. z \in 0 .. Len(q) /\ n \in z .. Len(q)
      BY <1>4, <2>4 DEF n
    <3> QED
      BY <1>1, <2>3, <3>1, SliceOfBack
  <2>6. Len(r) + z = lm /\ Len(r) + n = lmn
    BY <1>4, <2>3, <2>4
  <2>7. Slice(q, 0, Len(q)) = q
    BY <1>1, SliceWhole
  <2> QED
    BY <1>3, <1>6, <2>2, <2>3, <2>4, <2>5, <2>6, <2>7 DEF n
<1>11. Fits(t, g)
  BY <1>7, <1>9 DEF Fits, InBounds, x, y, o
<1> QED
  BY <1>7, <1>8, <1>10, <1>11 DEF a, b, x, y

Kept(h) == LET g == TrimHunkWhitespace(h) IN IF g.old = <<>> /\ g.new = <<>> THEN <<>> ELSE <<g>>

\* A hunk that is trimmed, or dropped because nothing is left of it, writes what the whole
\* of it did.
LEMMA TrimAppend ==
    ASSUME NEW C, NEW t \in Str(C), NEW K \in Seq(Hunks(C)), NEW e \in Nat, NEW w,
           Makes(C, t, K, 0, e, w, 1), NEW h \in Hunks(C), Fits(t, h), e <= h.start,
           K = <<>> \/ e + 1 <= h.start
    PROVE  /\ K \o Kept(h) \in Seq(Hunks(C)) /\ Kept(h) \in Str(Hunks(C))
           /\ Makes(C, t, K \o Kept(h), 0, h.end, (w \o Slice(t, e, h.start)) \o h.new, 1)
<1> DEFINE a == h.start
           b == h.end
           W == w \o Slice(t, e, a)
<1>1. Len(t) \in Nat
  BY StrProperties
<1>2. PICK g, p, q : g = TrimHunkWhitespace(h) /\ Trimmed(C, h, g, p, q)
  BY TrimIs
<1>3. /\ p \in Str(C) /\ q \in Str(C) /\ g \in Hunks(C)
      /\ h.old = (p \o g.old) \o q /\ h.new = (p \o g.new) \o q
  BY <1>2 DEF Trimmed
<1>4. /\ Fits(t, g) /\ g.end \in 0 .. Len(t)
      /\ g.start \in a .. Len(t) /\ b \in g.end .. Len(t)
      /\ p = Slice(t, a, g.start) /\ q = Slice(t, g.end, b)
  BY <1>2, TrimFits
<1>5. /\ a \in 0 .. Len(t) /\ b \in a .. Len(t) /\ Slice(t, a, b) = h.old
      /\ h.new \in Str(C) /\ h.old \in Str(C)
  BY FitsIs
<1>6. w \in Str(C)
  BY MakesText
<1>7. /\ g.old \in Str(C) /\ g.new \in Str(C) /\ g.start \in Int /\ g.end \in Int
  BY <1>3 DEF Hunks
<1>8. PICK k \in Nat : k = 1
  OBVIOUS
<1>9. Makes(C, t, K, 0, e, w, k)
  BY <1>8
<1>10. \A x, y, z \in Str(C) : (x \o y) \o z = x \o (y \o z)
  BY StrConcat
<1>11. e \in 0 .. Len(t) /\ a \in e .. Len(t) /\ b \in e .. Len(t) /\ g.start \in e .. Len(t)
  <2> DEFINE x == g.start
  <2>1. x \in a .. Len(t) /\ x \in Int
    BY <1>4, <1>7
  <2> HIDE DEF x, a, b
  <2>2. e \in 0 .. Len(t) /\ a \in e .. Len(t) /\ b \in e .. Len(t) /\ x \in e .. Len(t)
    <3>1. e <= a
      BY DEF a
    <3> QED
      BY <1>1, <1>5, <2>1, <3>1
  <2> QED
    BY <2>2 DEF x
<1>12. Slice(t, e, a) \in Str(C) /\ W \in Str(C)
  <2>1. Slice(t, e, a) \in Str(C)
    BY <1>11, SliceProperties
  <2> QED
    BY <1>6, <2>1, StrConcat
<1>13. w \o Slice(t, e, g.start) = W \o p
  <2>1. (w \o Slice(t, e, a)) \o Slice(t, a, g.start) = w \o Slice(t, e, g.start)
    <3> DEFINE x == g.start
    <3>1. e \in 0 .. Len(t) /\ a \in e .. Len(t) /\ x \in a .. Len(t)
      BY <1>4, <1>11
    <3> HIDE DEF x, a
    <3>2. (w \o Slice(t, e, a)) \o Slice(t, a, x) = w \o Slice(t, e, x)
      <4>j. Goes(w, t, e, a, x)
        BY <1>6, <3>1, SliceMore
      <4> QED
        BY ONLY <4>j DEF Goes
    <3> QED
      BY <3>2 DEF x
  <2> QED
    BY <1>4, <2>1
<1>14. CASE g.old = <<>> /\ g.new = <<>>
  <2>1. Kept(h) = <<>>
    BY <1>2, <1>14 DEF Kept
  <2>2. K \o Kept(h) = K
    BY <2>1
  <2>3. Makes(C, t, K, 0, b, w \o Slice(t, e, b), k)
    <3> HIDE DEF a, b
    <3> QED
      BY <1>9, <1>11, MakesExtend
  <2>4. w \o Slice(t, e, b) = W \o h.old
    <3>1. (w \o Slice(t, e, a)) \o Slice(t, a, b) = w \o Slice(t, e, b)
      <4>1. e \in 0 .. Len(t) /\ a \in e .. Len(t) /\ b \in a .. Len(t)
        BY <1>5, <1>11
      <4> HIDE DEF a, b
      <4>j. Goes(w, t, e, a, b)
        BY ONLY t \in Str(C), <1>6, <4>1, SliceMore
      <4> QED
        BY ONLY <4>j DEF Goes
    <3> QED
      BY <1>5, <3>1
  <2>5. h.old = h.new
    BY <1>3, <1>14
  <2> HIDE DEF a, b
  <2>6. <<>> \in Str(Hunks(C))
    BY StrProperties
  <2> QED
    BY <1>8, <2>1, <2>2, <2>3, <2>4, <2>5, <2>6 DEF a, b
<1>15. CASE ~(g.old = <<>> /\ g.new = <<>>)
  <2>1. Kept(h) = <<g>>
    BY <1>2, <1>15 DEF Kept
  <2>2. K \o Kept(h) = Append(K, g) /\ Append(K, g) \in Seq(Hunks(C)) /\ Kept(h) \in Str(Hunks(C))
    BY <1>3, <2>1 DEF Str
  <2> DEFINE u == (w \o Slice(t, e, g.start)) \o g.new
  <2>3. Makes(C, t, Append(K, g), 0, g.end, u, k)
    <3>1. e <= g.start /\ (K = <<>> \/ e + k <= g.start)
      <4> DEFINE x == g.start
      <4>1. x \in a .. Len(t) /\ x \in Int
        BY <1>4, <1>7
      <4>2. K # <<>> => e + 1 <= a
        OBVIOUS
      <4>3. e <= a /\ a \in Int
        BY <1>5
      <4> HIDE DEF x, a
      <4> QED
        BY <1>8, <4>1, <4>2, <4>3 DEF x
    <3> QED
      BY <1>3, <1>4, <1>9, <3>1, MakesAppend
  <2>4. Makes(C, t, Append(K, g), 0, b, u \o Slice(t, g.end, b), k)
    <3> DEFINE y == g.end
    <3>1. b \in y .. Len(t) /\ Makes(C, t, Append(K, g), 0, y, u, k)
      BY <1>4, <2>3
    <3> HIDE DEF y, b, u
    <3>2. Makes(C, t, Append(K, g), 0, b, u \o Slice(t, y, b), k)
      BY <2>2, <3>1, MakesExtend
    <3> QED
      BY <3>2 DEF y
  <2>5. u \o Slice(t, g.end, b) = W \o h.new
    <3> DEFINE n == g.new
               pn == p \o n
    <3>1. n \in Str(C) /\ pn \in Str(C)
      BY <1>3, <1>7, StrConcat
    <3>2. u = (W \o p) \o n /\ h.new = pn \o q /\ Slice(t, g.end, b) = q
      BY <1>3, <1>4, <1>13
    <3> HIDE DEF W, n
    <3>3. (W \o p) \o n = W \o pn
      <4>1. W \in Str(C)
        BY <1>10, <1>12
      <4>2. p \in Str(C)
        BY <1>3
      <4>3. n \in Str(C)
        BY <3>1
      <4>4. (W \o p) \o n = W \o (p \o n)
        <5>j. Joins(W, p, n)
          BY ONLY <4>1, <4>2, <4>3, StrJoin
        <5> QED
          BY ONLY <5>j DEF Joins
      <4> QED
        BY <4>4
    <3> HIDE DEF pn
    <3>4. (W \o pn) \o q = W \o (pn \o q)
      <4>1. W \in Str(C)
        BY <1>10, <1>12
      <4>2. pn \in Str(C)
        BY <3>1
      <4>3. q \in Str(C)
        BY <1>3
      <4>4. Joins(W, pn, q)
        BY ONLY <4>1, <4>2, <4>3, StrJoin
      <4> QED
        BY ONLY <4>4 DEF Joins
    <3> HIDE DEF u
    <3> QED
      BY <3>2, <3>3, <3>4
  <2> HIDE DEF u
  <2> QED
    BY <1>8, <2>2, <2>4, <2>5 DEF b, W
<1> QED
  BY <1>14, <1>15

\* Hunks, each trimmed and dropped when nothing is left of it, make of a text what the
\* whole of them did.
LEMMA KeptMake ==
    ASSUME NEW C, NEW t \in Str(C), NEW raw \in Seq(Hunks(C)), NEW u,
           Makes(C, t, raw, 0, Len(t), u, 1),
           NEW ss, ss = [n \in DOMAIN raw |-> Kept(raw[n])]
    PROVE  /\ Q!FlattenSeq(ss) \in Seq(Hunks(C))
           /\ Makes(C, t, Q!FlattenSeq(ss), 0, Len(t), u, 1)
<1> DEFINE N == Len(raw)
<1>1. PICK E, P : /\ Within(C, t, raw, 0, 1, E, P)
                  /\ E[N] <= Len(t) /\ Len(t) \in 0 .. Len(t)
                  /\ u = P[N] \o Slice(t, E[N], Len(t))
  BY DEF Makes
<1>2. N \in Nat /\ Len(t) \in Nat /\ DOMAIN raw = 1 .. N /\ \A n \in 1 .. N : raw[n] \in Hunks(C)
  BY LenProperties, ElementOfSeq, StrProperties
<1>3. /\ E \in [0 .. N -> Nat] /\ P \in [0 .. N -> Str(C)]
      /\ E[0] = 0 /\ P[0] = <<>>
      /\ \A n \in 1 .. N :
          /\ E[n - 1] <= raw[n].start /\ (n > 1 => E[n - 1] + 1 <= raw[n].start)
          /\ Fits(t, raw[n]) /\ E[n] = raw[n].end
          /\ P[n] = (P[n - 1] \o Slice(t, E[n - 1], raw[n].start)) \o raw[n].new
  BY <1>1 DEF Within
<1>4. \A n \in 1 .. N : Kept(raw[n]) \in Str(Hunks(C))
  <2> TAKE n \in 1 .. N
  <2> DEFINE h == raw[n]
  <2>1. h \in Hunks(C)
    BY <1>2
  <2> HIDE DEF h
  <2>2. PICK p, q : Trimmed(C, h, TrimHunkWhitespace(h), p, q)
    BY <2>1, TrimIs
  <2>3. TrimHunkWhitespace(h) \in Hunks(C)
    BY <2>2 DEF Trimmed
  <2>4. <<>> \in Str(Hunks(C)) /\ <<TrimHunkWhitespace(h)>> \in Str(Hunks(C))
    BY <2>3 DEF Str
  <2>5. Kept(h) \in Str(Hunks(C))
    BY <2>4 DEF Kept
  <2> QED
    BY <2>5 DEF h
<1>5. ss \in Seq(Str(Hunks(C))) /\ Len(ss) = N /\ \A n \in 1 .. N : ss[n] = Kept(raw[n])
  <2>1. ss \in [1 .. N -> Str(Hunks(C))]
    BY <1>2, <1>4
  <2> QED
    BY <1>2, <2>1
<1>6. PICK f \in [0 .. Len(ss) -> Str(Hunks(C))] :
        /\ f[0] = <<>>
        /\ \A n \in 1 .. Len(ss) : f[n] = f[n - 1] \o ss[n]
        /\ Q!FlattenSeq(ss) = f[Len(ss)]
  BY <1>5, FlattenPrefixes
<1>7. /\ f \in [0 .. N -> Str(Hunks(C))] /\ f[0] = <<>> /\ Q!FlattenSeq(ss) = f[N]
      /\ \A n \in 1 .. N : f[n] = f[n - 1] \o Kept(raw[n])
  BY <1>5, <1>6
<1> DEFINE T == {n \in 0 .. N : Makes(C, t, f[n], 0, E[n], P[n], 1)}
<1>8. \A n \in 0 .. N : n \in T
  <2>1. 0 \in T
    <3>1. PICK a \in 0 .. Len(t) : a = 0
      BY <1>2
    <3>2. a \in a .. Len(t)
      BY <1>2, <3>1
    <3>3. Makes(C, t, <<>>, a, a, Slice(t, a, a), 1)
      BY <3>2, MakesNothing
    <3>4. Slice(t, a, a) = <<>>
      BY SliceEmpty
    <3>5. Makes(C, t, f[0], 0, E[0], P[0], 1)
      BY <1>3, <1>7, <3>1, <3>3, <3>4
    <3> HIDE DEF N
    <3> QED
      BY <1>2, <3>5
  <2>2. ASSUME NEW n \in 1 .. N, n - 1 \in T
        PROVE  n \in T
    <3> DEFINE e == E[n - 1]
               w == P[n - 1]
               K == f[n - 1]
               h == raw[n]
    <3>1. n \in 0 .. N /\ n - 1 \in 0 .. N /\ (n = 1 \/ n > 1)
      BY <1>2
    <3>2. /\ e \in Nat /\ K \in Seq(Hunks(C)) /\ Makes(C, t, K, 0, e, w, 1) /\ h \in Hunks(C)
          /\ Fits(t, h) /\ e <= h.start
      BY <1>2, <1>3, <1>7, <2>2, <3>1 DEF Str
    <3>3. K = <<>> \/ e + 1 <= h.start
      <4>1. n = 1 => n - 1 = 0
        OBVIOUS
      <4>2. n = 1 => K = <<>>
        BY <1>7, <4>1
      <4>3. n > 1 => e + 1 <= h.start
        BY <1>3
      <4> QED
        BY <3>1, <4>2, <4>3
    <3>4. /\ f[n] = K \o Kept(h) /\ E[n] = h.end /\ P[n] = (w \o Slice(t, e, h.start)) \o h.new
      BY <1>3, <1>7
    <3> HIDE DEF e, w, K, h
    <3>5. Makes(C, t, K \o Kept(h), 0, h.end, (w \o Slice(t, e, h.start)) \o h.new, 1)
      BY <3>2, <3>3, TrimAppend
    <3> HIDE DEF N
    <3> QED
      BY <3>1, <3>4, <3>5
  <2> HIDE DEF T
  <2> QED
    BY <1>2, <2>1, <2>2, UpTo
<1> DEFINE F == f[N]
           e == E[N]
           w == P[N]
<1>9. F \in Seq(Hunks(C)) /\ Makes(C, t, F, 0, e, w, 1) /\ e \in Nat /\ e <= Len(t) /\ u = w \o Slice(t, e, Len(t))
  <2>1. N \in 0 .. N
    BY <1>2
  <2> QED
    BY <1>1, <1>3, <1>7, <1>8, <2>1 DEF Str
<1> HIDE DEF F, e, w
<1>10. Len(t) \in e .. Len(t)
  BY <1>2, <1>9
<1>11. PICK k \in Nat : k = 1
  OBVIOUS
<1>12. Makes(C, t, F, 0, Len(t), w \o Slice(t, e, Len(t)), k)
  <2>1. Makes(C, t, F, 0, e, w, k)
    BY <1>9, <1>11
  <2> QED
    BY <1>9, <1>10, <2>1, MakesExtend
<1> QED
  BY <1>7, <1>9, <1>11, <1>12 DEF F

\* The diff of two texts makes the one of the other, and no two of its hunks touch.
LEMMA ExtractMakes ==
    ASSUME NEW C, NEW t \in Str(C), NEW s \in Str(C)
    PROVE  /\ ExtractDiffHunks(t, s) \in Seq(Hunks(C))
           /\ Makes(C, t, ExtractDiffHunks(t, s), 0, Len(t), s, 1)
<1> DEFINE H == ExtractDiffHunks(t, s)
<1>1. Len(t) \in Nat /\ Len(s) \in Nat /\ 0 \in 0 .. Len(t) /\ Len(t) \in 0 .. Len(t)
  BY StrProperties
<1>2. PICK k \in Nat : k = 1
  OBVIOUS
<1>3. PICK o \in 0 .. Len(t) : o = 0
  BY <1>1
<1>4. Makes(C, t, <<>>, o, Len(t), Slice(t, o, Len(t)), k) /\ Makes(C, t, <<>>, o, o, Slice(t, o, o), k)
  <2>1. Len(t) \in o .. Len(t) /\ o \in o .. Len(t)
    BY <1>1, <1>3
  <2> QED
    BY <2>1, MakesNothing
<1>5. Slice(t, 0, Len(t)) = t /\ Slice(t, o, o) = <<>>
  BY SliceWhole, SliceEmpty
<1>6. CASE t = s
  <2>1. H = <<>>
    BY <1>6 DEF ExtractDiffHunks
  <2>2. Makes(C, t, <<>>, 0, Len(t), s, 1)
    BY <1>2, <1>3, <1>4, <1>5, <1>6
  <2> QED
    BY <2>1, <2>2
<1>7. CASE t # s /\ (t = <<>> \/ s = <<>>)
  <2> DEFINE g == [start |-> 0, end |-> Len(t), old |-> t, new |-> s]
  <2>1. H = <<g>>
    BY <1>7 DEF ExtractDiffHunks, Hunk
  <2>2. g \in Hunks(C) /\ g.start = 0 /\ g.end = Len(t) /\ g.old = t /\ g.new = s
    BY <1>1 DEF Hunks
  <2> HIDE DEF g
  <2>3. Fits(t, g)
    BY <1>1, <1>5, <2>2 DEF Fits, InBounds
  <2>4. PICK K \in Seq(Hunks(C)) : K = <<>>
    <3>1. <<>> \in Seq(Hunks(C))
      OBVIOUS
    <3> HIDE DEF g
    <3> QED
      BY <3>1
  <2>5. PICK w \in Str(C) : w = <<>>
    BY StrProperties
  <2>6. PICK e \in Nat : e = 0
    OBVIOUS
  <2>7. Makes(C, t, K, 0, e, w, k) /\ e <= g.start /\ (K = <<>> \/ e + k <= g.start)
    BY <1>3, <1>4, <1>5, <2>2, <2>4, <2>5, <2>6
  <2> DEFINE v == (w \o Slice(t, e, g.start)) \o g.new
             G == Append(K, g)
  <2>8. Makes(C, t, G, 0, g.end, v, k)
    BY <2>2, <2>3, <2>7, MakesAppend
  <2>9. v = s
    <3>1. Slice(t, e, g.start) = w
      BY <1>3, <1>5, <2>2, <2>5, <2>6
    <3>2. w \o w = w
      BY <2>5, StrConcat
    <3>3. w \o s = s
      BY <2>5, StrConcat
    <3> QED
      BY <2>2, <3>1, <3>2, <3>3
  <2>10. G = <<g>> /\ G \in Seq(Hunks(C))
    BY <2>2, <2>4
  <2> HIDE DEF v, G, H
  <2>11. H = G
    BY <2>1, <2>10
  <2> QED
    BY <1>2, <2>2, <2>8, <2>9, <2>10, <2>11 DEF H
<1>8. CASE t # s /\ ~(t = <<>> \/ s = <<>>)
  <2> DEFINE A == Tokenize(t)
             B == Tokenize(s)
             ops == DiffTokenSequences(A, B)
             raw == BuildHunks(ops, A, B, Len(t))
             ss == [n \in DOMAIN raw |-> Kept(raw[n])]
  <2>1. /\ A \in Seq(Tokens(C)) /\ Len(A) \in Nat /\ B \in Seq(Tokens(C)) /\ Len(B) \in Nat
        /\ (\E bd : Cuts(t, A, bd)) /\ (\E bu : Cuts(s, B, bu))
    BY TokenizeCuts
  <2>2. H = Q!FlattenSeq(ss)
    BY <1>8, SMTT(60) DEF ExtractDiffHunks, With, Kept
  <2> HIDE DEF A, B
  <2>3. ops \in Seq(Op) /\ Leads(A, B, ops, 0, 0, Len(A), Len(B), Len(Rounds(A, B)) - 2)
    BY <2>1, ScriptLeads
  <2> HIDE DEF ops
  <2>4. PICK bd, bu : Cuts(t, A, bd) /\ Cuts(s, B, bu)
    BY <2>1
  <2>5. raw \in Seq(Hunks(C)) /\ Makes(C, t, raw, 0, Len(t), s, 1)
    BY <2>1, <2>3, <2>4, BuildHunksMake
  <2> HIDE DEF raw
  <2>6. ss = [n \in DOMAIN raw |-> Kept(raw[n])]
    OBVIOUS
  <2> HIDE DEF ss
  <2>7. /\ Q!FlattenSeq(ss) \in Seq(Hunks(C))
        /\ Makes(C, t, Q!FlattenSeq(ss), 0, Len(t), s, 1)
    BY <2>5, <2>6, KeptMake
  <2> HIDE DEF H
  <2> QED
    BY <2>2, <2>7 DEF H
<1> HIDE DEF H
<1> QED
  BY <1>6, <1>7, <1>8 DEF H

----------------
\* What a stable sort needs of its comparison: no cycles, and those that are neither
\* before nor behind one another stand together.
WeakOrder(N, before) ==
    /\ before \in [1 .. N -> SUBSET (1 .. N)]
    /\ \A i \in 1 .. N : i \notin before[i]
    /\ \A i, j, k \in 1 .. N : i \in before[j] /\ j \in before[k] => i \in before[k]
    /\ \A i, j, k \in 1 .. N : i \in before[k] => i \in before[j] \/ j \in before[k]
\* The places p gives are those of a sort of the numbers up to N.
SortsBy(N, before, p) ==
    /\ p \in [1 .. N -> 1 .. N]
    /\ \A j \in 1 .. N : \E n \in 1 .. N : p[n] = j
    /\ \A m, n \in 1 .. N : m < n => p[m] # p[n] /\ p[n] \notin before[p[m]]

\* Sorting by such an order arranges a sequence so that nothing stands behind what it is
\* before.
LEMMA SortedIs ==
    ASSUME NEW S, NEW H \in Seq(S), NEW before, WeakOrder(Len(H), before)
    PROVE  \E p : /\ SortsBy(Len(H), before, p)
                  /\ Sorted(H, before) = [n \in 1 .. Len(H) |-> H[p[n]]]
<1> DEFINE N == Len(H)
           D == 1 .. N
           above == [j \in D |-> {i \in D : i \in before[j] \/ (j \notin before[i] /\ i < j)}]
           rank(j) == Cardinality(above[j])
           p == [n \in D |-> CHOOSE j \in D : rank(j) + 1 = n]
<1>1. N \in Nat /\ DOMAIN H = D
  BY LenProperties
<1>2. IsFiniteSet(D) /\ Cardinality(D) = N
  <2>1. 1 \in Int /\ N \in Int
    BY <1>1
  <2>2. /\ IsFiniteSet(1 .. N)
        /\ Cardinality(1 .. N) = IF 1 > N THEN 0 ELSE N - 1 + 1
    BY <2>1, FS_Interval
  <2> HIDE DEF N
  <2> QED
    BY <1>1, <2>2
<1>3. /\ \A i \in D : i \notin before[i]
      /\ \A i, j, k \in D : i \in before[j] /\ j \in before[k] => i \in before[k]
      /\ \A i, j, k \in D : i \in before[k] => i \in before[j] \/ j \in before[k]
  BY DEF WeakOrder
<1>4. D \subseteq Int
  OBVIOUS
<1> DEFINE place == [j \in DOMAIN H |->
                Cardinality({i \in DOMAIN H : i \in before[j] \/ (j \notin before[i] /\ i < j)}) + 1]
<1>5. Sorted(H, before) = [n \in DOMAIN H |-> H[CHOOSE j \in DOMAIN H : place[j] = n]]
  BY DEF Sorted
<1>6. \A j \in D : place[j] = rank(j) + 1
  BY <1>1
<1>7. Sorted(H, before) = [n \in D |-> H[p[n]]]
  <2> HIDE DEF place, above
  <2>1. \A n \in D : (CHOOSE j \in D : place[j] = n) = CHOOSE j \in D : rank(j) + 1 = n
    BY <1>6
  <2>2. \A n \in D : p[n] = CHOOSE j \in D : rank(j) + 1 = n
    OBVIOUS
  <2> HIDE DEF p, D
  <2>3. \A n \in D : H[CHOOSE j \in D : place[j] = n] = H[p[n]]
    BY <2>1, <2>2
  <2>4. Sorted(H, before) = [n \in D |-> H[CHOOSE j \in D : place[j] = n]]
    BY <1>1, <1>5
  <2> QED
    BY <2>3, <2>4
<1> HIDE DEF place
<1> HIDE DEF D
<1>8. \A x \in D : above[x] = {i \in D : i \in before[x] \/ (x \notin before[i] /\ i < x)}
  OBVIOUS
<1>9. above \in [D -> SUBSET D]
  OBVIOUS
<1> HIDE DEF above
<1>10. \A x, y \in D : x = y \/ x \in above[y] \/ y \in above[x]
  BY <1>4, <1>8
<1>11. \A x \in D : x \notin above[x]
  BY <1>3, <1>4, <1>8
<1>12. \A x, y \in D : y \in above[x] => above[y] \subseteq above[x]
  <2> SUFFICES ASSUME NEW x \in D, NEW y \in D, y \in above[x], NEW z \in above[y]
               PROVE  z \in above[x]
    OBVIOUS
  <2>1. z \in D /\ (z \in before[y] \/ (y \notin before[z] /\ z < y))
    BY <1>8
  <2>2. y \in before[x] \/ (x \notin before[y] /\ y < x)
    BY <1>8
  <2>3. z \in before[x] \/ (x \notin before[z] /\ z < x)
    <3>1. CASE z \in before[y]
      BY <1>3, <2>1, <2>2, <3>1
    <3>2. CASE y \notin before[z] /\ z < y /\ y \in before[x]
      BY <1>3, <2>1, <3>2
    <3>3. CASE y \notin before[z] /\ z < y /\ x \notin before[y] /\ y < x
      <4>1. z < x
        BY <1>4, <2>1, <3>3
      <4>2. x \notin before[z]
        BY <1>3, <2>1, <3>3
      <4> QED
        BY <4>1, <4>2
    <3> QED
      BY <2>1, <2>2, <3>1, <3>2, <3>3
  <2> QED
    BY <1>8, <2>1, <2>3
<1>13. \A n \in D : \E x \in D : rank(x) = n - 1
  <2> TAKE n \in D
  <2>1. n \in 1 .. Cardinality(D)
    BY <1>2 DEF D
  <2>2. IsFiniteSet(D)
    BY <1>2
  <2>3. \E x \in D : Cardinality(above[x]) = n - 1
    BY ONLY <1>9, <1>10, <1>11, <1>12, <2>1, <2>2, RanksAreHit, ZenonT(60)
  <2> QED
    BY <2>3
<1>14. \A x \in D : IsFiniteSet(above[x]) /\ rank(x) \in 0 .. N - 1
  <2> TAKE x \in D
  <2>1. above[x] \subseteq D /\ above[x] # D
    BY <1>9, <1>11
  <2>2. /\ IsFiniteSet(above[x]) /\ Cardinality(above[x]) <= N /\ Cardinality(above[x]) # N
    BY <1>2, <2>1, FS_Subset
  <2>3. Cardinality(above[x]) \in Nat
    BY <2>2, FS_CardinalityType
  <2> QED
    BY <1>1, <2>2, <2>3
<1>15. \A x, y \in D : y \in above[x] => rank(y) < rank(x)
  <2> SUFFICES ASSUME NEW x \in D, NEW y \in D, y \in above[x]
               PROVE  rank(y) < rank(x)
    OBVIOUS
  <2>1. above[y] \subseteq above[x] /\ above[y] # above[x]
    BY <1>11, <1>12
  <2>2. Cardinality(above[y]) <= Cardinality(above[x]) /\ Cardinality(above[y]) # Cardinality(above[x])
    BY <1>14, <2>1, FS_Subset
  <2> QED
    BY <1>14, <2>2
<1>16. \A n \in D : p[n] \in D /\ rank(p[n]) + 1 = n
  <2> TAKE n \in D
  <2>1. \E j \in D : rank(j) + 1 = n
    <3>1. PICK j \in D : rank(j) = n - 1
      BY <1>13
    <3>2. rank(j) + 1 = n
      BY <1>4, <3>1
    <3> QED
      BY <3>2
  <2>2. p[n] = CHOOSE j \in D : rank(j) + 1 = n
    OBVIOUS
  <2> QED
    BY <2>1, <2>2
<1>17. p \in [D -> D]
  <2>1. p = [n \in D |-> p[n]]
    OBVIOUS
  <2> HIDE DEF p
  <2> QED
    BY <1>16, <2>1
<1> HIDE DEF p
<1>18. \A j \in D : \E n \in D : p[n] = j
  <2> TAKE j \in D
  <2> DEFINE n == rank(j) + 1
  <2>1. n \in D
    BY <1>1, <1>14 DEF D
  <2>2. rank(p[n]) = rank(j) /\ p[n] \in D
    <3>1. rank(p[n]) + 1 = rank(j) + 1 /\ p[n] \in D
      BY <1>16, <2>1
    <3>2. rank(p[n]) \in Int /\ rank(j) \in Int
      BY <1>14, <3>1
    <3> QED
      BY <3>1, <3>2
  <2>3. p[n] = j
    <3>1. rank(j) \in Int
      BY <1>14
    <3> HIDE DEF n
    <3> QED
      BY <1>10, <1>15, <2>2, <3>1
  <2> QED
    BY <2>1, <2>3
<1>19. \A m, n \in D : m < n => p[m] # p[n] /\ p[n] \notin before[p[m]]
  <2> SUFFICES ASSUME NEW m \in D, NEW n \in D, m < n
               PROVE  p[m] # p[n] /\ p[n] \notin before[p[m]]
    OBVIOUS
  <2> DEFINE x == p[m]
             y == p[n]
  <2>1. x \in D /\ y \in D /\ rank(x) + 1 = m /\ rank(y) + 1 = n
    BY <1>16
  <2> HIDE DEF x, y
  <2>2. rank(x) \in Int /\ rank(y) \in Int
    BY <1>14, <2>1
  <2>3. rank(x) < rank(y)
    BY <1>4, <2>1, <2>2
  <2>4. x # y /\ y \notin above[x]
    BY <1>15, <2>1, <2>2, <2>3
  <2>5. x \in above[y]
    BY <1>10, <2>1, <2>4
  <2>6. x \in before[y] \/ y \notin before[x]
    BY <1>8, <2>1, <2>5
  <2>7. y \notin before[x]
    BY <1>3, <2>1, <2>6
  <2> QED
    BY <2>4, <2>7 DEF x, y
<1>20. SortsBy(N, before, p)
  BY <1>17, <1>18, <1>19 DEF SortsBy, D
<1> QED
  BY <1>7, <1>20 DEF D

\* Hunks that stand in order are left as they are.
LEMMA SortedAlready ==
    ASSUME NEW S, NEW H \in Seq(S), NEW before, WeakOrder(Len(H), before),
           \A i, j \in 1 .. Len(H) : i < j => j \notin before[i]
    PROVE  Sorted(H, before) = H
<1> DEFINE N == Len(H)
           above(j) == {i \in DOMAIN H : i \in before[j] \/ (j \notin before[i] /\ i < j)}
           place == [j \in DOMAIN H |-> Cardinality(above(j)) + 1]
<1>1. N \in Nat /\ DOMAIN H = 1 .. N
  BY LenProperties
<1>2. \A j \in 1 .. N : Cardinality(above(j)) + 1 = j
  <2> TAKE j \in 1 .. N
  <2>1. above(j) = 1 .. j - 1
    <3>1. \A i \in 1 .. N : i \in before[j] => i # j /\ ~(j < i)
      BY DEF WeakOrder
    <3>2. \A i \in 1 .. N : i \in above(j) <=> i < j
      BY <1>1, <3>1
    <3> QED
      BY <1>1, <3>2
  <2> HIDE DEF above
  <2>2. 1 \in Int /\ j - 1 \in Int
    OBVIOUS
  <2>3. Cardinality(1 .. j - 1) = IF 1 > j - 1 THEN 0 ELSE (j - 1) - 1 + 1
    BY <2>2, FS_Interval
  <2>4. Cardinality(1 .. j - 1) = j - 1
    BY <2>3
  <2> QED
    BY <2>1, <2>4
<1>3. \A j \in 1 .. N : place[j] = j
  BY <1>1, <1>2
<1>4. Sorted(H, before) = [n \in DOMAIN H |-> H[CHOOSE j \in DOMAIN H : place[j] = n]]
  BY DEF Sorted
<1> HIDE DEF place
<1>5. \A n \in 1 .. N : (CHOOSE j \in 1 .. N : place[j] = n) = n
  BY <1>3
<1>6. Sorted(H, before) = [n \in 1 .. N |-> H[n]]
  BY <1>1, <1>4, <1>5
<1>7. H = [n \in 1 .. N |-> H[n]]
  BY <1>1
<1> QED
  BY <1>6, <1>7

\* Hunks that stand in the opposite order are turned around.
LEMMA SortedBackwards ==
    ASSUME NEW S, NEW H \in Seq(S), NEW before, WeakOrder(Len(H), before),
           \A i, j \in 1 .. Len(H) : i < j => j \in before[i]
    PROVE  Sorted(H, before) = Q!Reverse(H)
<1> DEFINE N == Len(H)
           above(j) == {i \in DOMAIN H : i \in before[j] \/ (j \notin before[i] /\ i < j)}
           place == [j \in DOMAIN H |-> Cardinality(above(j)) + 1]
<1>1. N \in Nat /\ DOMAIN H = 1 .. N
  BY LenProperties
<1>2. \A j \in 1 .. N : Cardinality(above(j)) + 1 = (N - j) + 1
  <2> TAKE j \in 1 .. N
  <2>1. above(j) = j + 1 .. N
    <3>1. \A i \in 1 .. N : i \in before[j] => i # j /\ j \notin before[i]
      BY DEF WeakOrder
    <3>2. \A i \in 1 .. N : i \in above(j) <=> j < i
      BY <1>1, <3>1
    <3> QED
      BY <1>1, <3>2
  <2> HIDE DEF above
  <2>2. j + 1 \in Int /\ N \in Int
    BY <1>1
  <2>3. Cardinality(j + 1 .. N) = IF j + 1 > N THEN 0 ELSE N - (j + 1) + 1
    BY <2>2, FS_Interval
  <2>4. Cardinality(j + 1 .. N) = N - j
    <3> HIDE DEF N
    <3> QED
      BY <1>1, <2>3
  <2> QED
    BY <2>1, <2>4
<1>3. \A j \in 1 .. N : place[j] = (N - j) + 1
  BY <1>1, <1>2
<1>4. Sorted(H, before) = [n \in DOMAIN H |-> H[CHOOSE j \in DOMAIN H : place[j] = n]]
  BY DEF Sorted
<1> HIDE DEF place
<1>5. \A n \in 1 .. N : (CHOOSE j \in 1 .. N : place[j] = n) = (N - n) + 1
  <2> TAKE n \in 1 .. N
  <2> HIDE DEF N
  <2>1. (N - n) + 1 \in 1 .. N /\ \A j \in 1 .. N : place[j] = n <=> j = (N - n) + 1
    BY <1>1, <1>3
  <2> QED
    BY <2>1
<1>6. Sorted(H, before) = [n \in 1 .. N |-> H[(N - n) + 1]]
  BY <1>1, <1>4, <1>5
<1> DEFINE R == Q!Reverse(H)
<1>7. /\ R \in Seq(S) /\ Len(R) = N /\ \A i \in 1 .. N : R[i] = H[(N - i) + 1]
  BY ReverseIs
<1>8. R = [n \in 1 .. N |-> R[n]]
  <2> HIDE DEF R
  <2> QED
    BY <1>7
<1> HIDE DEF R
<1> QED
  BY <1>6, <1>7, <1>8 DEF R

ForwardOrder(H) == [j \in DOMAIN H |-> {i \in DOMAIN H : Ahead(H[i], H[j])}]
ReverseOrder(H) == [j \in DOMAIN H |-> {i \in DOMAIN H : Ahead(H[j], H[i])}]
Permutes(N, p) ==
    /\ p \in [1 .. N -> 1 .. N]
    /\ \A j \in 1 .. N : \E n \in 1 .. N : p[n] = j
    /\ \A m, n \in 1 .. N : m < n => p[m] # p[n]

\* Ahead is such an order on any three hunks.
LEMMA AheadOrder ==
    ASSUME NEW C, NEW g \in Hunks(C), NEW h \in Hunks(C), NEW k \in Hunks(C)
    PROVE  /\ ~Ahead(g, g)
           /\ Ahead(g, h) /\ Ahead(h, k) => Ahead(g, k)
           /\ Ahead(g, k) => Ahead(g, h) \/ Ahead(h, k)
<1> DEFINE a == g.start
           b == g.end
           c == h.start
           d == h.end
           e == k.start
           f == k.end
<1>1. a \in Int /\ b \in Int /\ c \in Int /\ d \in Int /\ e \in Int /\ f \in Int
  BY DEF Hunks
<1>2. /\ Ahead(g, h) <=> a < c \/ (a = c /\ b < d)
      /\ Ahead(h, k) <=> c < e \/ (c = e /\ d < f)
      /\ Ahead(g, k) <=> a < e \/ (a = e /\ b < f)
      /\ Ahead(g, g) <=> a < a \/ (a = a /\ b < b)
  BY DEF Ahead
<1> HIDE DEF a, b, c, d, e, f
<1> QED
  BY <1>1, <1>2

\* Both orders hunks are sorted by are such.
LEMMA HunksOrdered ==
    ASSUME NEW C, NEW H \in Seq(Hunks(C))
    PROVE  WeakOrder(Len(H), ForwardOrder(H)) /\ WeakOrder(Len(H), ReverseOrder(H))
<1> DEFINE N == Len(H)
           f == ForwardOrder(H)
           r == ReverseOrder(H)
<1>1. DOMAIN H = 1 .. N /\ \A i \in 1 .. N : H[i] \in Hunks(C)
  BY LenProperties, ElementOfSeq
<1>2. \A i, j, k \in 1 .. N :
        /\ ~Ahead(H[i], H[i])
        /\ Ahead(H[i], H[j]) /\ Ahead(H[j], H[k]) => Ahead(H[i], H[k])
        /\ Ahead(H[i], H[k]) => Ahead(H[i], H[j]) \/ Ahead(H[j], H[k])
  <2> TAKE i \in 1 .. N
  <2> TAKE j \in 1 .. N
  <2> TAKE k \in 1 .. N
  <2>1. H[i] \in Hunks(C) /\ H[j] \in Hunks(C) /\ H[k] \in Hunks(C)
    BY <1>1
  <2> QED
    BY <2>1, AheadOrder
<1>3. /\ f \in [1 .. N -> SUBSET (1 .. N)] /\ r \in [1 .. N -> SUBSET (1 .. N)]
      /\ \A i, j \in 1 .. N : (i \in f[j] <=> Ahead(H[i], H[j])) /\ (i \in r[j] <=> Ahead(H[j], H[i]))
  BY <1>1 DEF ForwardOrder, ReverseOrder
<1> HIDE DEF f, r, N
<1>4. WeakOrder(N, f)
  BY <1>2, <1>3 DEF WeakOrder
<1>5. WeakOrder(N, r)
  BY <1>2, <1>3 DEF WeakOrder
<1> QED
  BY <1>4, <1>5 DEF f, r, N

Rearranged(C, H, F, p) ==
    /\ Permutes(Len(H), p) /\ F \in Seq(Hunks(C)) /\ Len(F) = Len(H)
    /\ \A n \in 1 .. Len(H) : F[n] = H[p[n]]

\* Sorting hunks by such an order moves them and no more.
LEMMA SortRearranges ==
    ASSUME NEW C, NEW H \in Seq(Hunks(C)), NEW before, WeakOrder(Len(H), before)
    PROVE  \E p : /\ Rearranged(C, H, Sorted(H, before), p)
                  /\ \A m, n \in 1 .. Len(H) : m < n => p[n] \notin before[p[m]]
<1> DEFINE N == Len(H)
           F == Sorted(H, before)
<1>1. PICK p : SortsBy(N, before, p) /\ F = [n \in 1 .. N |-> H[p[n]]]
  BY SortedIs
<1>2. N \in Nat /\ \A n \in 1 .. N : H[n] \in Hunks(C)
  BY LenProperties, ElementOfSeq
<1> HIDE DEF F
<1>3. /\ Permutes(N, p) /\ p \in [1 .. N -> 1 .. N]
      /\ \A m, n \in 1 .. N : m < n => p[n] \notin before[p[m]]
  BY <1>1 DEF SortsBy, Permutes
<1>4. F \in [1 .. N -> Hunks(C)]
  BY <1>1, <1>2, <1>3
<1>5. F \in Seq(Hunks(C)) /\ Len(F) = N
  BY <1>2, <1>4
<1>6. Rearranged(C, H, F, p)
  BY <1>1, <1>3, <1>5 DEF Rearranged
<1> QED
  BY <1>3, <1>6 DEF F

\* Sorted forward, no hunk is ahead of one before it.
LEMMA ForwardSorts ==
    ASSUME NEW C, NEW H \in Seq(Hunks(C)), NEW F, F = SortHunksForward(H)
    PROVE  /\ \E p : Rearranged(C, H, F, p)
           /\ F \in Seq(Hunks(C)) /\ Len(F) = Len(H)
           /\ \A m, n \in 1 .. Len(H) : m < n => ~Ahead(F[n], F[m])
<1> DEFINE N == Len(H)
           f == ForwardOrder(H)
<1>1. F = Sorted(H, f)
  BY DEF SortHunksForward, ForwardOrder
<1>2. WeakOrder(Len(H), f)
  BY HunksOrdered
<1>3. DOMAIN H = 1 .. N
  BY LenProperties
<1>4. \A i, j \in 1 .. N : i \in f[j] <=> Ahead(H[i], H[j])
  BY <1>3 DEF ForwardOrder
<1> HIDE DEF f
<1>5. PICK p : /\ Rearranged(C, H, F, p)
               /\ \A m, n \in 1 .. N : m < n => p[n] \notin f[p[m]]
  BY <1>1, <1>2, SortRearranges
<1>6. p \in [1 .. N -> 1 .. N] /\ \A n \in 1 .. N : F[n] = H[p[n]]
  BY <1>5 DEF Rearranged, Permutes
<1>7. \A m, n \in 1 .. N : m < n => ~Ahead(F[n], F[m])
  BY <1>4, <1>5, <1>6
<1> QED
  BY <1>5, <1>7 DEF Rearranged

\* Sorted in reverse, none is ahead of one behind it.
LEMMA ReverseSorts ==
    ASSUME NEW C, NEW H \in Seq(Hunks(C)), NEW F, F = SortHunksReverse(H)
    PROVE  /\ \E p : Rearranged(C, H, F, p)
           /\ F \in Seq(Hunks(C)) /\ Len(F) = Len(H)
           /\ \A m, n \in 1 .. Len(H) : m < n => ~Ahead(F[m], F[n])
<1> DEFINE N == Len(H)
           f == ReverseOrder(H)
<1>1. F = Sorted(H, f)
  BY DEF SortHunksReverse, ReverseOrder
<1>2. WeakOrder(Len(H), f)
  BY HunksOrdered
<1>3. DOMAIN H = 1 .. N
  BY LenProperties
<1>4. \A i, j \in 1 .. N : i \in f[j] <=> Ahead(H[j], H[i])
  BY <1>3 DEF ReverseOrder
<1> HIDE DEF f
<1>5. PICK p : /\ Rearranged(C, H, F, p)
               /\ \A m, n \in 1 .. N : m < n => p[n] \notin f[p[m]]
  BY <1>1, <1>2, SortRearranges
<1>6. p \in [1 .. N -> 1 .. N] /\ \A n \in 1 .. N : F[n] = H[p[n]]
  BY <1>5 DEF Rearranged, Permutes
<1>7. \A m, n \in 1 .. N : m < n => ~Ahead(F[m], F[n])
  BY <1>4, <1>5, <1>6
<1> QED
  BY <1>5, <1>7 DEF Rearranged

\* Sorting what is sorted changes nothing.
LEMMA ReverseAgain ==
    ASSUME NEW C, NEW R \in Seq(Hunks(C)), \A m, n \in 1 .. Len(R) : m < n => ~Ahead(R[m], R[n])
    PROVE  SortHunksReverse(R) = R
<1> DEFINE f == ReverseOrder(R)
<1>1. SortHunksReverse(R) = Sorted(R, f)
  BY DEF SortHunksReverse, ReverseOrder
<1>2. WeakOrder(Len(R), f)
  BY HunksOrdered
<1>3. DOMAIN R = 1 .. Len(R)
  BY LenProperties
<1>4. \A i, j \in 1 .. Len(R) : i < j => j \notin f[i]
  BY <1>3 DEF ReverseOrder
<1> HIDE DEF f
<1> QED
  BY <1>1, <1>2, <1>4, SortedAlready

\* Hunks of which each starts behind the one before.
LEMMA SortsOfAscending ==
    ASSUME NEW C, NEW H \in Seq(Hunks(C)),
           \A m, n \in 1 .. Len(H) : m < n => H[m].start < H[n].start
    PROVE  /\ SortHunksForward(H) = H /\ SortHunksReverse(H) = Q!Reverse(H)
           /\ SortHunksForward(Q!Reverse(H)) = H /\ SortHunksReverse(Q!Reverse(H)) = Q!Reverse(H)
<1> DEFINE N == Len(H)
           R == Q!Reverse(H)
<1>1. N \in Nat /\ DOMAIN H = 1 .. N /\ \A i \in 1 .. N : H[i] \in Hunks(C)
  BY LenProperties, ElementOfSeq
<1>2. \A m, n \in 1 .. N : m < n => Ahead(H[m], H[n]) /\ ~Ahead(H[n], H[m])
  <2> SUFFICES ASSUME NEW m \in 1 .. N, NEW n \in 1 .. N, m < n
               PROVE  Ahead(H[m], H[n]) /\ ~Ahead(H[n], H[m])
    OBVIOUS
  <2> DEFINE g == H[m]
             h == H[n]
  <2>1. g \in Hunks(C) /\ h \in Hunks(C) /\ g.start < h.start
    BY <1>1
  <2> HIDE DEF g, h
  <2>2. Ahead(g, h)
    BY <2>1 DEF Ahead
  <2>3. ~Ahead(h, g)
    BY <2>1, <2>2, AheadOrder
  <2> QED
    BY <2>2, <2>3 DEF g, h
<1>3. /\ R \in Seq(Hunks(C)) /\ Len(R) = N /\ \A i \in 1 .. N : R[i] = H[(N - i) + 1]
  BY ReverseIs
<1>4. \A m, n \in 1 .. N : m < n => Ahead(R[n], R[m]) /\ ~Ahead(R[m], R[n])
  <2> SUFFICES ASSUME NEW m \in 1 .. N, NEW n \in 1 .. N, m < n
               PROVE  Ahead(R[n], R[m]) /\ ~Ahead(R[m], R[n])
    OBVIOUS
  <2> DEFINE i == (N - m) + 1
             j == (N - n) + 1
  <2>1. i \in 1 .. N /\ j \in 1 .. N /\ j < i
    <3> HIDE DEF N
    <3> QED
      BY <1>1
  <2>2. R[m] = H[i] /\ R[n] = H[j]
    BY <1>3
  <2> HIDE DEF i, j, R, N
  <2> QED
    BY <1>2, <2>1, <2>2
<1> HIDE DEF R
<1>5. WeakOrder(Len(H), ForwardOrder(H)) /\ WeakOrder(Len(H), ReverseOrder(H))
  BY HunksOrdered
<1>6. WeakOrder(Len(R), ForwardOrder(R))
  BY <1>3, HunksOrdered
<1>7. DOMAIN R = 1 .. N
  BY <1>3, LenProperties
<1>8. SortHunksForward(H) = H
  <2>1. SortHunksForward(H) = Sorted(H, ForwardOrder(H))
    BY DEF SortHunksForward, ForwardOrder
  <2>2. \A i, j \in 1 .. N : i < j => j \notin ForwardOrder(H)[i]
    BY <1>1, <1>2 DEF ForwardOrder
  <2> QED
    BY <1>5, <2>1, <2>2, SortedAlready
<1>9. SortHunksReverse(H) = Q!Reverse(H)
  <2>1. SortHunksReverse(H) = Sorted(H, ReverseOrder(H))
    BY DEF SortHunksReverse, ReverseOrder
  <2>2. \A i, j \in 1 .. N : i < j => j \in ReverseOrder(H)[i]
    BY <1>1, <1>2 DEF ReverseOrder
  <2> QED
    BY <1>5, <2>1, <2>2, SortedBackwards
<1>10. SortHunksForward(R) = H
  <2>1. SortHunksForward(R) = Sorted(R, ForwardOrder(R))
    BY DEF SortHunksForward, ForwardOrder
  <2>2. \A i, j \in 1 .. N : i < j => j \in ForwardOrder(R)[i]
    BY <1>4, <1>7 DEF ForwardOrder
  <2>3. Sorted(R, ForwardOrder(R)) = Q!Reverse(R)
    BY <1>3, <1>6, <2>2, SortedBackwards
  <2>4. Q!Reverse(R) = H
    BY ReverseTwice DEF R
  <2> QED
    BY <2>1, <2>3, <2>4
<1>11. SortHunksReverse(R) = R
  BY <1>3, <1>4, ReverseAgain
<1> QED
  BY <1>8, <1>9, <1>10, <1>11 DEF R

\* Hunks that fit, each behind the one before it, all the way.
LEMMA Chain ==
    ASSUME NEW C, NEW t \in Str(C), NEW F \in Seq(Hunks(C)),
           \A n \in 1 .. Len(F) : Fits(t, F[n]),
           \A n \in 1 .. Len(F) - 1 : F[n].end <= F[n + 1].start
    PROVE  /\ \A m, n \in 1 .. Len(F) : m < n => F[m].end <= F[n].start
           /\ \E u : Makes(C, t, F, 0, Len(t), u, 0)
<1> DEFINE N == Len(F)
<1>1. N \in Nat /\ \A n \in 1 .. N : F[n] \in Hunks(C)
  BY LenProperties, ElementOfSeq
<1>2. PICK o \in Nat : o = 0
  OBVIOUS
<1>3. \A n \in 1 .. N : F[n].end \in Int /\ F[n].end + o = F[n].end
  <2> TAKE n \in 1 .. N
  <2> DEFINE x == F[n].end
  <2>1. x \in Int
    BY <1>1 DEF Hunks
  <2> HIDE DEF x
  <2>2. x \in Int /\ x + o = x
    BY <1>2, <2>1
  <2> QED
    BY <2>2 DEF x
<1>4. \A n \in 1 .. N : n > 1 => F[n - 1].end + o <= F[n].start
  <2> SUFFICES ASSUME NEW n \in 1 .. N, n > 1
               PROVE  F[n - 1].end + o <= F[n].start
    OBVIOUS
  <2>1. n - 1 \in 1 .. N - 1 /\ n - 1 \in 1 .. N /\ (n - 1) + 1 = n
    BY <1>1
  <2>2. F[n - 1].end <= F[n].start
    BY <2>1
  <2> QED
    BY <1>3, <2>1, <2>2
<1>5. PICK u : Makes(C, t, F, 0, Len(t), u, o)
  BY <1>4, MakesExists
<1>6. \A m, n \in 1 .. N : m < n => F[m].end + o <= F[n].start
  BY <1>5, MakesSpan
<1> QED
  BY <1>2, <1>3, <1>5, <1>6

\* Hunks fit a text in one order exactly when they do in another.
LEMMA RearrangedFit ==
    ASSUME NEW C, NEW t, NEW H, NEW F, NEW p, Rearranged(C, H, F, p)
    PROVE  (\A n \in 1 .. Len(H) : Fits(t, H[n])) <=> (\A n \in 1 .. Len(F) : Fits(t, F[n]))
<1>1. /\ p \in [1 .. Len(H) -> 1 .. Len(H)] /\ Len(F) = Len(H)
      /\ \A j \in 1 .. Len(H) : \E n \in 1 .. Len(H) : p[n] = j
      /\ \A n \in 1 .. Len(H) : F[n] = H[p[n]]
  BY DEF Rearranged, Permutes
<1>2. ASSUME \A n \in 1 .. Len(H) : Fits(t, H[n]), NEW n \in 1 .. Len(H)
      PROVE  Fits(t, F[n])
  BY <1>1, <1>2
<1>3. ASSUME \A n \in 1 .. Len(H) : Fits(t, F[n]), NEW j \in 1 .. Len(H)
      PROVE  Fits(t, H[j])
  <2>1. PICK n \in 1 .. Len(H) : p[n] = j
    BY <1>1
  <2>2. F[n] = H[j]
    BY <1>1, <2>1
  <2> QED
    BY <1>3, <2>2
<1> QED
  BY <1>1, <1>2, <1>3

\* Hunks that were validated, from the last in the text to the first: none reaches into
\* one before it.
LEMMA Downward ==
    ASSUME NEW C, NEW t \in Str(C), NEW R \in Seq(Hunks(C)), ValidateHunks(t, R),
           \A m, n \in 1 .. Len(R) : m < n => ~Ahead(R[m], R[n])
    PROVE  \A m, n \in 1 .. Len(R) : m < n => R[n].end <= R[m].start
<1> DEFINE F == SortHunksForward(R)
           N == Len(R)
<1>1. N \in Nat /\ DOMAIN R = 1 .. N /\ \A n \in 1 .. N : R[n] \in Hunks(C)
  BY LenProperties, ElementOfSeq
<1>2. F \in Seq(Hunks(C)) /\ Len(F) = N /\ \E p : Rearranged(C, R, F, p)
  BY ForwardSorts
<1>3. PICK p : Rearranged(C, R, F, p)
  BY <1>2
<1>4. \A n \in 1 .. N : Fits(t, R[n])
  BY <1>1 DEF ValidateHunks
<1>5. \A n \in 1 .. Len(F) - 1 : F[n].end <= F[n + 1].start
  BY DEF ValidateHunks, Disjoint
<1> HIDE DEF F
<1>6. \A n \in 1 .. Len(F) : Fits(t, F[n])
  BY <1>2, <1>3, <1>4, RearrangedFit
<1>7. \A m, n \in 1 .. Len(F) : m < n => F[m].end <= F[n].start
  BY <1>2, <1>5, <1>6, Chain
<1>8. /\ p \in [1 .. N -> 1 .. N]
      /\ \A j \in 1 .. N : \E n \in 1 .. N : p[n] = j
      /\ \A n \in 1 .. N : F[n] = R[p[n]]
  BY <1>3 DEF Rearranged, Permutes
<1> SUFFICES ASSUME NEW i \in 1 .. N, NEW j \in 1 .. N, i < j
             PROVE  R[j].end <= R[i].start
  OBVIOUS
<1> DEFINE a == R[i].start
           b == R[i].end
           c == R[j].start
           d == R[j].end
<1>9. a \in Int /\ b \in Int /\ c \in Int /\ d \in Int /\ a <= b /\ c <= d
  <2>1. R[i] \in Hunks(C) /\ R[j] \in Hunks(C) /\ Fits(t, R[i]) /\ Fits(t, R[j])
    BY <1>1, <1>4
  <2> QED
    BY <2>1 DEF Hunks, Fits, InBounds
<1>10. ~(a < c \/ (a = c /\ b < d))
  BY DEF Ahead
<1>11. PICK m \in 1 .. N : p[m] = i
  BY <1>8
<1>12. PICK n \in 1 .. N : p[n] = j
  BY <1>8
<1>13. F[m] = R[i] /\ F[n] = R[j] /\ m # n
  <2>1. F[m] = R[i] /\ F[n] = R[j]
    BY <1>8, <1>11, <1>12
  <2>2. i # j
    BY <1>1
  <2> QED
    BY <1>11, <1>12, <2>1, <2>2
<1>14. b <= c \/ d <= a
  <2>1. m < n \/ n < m
    BY <1>13
  <2> QED
    BY <1>2, <1>7, <1>13, <2>1
<1> HIDE DEF a, b, c, d
<1>15. d <= a
  BY <1>9, <1>10, <1>14
<1> QED
  BY <1>15 DEF a, d

\* One turn of the loop, where the hunks to come do not reach into one another.
Ready(t, H) ==
    /\ \A n \in 1 .. Len(H) : Fits(t, H[n])
    /\ \A m, n \in 1 .. Len(H) : m < n => H[n].end <= H[m].start

\* Hunks that are ready stay ready when the first of them has been applied.
LEMMA ReadyStep ==
    ASSUME NEW C, NEW t \in Str(C), NEW H \in Seq(Hunks(C)), H # <<>>, Ready(t, H),
           NEW h, h = Head(H), NEW s, s = Spliced(t, h.start, h.end, h.new)
    PROVE  /\ h \in Hunks(C) /\ Fits(t, h) /\ Tail(H) \in Seq(Hunks(C))
           /\ s \in Str(C) /\ Ready(s, Tail(H)) /\ Replaced(t, H) = Replaced(s, Tail(H))
<1> DEFINE N == Len(H)
           T == Tail(H)
<1>1. /\ N \in Nat \ {0} /\ h = H[1] /\ h \in Hunks(C) /\ T \in Seq(Hunks(C)) /\ Len(T) = N - 1
      /\ \A n \in 1 .. N - 1 : T[n] = H[n + 1]
  <2>1. N \in Nat /\ N # 0
    BY LenProperties, EmptySeq
  <2>2. H[1] \in Hunks(C)
    <3>1. 1 \in 1 .. N
      BY <2>1
    <3> QED
      BY <3>1, ElementOfSeq
  <2> QED
    BY <2>1, <2>2, HeadTailProperties
<1>2. H = <<h>> \o T
  <2> DEFINE K == <<h>> \o T
  <2>1. /\ <<h>> \in Seq(Hunks(C)) /\ Len(<<h>>) = 1
    BY <1>1
  <2>2. /\ K \in Seq(Hunks(C)) /\ Len(K) = N /\ K[1] = h
        /\ \A n \in 2 .. N : K[n] = T[n - 1]
    <3> HIDE DEF T
    <3> QED
      BY <1>1, <2>1
  <2>3. \A n \in 1 .. N : K[n] = H[n]
    <3> TAKE n \in 1 .. N
    <3>1. CASE n = 1
      BY <1>1, <2>2, <3>1
    <3>2. CASE n # 1
      <4>1. n \in 2 .. N /\ n - 1 \in 1 .. N - 1 /\ (n - 1) + 1 = n
        BY <1>1, <3>2
      <4> HIDE DEF K, T
      <4> QED
        BY <1>1, <2>2, <4>1
    <3> QED
      BY <3>1, <3>2
  <2> HIDE DEF K, T
  <2>4. K = H
    <3>1. K \in Str(Hunks(C)) /\ H \in Str(Hunks(C))
      BY <2>2 DEF Str
    <3> QED
      BY <2>2, <2>3, <3>1, StrEqual
  <2> QED
    BY <2>4 DEF K
<1>3. 1 \in 1 .. N /\ Fits(t, h)
  BY <1>1 DEF Ready
<1>4. s \in Str(C) /\ Replaced(t, H) = Replaced(s, T)
  <2> HIDE DEF T
  <2>1. /\ Spliced(t, h.start, h.end, h.new) \in Str(C)
        /\ Replaced(t, <<h>> \o T) = Replaced(Spliced(t, h.start, h.end, h.new), T)
    BY <1>1, <1>3, ReplacedFirst
  <2> QED
    BY <1>2, <2>1
<1>5. ASSUME NEW n \in 1 .. N - 1
      PROVE  Fits(s, T[n])
  <2> DEFINE g == T[n]
             a == g.start
             b == g.end
             e == h.start
             f == Slice(t, 0, e)
             r == h.new \o Slice(t, h.end, Len(t))
  <2>1. n + 1 \in 1 .. N /\ 1 < n + 1 /\ g = H[n + 1]
    BY <1>1
  <2>2. g \in Hunks(C) /\ Fits(t, g) /\ b <= e
    <3>1. H[n + 1] \in Hunks(C)
      BY <2>1, ElementOfSeq
    <3> QED
      BY <1>1, <1>3, <2>1, <3>1 DEF Ready
  <2>3. /\ a \in 0 .. Len(t) /\ b \in a .. Len(t) /\ Slice(t, a, b) = g.old /\ Len(t) \in Nat
    <3> HIDE DEF g
    <3> QED
      BY <2>2, FitsIs, StrProperties
  <2>4. /\ e \in 0 .. Len(t) /\ h.end \in e .. Len(t) /\ h.new \in Str(C) /\ h.end \in 0 .. Len(t)
    BY <1>1, <1>3, FitsIs
  <2> HIDE DEF g, a, b, e
  <2>5. f \in Str(C) /\ Len(f) = e
    <3>1. PICK o \in Nat : o = 0
      OBVIOUS
    <3>2. o \in 0 .. Len(t) /\ e \in o .. Len(t) /\ e - o = e
      BY <2>3, <2>4, <3>1
    <3>3. Slice(t, o, e) \in Str(C) /\ Len(Slice(t, o, e)) = e - o
      BY <3>2, SliceProperties
    <3> QED
      BY <3>1, <3>2, <3>3
  <2>6. r \in Str(C)
    <3> DEFINE x == h.end
    <3>1. x \in 0 .. Len(t) /\ Len(t) \in x .. Len(t)
      BY <2>3, <2>4
    <3> HIDE DEF x
    <3>2. Slice(t, x, Len(t)) \in Str(C)
      BY <3>1, SliceProperties
    <3> QED
      BY <2>4, <3>2, StrConcat DEF x
  <2>7. s = f \o r
    <3> DEFINE z == Slice(t, h.end, Len(t))
               w == h.new
    <3>1. s = (f \o w) \o z
      <4> DEFINE x == h.end
      <4>1. e \in 0 .. Len(t) /\ x \in e .. Len(t) /\ w \in Str(C)
        BY <2>4
      <4>2. s = Spliced(t, e, x, w)
        BY DEF e
      <4> HIDE DEF x, w
      <4>3. Spliced(t, e, x, w) = (Slice(t, 0, e) \o w) \o Slice(t, x, Len(t))
        BY ONLY t \in Str(C), <4>1, SplicedType
      <4> QED
        BY <4>2, <4>3 DEF x
    <3>2. z \in Str(C) /\ w \in Str(C)
      <4> DEFINE x == h.end
      <4>1. x \in 0 .. Len(t) /\ Len(t) \in x .. Len(t)
        BY <2>3, <2>4
      <4> HIDE DEF x
      <4>2. Slice(t, x, Len(t)) \in Str(C)
        BY <4>1, SliceProperties
      <4> QED
        BY <2>4, <4>2 DEF x
    <3> HIDE DEF f, z, w
    <3>3. (f \o w) \o z = f \o (w \o z)
      <4>1. f \in Str(C) /\ w \in Str(C) /\ z \in Str(C)
        BY <2>5, <3>2
      <4>j. Joins(f, w, z)
        BY ONLY <4>1, StrJoin
      <4> QED
        BY ONLY <4>j DEF Joins
    <3> QED
      BY <3>1, <3>3 DEF z, w
  <2> HIDE DEF r
  <2>8. Slice(s, a, b) = Slice(f, a, b)
    <3>1. a \in 0 .. Len(f) /\ b \in a .. Len(f)
      BY <2>2, <2>3, <2>4, <2>5
    <3> HIDE DEF f
    <3>2. Slice(f \o r, a, b) = Slice(f, a, b)
      BY ONLY <2>5, <2>6, <3>1, SliceOfFront
    <3> QED
      BY <2>7, <3>2
  <2>9. Slice(f, a, b) = Slice(t, a, b)
    <3>1. PICK o \in Nat : o = 0
      OBVIOUS
    <3>2. o \in 0 .. Len(t) /\ e \in o .. Len(t) /\ a \in 0 .. e - o /\ b \in a .. e - o
      BY <2>2, <2>3, <2>4, <3>1
    <3>3. Slice(Slice(t, o, e), a, b) = Slice(t, o + a, o + b)
      BY <3>2, SliceOfSlice
    <3>4. o + a = a /\ o + b = b
      BY <2>3, <3>1
    <3> QED
      BY <3>1, <3>3, <3>4
  <2>10. 0 <= a /\ a <= b /\ b <= Len(s)
    <3>1. Len(s) = Len(f) + Len(r) /\ Len(r) \in Nat
      <4> HIDE DEF f
      <4> QED
        BY <2>5, <2>6, <2>7, StrConcat, StrProperties
    <3> HIDE DEF f
    <3> QED
      BY <2>2, <2>3, <2>4, <2>5, <3>1
  <2> QED
    BY <2>3, <2>8, <2>9, <2>10 DEF Fits, InBounds, a, b, g
<1>6. Ready(s, T)
  <2>1. \A m, n \in 1 .. N - 1 : m < n => T[n].end <= T[m].start
    <3> SUFFICES ASSUME NEW m \in 1 .. N - 1, NEW n \in 1 .. N - 1, m < n
                 PROVE  T[n].end <= T[m].start
      OBVIOUS
    <3>1. m + 1 \in 1 .. N /\ n + 1 \in 1 .. N /\ m + 1 < n + 1
      BY <1>1
    <3>2. H[n + 1].end <= H[m + 1].start
      BY <3>1 DEF Ready
    <3> QED
      BY <1>1, <3>2
  <2> QED
    BY <1>1, <1>5, <2>1 DEF Ready
<1> QED
  BY <1>1, <1>3, <1>4, <1>6

\* One more character of a slice.
NextOf(p, t, e, x) == (p \o Slice(t, e, x)) \o <<t[x + 1]>> = p \o Slice(t, e, x + 1)

\* A slice and one more character.
LEMMA SliceNext ==
    ASSUME NEW C, NEW p \in Str(C), NEW t \in Str(C), NEW e \in 0 .. Len(t), NEW x \in e .. Len(t) - 1
    PROVE  NextOf(p, t, e, x)
<1> DEFINE y == x + 1
           c == <<t[y]>>
           q == Slice(t, x, y)
<1>1. Len(t) \in Nat
  BY StrProperties
<1>2. /\ x \in e .. Len(t) /\ y \in e .. Len(t) /\ y \in x .. Len(t) /\ x \in 0 .. Len(t) /\ y \in 1 .. Len(t)
      /\ y - x = 1 /\ x \in Int
  BY <1>1
<1>3. c \in Str(C)
  <2>1. t[y] \in C
    BY <1>2, StrProperties
  <2> QED
    BY <2>1 DEF Str
<1>4. q = c
  <2>1. q \in Str(C) /\ Len(q) = y - x /\ \A i \in 1 .. y - x : q[i] = t[x + i]
    <3> HIDE DEF y
    <3> QED
      BY <1>2, SliceProperties
  <2>2. Len(c) = 1 /\ c[1] = t[y]
    OBVIOUS
  <2>3. Len(q) = 1 /\ q[1] = t[y]
    BY <1>2, <2>1
  <2> HIDE DEF q, c
  <2>4. \A i \in 1 .. Len(q) : q[i] = c[i]
    BY <2>2, <2>3
  <2> QED
    BY <1>3, <2>1, <2>2, <2>3, <2>4, StrEqual
<1> HIDE DEF y, c
<1>5. (p \o Slice(t, e, x)) \o Slice(t, x, y) = p \o Slice(t, e, y)
  <2>1. x \in e .. Len(t)
    BY <1>2
  <2>2. y \in x .. Len(t)
    BY <1>2
  <2>3. e \in 0 .. Len(t)
    BY <1>2
  <2>j. Goes(p, t, e, x, y)
    BY ONLY p \in Str(C), t \in Str(C), <2>1, <2>2, <2>3, SliceMore
  <2> QED
    BY ONLY <2>j DEF Goes
<1> QED
  BY <1>4, <1>5 DEF y, c, NextOf
\* What hunks make of a text is the text written out character by character: where a hunk
\* begins its new text, and no character of its old one.
Writes(t, S, W) ==
    /\ \A n \in 1 .. Len(S) : S[n].start < S[n].end
    /\ \A n \in 1 .. Len(S) : W[S[n].start + 1] = S[n].new
    /\ \A n \in 1 .. Len(S) : \A x \in S[n].start + 1 .. S[n].end - 1 : W[x + 1] = <<>>
    /\ \A x \in 0 .. Len(t) - 1 :
          (\A n \in 1 .. Len(S) : x < S[n].start \/ S[n].end <= x) => W[x + 1] = <<t[x + 1]>>

\* What hunks make of a text is that text written out character by character.
LEMMA WrittenOut ==
    ASSUME NEW C, NEW t \in Str(C), NEW S \in Seq(Hunks(C)), NEW u, NEW gap \in Nat,
           Makes(C, t, S, 0, Len(t), u, gap),
           NEW W \in Seq(Str(C)), Len(W) = Len(t), Writes(t, S, W)
    PROVE  Q!FlattenSeq(W) = u
<1>0. /\ \A n \in 1 .. Len(S) : S[n].start < S[n].end
      /\ \A n \in 1 .. Len(S) : W[S[n].start + 1] = S[n].new
      /\ \A n \in 1 .. Len(S) : \A x \in S[n].start + 1 .. S[n].end - 1 : W[x + 1] = <<>>
      /\ \A x \in 0 .. Len(t) - 1 :
            (\A n \in 1 .. Len(S) : x < S[n].start \/ S[n].end <= x) => W[x + 1] = <<t[x + 1]>>
  BY DEF Writes
<1> DEFINE N == Len(S)
           l == Len(t)
<1>1. PICK E, P : /\ Within(C, t, S, 0, gap, E, P)
                  /\ E[N] <= l /\ l \in 0 .. l
                  /\ u = P[N] \o Slice(t, E[N], l)
  BY DEF Makes
<1>2. N \in Nat /\ l \in Nat /\ \A n \in 1 .. N : S[n] \in Hunks(C)
  BY LenProperties, ElementOfSeq, StrProperties
<1>3. /\ E \in [0 .. N -> Nat] /\ P \in [0 .. N -> Str(C)]
      /\ E[0] = 0 /\ P[0] = <<>>
      /\ \A n \in 1 .. N :
          /\ E[n - 1] <= S[n].start
          /\ Fits(t, S[n]) /\ E[n] = S[n].end
          /\ P[n] = (P[n - 1] \o Slice(t, E[n - 1], S[n].start)) \o S[n].new
  BY <1>1 DEF Within
<1>4. PICK g \in [0 .. Len(W) -> Str(C)] :
        /\ g[0] = <<>>
        /\ \A n \in 1 .. Len(W) : g[n] = g[n - 1] \o W[n]
        /\ Q!FlattenSeq(W) = g[Len(W)]
  BY FlattenPrefixes
<1>5. /\ g \in [0 .. l -> Str(C)] /\ g[0] = <<>> /\ Q!FlattenSeq(W) = g[l]
      /\ \A x \in 0 .. l - 1 : g[x + 1] = g[x] \o W[x + 1]
  <2>1. \A x \in 0 .. l - 1 : x + 1 \in 1 .. l /\ (x + 1) - 1 = x
    BY <1>2
  <2> QED
    BY <1>4, <2>1
<1>6. \A n \in 1 .. N : /\ S[n].start \in 0 .. l /\ S[n].end \in 0 .. l /\ S[n].start < S[n].end
                        /\ S[n].new \in Str(C) /\ E[n - 1] \in 0 .. l /\ E[n] = S[n].end
                        /\ E[n - 1] <= S[n].start
  <2> TAKE n \in 1 .. N
  <2> DEFINE h == S[n]
  <2>1. h \in Hunks(C) /\ Fits(t, h)
    BY <1>2, <1>3
  <2> HIDE DEF h
  <2>2. h.start \in 0 .. Len(t) /\ h.end \in 0 .. Len(t) /\ h.new \in Str(C)
    BY <2>1, FitsIs
  <2>3. n - 1 \in 0 .. N /\ E[n - 1] <= h.start /\ E[n] = h.end /\ h.start < h.end
    <3>1. n - 1 \in 0 .. N
      BY <1>2
    <3>2. E[n - 1] <= h.start /\ E[n] = h.end
      BY <1>3 DEF h
    <3>3. h.start < h.end
      BY <1>0 DEF h
    <3> QED
      BY <3>1, <3>2, <3>3
  <2>4. E[n - 1] \in Nat
    BY <1>3, <2>3
  <2> QED
    BY <2>2, <2>3, <2>4 DEF h
<1>7. \A m, n \in 1 .. N : m < n => S[m].end <= S[n].start
  <2> SUFFICES ASSUME NEW m \in 1 .. N, NEW n \in 1 .. N, m < n
               PROVE  S[m].end <= S[n].start
    OBVIOUS
  <2>1. S[m].end + gap <= S[n].start
    BY MakesSpan
  <2> DEFINE x == S[m].end
             y == S[n].start
  <2>2. x \in Int /\ y \in Int /\ x + gap <= y
    BY <1>6, <2>1
  <2> HIDE DEF x, y
  <2>3. x <= y
    BY <2>2
  <2> QED
    BY <2>3 DEF x, y
<1> HIDE DEF N, l
\* A stretch between two hunks, or before the first or behind the last, is copied.
<1>8. ASSUME NEW n \in 0 .. N, NEW b \in E[n] .. l, n < N => b = S[n + 1].start,
             g[E[n]] = P[n]
      PROVE  g[b] = P[n] \o Slice(t, E[n], b)
  <2> DEFINE a == E[n]
             p == P[n]
             T == {i \in 0 .. b - a : g[a + i] = p \o Slice(t, a, a + i)}
  <2>1. a \in Nat /\ a <= b /\ b <= l /\ p \in Str(C) /\ b - a \in Nat /\ a \in 0 .. l
    BY <1>2, <1>3
  <2>2. \A x \in a .. b - 1 : W[x + 1] = <<t[x + 1]>>
    <3> TAKE x \in a .. b - 1
    <3>1. ASSUME NEW k \in 1 .. N
          PROVE  x < S[k].start \/ S[k].end <= x
      <4> DEFINE y == S[k].start
                 z == S[k].end
      <4>1. y \in Int /\ z \in Int
        BY <1>6
      <4>2. CASE k <= n
        <5>1. n \in 1 .. N /\ a = S[n].end
          BY <1>2, <1>6, <4>2, SMTT(60)
        <5>2. z <= a
          <6>1. CASE k = n
            BY <4>1, <5>1, <6>1
          <6>2. CASE k # n
            <7> DEFINE v == S[n].start
                       w == S[n].end
            <7>1. k < n
              BY <4>2, <5>1, <6>2
            <7>2. z <= v /\ v < w /\ v \in Int /\ w \in Int
              BY <1>6, <1>7, <5>1, <7>1
            <7>3. a = w
              BY <5>1
            <7> HIDE DEF v, w, z, a
            <7> QED
              BY <4>1, <7>2, <7>3
          <6> QED
            BY <6>1, <6>2
        <5> HIDE DEF z, a
        <5>3. z <= x
          BY <2>1, <4>1, <5>2
        <5> QED
          BY <5>3 DEF z
      <4>3. CASE k > n
        <5>1. n + 1 \in 1 .. N /\ n < N /\ (k = n + 1 \/ n + 1 < k)
          BY <1>2, <4>3
        <5>2. b = S[n + 1].start /\ S[n + 1].end \in Int /\ S[n + 1].start < S[n + 1].end
          BY <1>6, <1>8, <5>1
        <5>3. b <= y
          <6>1. CASE k = n + 1
            BY <2>1, <5>2, <6>1
          <6>2. CASE n + 1 < k
            <7>1. S[n + 1].end <= y
              BY <1>7, <5>1, <6>2
            <7> DEFINE w == S[n + 1].end
            <7>2. w \in Int /\ b < w /\ w <= y
              BY <5>2, <7>1
            <7> HIDE DEF w, y
            <7> QED
              BY <2>1, <4>1, <7>2
          <6> QED
            BY <5>1, <6>1, <6>2
        <5> HIDE DEF y, a
        <5>4. x < y
          BY <2>1, <4>1, <5>3
        <5> QED
          BY <5>4 DEF y
      <4> QED
        BY <4>2, <4>3
    <3>2. x \in 0 .. l - 1
      <4> HIDE DEF a
      <4> QED
        BY <1>2, <2>1
    <3> QED
      BY <1>0, <3>1, <3>2 DEF N, l
  <2>3. 0 \in T
    <3>1. a + 0 = a /\ 0 \in 0 .. b - a
      BY <2>1
    <3>2. Slice(t, a, a) = <<>>
      <4>1. a \in 0 .. Len(t)
        BY <2>1 DEF l
      <4> HIDE DEF a
      <4> QED
        BY <4>1, SliceEmpty
    <3>3. p \o <<>> = p
      <4> HIDE DEF p
      <4> QED
        BY <2>1, StrConcat
    <3> QED
      BY <1>8, <3>1, <3>2, <3>3
  <2>4. ASSUME NEW i \in 1 .. b - a, i - 1 \in T
        PROVE  i \in T
    <3> DEFINE x == a + (i - 1)
    <3>1. i \in 0 .. b - a /\ x + 1 = a + i /\ x \in a .. b - 1 /\ x \in 0 .. l - 1 /\ x \in a .. l - 1
      <4> HIDE DEF a
      <4> QED
        BY <1>2, <2>1
    <3>2. g[x] = p \o Slice(t, a, x) /\ g[x + 1] = g[x] \o W[x + 1] /\ W[x + 1] = <<t[x + 1]>>
      BY <1>5, <2>2, <2>4, <3>1
    <3> HIDE DEF x, a, p
    <3>3. (p \o Slice(t, a, x)) \o <<t[x + 1]>> = p \o Slice(t, a, x + 1)
      <4>1. a \in 0 .. Len(t) /\ x \in a .. Len(t) - 1
        BY <2>1, <3>1 DEF l
      <4>2. p \in Str(C)
        BY <2>1
      <4>3. NextOf(p, t, a, x)
        BY ONLY t \in Str(C), <4>1, <4>2, SliceNext
      <4> QED
        BY <4>3 DEF NextOf
    <3>4. g[a + i] = p \o Slice(t, a, a + i)
      BY <3>1, <3>2, <3>3
    <3> QED
      BY <3>1, <3>4
  <2>5. \A i \in 0 .. b - a : i \in T
    <3> HIDE DEF T, a
    <3> QED
      BY <2>1, <2>3, <2>4, UpTo
  <2>6. b - a \in 0 .. b - a /\ a + (b - a) = b
    <3> HIDE DEF a
    <3> QED
      BY <1>2, <2>1
  <2>7. g[a + (b - a)] = p \o Slice(t, a, a + (b - a))
    BY <2>5, <2>6
  <2> QED
    BY <2>6, <2>7
\* A hunk writes its new text and leaves its old one out.
<1>9. ASSUME NEW n \in 1 .. N, g[E[n - 1]] = P[n - 1]
      PROVE  g[E[n]] = P[n]
  <2> DEFINE a == S[n].start
             b == S[n].end
             q == P[n]
             T == {i \in 0 .. (b - a) - 1 : g[(a + 1) + i] = q}
  <2>1. a \in 0 .. l /\ b \in 0 .. l /\ a < b /\ a \in Nat /\ b \in Nat /\ (b - a) - 1 \in Nat
    BY <1>2, <1>6
  <2>2. g[a] = P[n - 1] \o Slice(t, E[n - 1], a)
    <3>1. /\ n - 1 \in 0 .. N /\ (n - 1) + 1 = n /\ n - 1 < N
      BY <1>2
    <3>2. a \in E[n - 1] .. l
      <4> DEFINE e == E[n - 1]
      <4>1. e \in 0 .. l /\ e <= a
        BY <1>6
      <4> HIDE DEF e, a
      <4>2. a \in e .. l
        BY <1>2, <2>1, <4>1
      <4> QED
        BY <4>2 DEF e
    <3> QED
      BY <1>8, <1>9, <3>1, <3>2
  <2>3. q = g[a] \o S[n].new
    BY <1>3, <2>2
  <2>4. W[a + 1] = S[n].new /\ \A x \in a + 1 .. b - 1 : W[x + 1] = <<>>
    BY <1>0 DEF N
  <2>5. q \in Str(C)
    BY <1>2, <1>3
  <2>6. 0 \in T
    <3>1. a \in 0 .. l - 1 /\ (a + 1) + 0 = a + 1
      BY <1>2, <2>1, SMTT(60)
    <3>2. g[a + 1] = q
      BY <1>5, <2>3, <2>4, <3>1
    <3> QED
      BY <2>1, <3>1, <3>2
  <2>7. ASSUME NEW i \in 1 .. (b - a) - 1, i - 1 \in T
        PROVE  i \in T
    <3> DEFINE x == (a + 1) + (i - 1)
    <3>1. i \in 0 .. (b - a) - 1 /\ x + 1 = (a + 1) + i /\ x \in a + 1 .. b - 1 /\ x \in 0 .. l - 1
      <4> HIDE DEF a, b
      <4> QED
        BY <1>2, <2>1
    <3>2. g[x] = q /\ g[x + 1] = g[x] \o W[x + 1] /\ W[x + 1] = <<>>
      BY <1>5, <2>4, <2>7, <3>1
    <3>3. q \o <<>> = q
      <4> HIDE DEF q
      <4> QED
        BY <2>5, StrConcat
    <3>4. g[(a + 1) + i] = q
      BY <3>1, <3>2, <3>3
    <3> QED
      BY <3>1, <3>4
  <2>8. \A i \in 0 .. (b - a) - 1 : i \in T
    <3> HIDE DEF T, a, b
    <3> QED
      BY <2>1, <2>6, <2>7, UpTo
  <2>9. (b - a) - 1 \in 0 .. (b - a) - 1 /\ (a + 1) + ((b - a) - 1) = b
    <3> HIDE DEF a, b
    <3> QED
      BY <1>2, <2>1
  <2>10. g[b] = q
    BY <2>8, <2>9
  <2> QED
    BY <1>6, <2>10
<1> DEFINE T == {n \in 0 .. N : g[E[n]] = P[n]}
<1>10. \A n \in 0 .. N : n \in T
  <2>1. 0 \in T
    BY <1>2, <1>3, <1>5
  <2>2. ASSUME NEW n \in 1 .. N, n - 1 \in T
        PROVE  n \in T
    <3>1. n \in 0 .. N
      BY <1>2
    <3>2. g[E[n]] = P[n]
      BY <1>9, <2>2
    <3> QED
      BY <3>1, <3>2
  <2> HIDE DEF T
  <2> QED
    BY <1>2, <2>1, <2>2, UpTo
<1>11. g[E[N]] = P[N] /\ N \in 0 .. N
  BY <1>2, <1>10
<1>12. l \in E[N] .. l /\ ~(N < N)
  BY <1>1, <1>2, <1>3, <1>11
<1>13. g[l] = P[N] \o Slice(t, E[N], l)
  BY <1>8, <1>11, <1>12
<1> QED
  BY <1>1, <1>5, <1>13

----------------
\* A sentence is a stretch of the text that is not empty.
LEMMA SentenceIs ==
    ASSUME NEW C, NEW t \in Str(C), NEW segment \in DOMAIN SplitIntoSentences(t),
           NEW s, s = SplitIntoSentences(t)[segment]
    PROVE  s.start \in Nat /\ s.end \in 0 .. Len(t) /\ s.start < s.end
<1> DEFINE soft(i) == t[i + 1] = "." /\ (i + 1 = Len(t) \/ Space(t[i + 2]))
           breaks == {i \in 0 .. Len(t) - 1 : t[i + 1] = "\n" \/ soft(i)}
           end(from) == LET next == {i \in breaks : i >= from}
                        IN  IF next = {} THEN Len(t)
                            ELSE IF t[Least(next) + 1] = "\n" THEN Least(next) ELSE Least(next) + 1
           words(from) == {i \in from .. end(from) - 1 : ~Space(t[i + 1])}
           S == {i \in {0} \union {b + 1 : b \in breaks} : words(i) # {}}
           begin == Ascending(S)
           span(from) == [start |-> Least(words(from)), end |-> Greatest(words(from)) + 1]
<1>1. Len(t) \in Nat
  BY StrProperties
<1>2. SplitIntoSentences(t) = [n \in 1 .. Len(begin) |-> span(begin[n])]
  BY DEF SplitIntoSentences
<1>3. breaks \subseteq 0 .. Len(t) - 1 /\ breaks \subseteq Nat
  OBVIOUS
<1>4. \A from : end(from) \in 0 .. Len(t)
  <2> TAKE from
  <2> DEFINE next == {i \in breaks : i >= from}
             m == Least(next)
  <2>1. CASE next = {}
    BY <1>1, <2>1
  <2>2. CASE next # {}
    <3>1. next \subseteq Nat /\ next \subseteq 0 .. Len(t) - 1
      OBVIOUS
    <3> HIDE DEF next
    <3>2. m \in next
      BY <2>2, <3>1, LeastProperties
    <3>3. m \in 0 .. Len(t) - 1
      BY <3>1, <3>2
    <3> HIDE DEF m
    <3>4. m \in 0 .. Len(t) /\ m + 1 \in 0 .. Len(t)
      BY <1>1, <3>3
    <3>5. end(from) = m \/ end(from) = m + 1
      BY <2>2 DEF next, m
    <3> QED
      BY <3>4, <3>5
  <2> QED
    BY <2>1, <2>2
<1>5. S \subseteq 0 .. Len(t) /\ S \subseteq Int /\ IsFiniteSet(S)
  <2>1. \A b \in breaks : b + 1 \in 0 .. Len(t)
    <3> HIDE DEF breaks
    <3> QED
      BY <1>1, <1>3
  <2>2. 0 \in 0 .. Len(t)
    BY <1>1
  <2>3. S \subseteq 0 .. Len(t)
    <3> HIDE DEF breaks, words
    <3> QED
      BY <2>1, <2>2
  <2>4. IsFiniteSet(0 .. Len(t))
    BY <1>1, FS_Interval
  <2>5. 0 .. Len(t) \subseteq Int
    BY <1>1
  <2> HIDE DEF S
  <2> QED
    BY <2>3, <2>4, <2>5, FS_Subset
<1>6. begin \in Seq(S)
  <2> HIDE DEF S
  <2> QED
    BY <1>5, AscendingProperties
<1>7. segment \in 1 .. Len(begin) /\ s = span(begin[segment])
  <2> HIDE DEF begin, span
  <2> QED
    BY <1>2
<1>8. begin[segment] \in S
  <2> HIDE DEF begin, S
  <2> QED
    BY <1>6, <1>7, ElementOfSeq
<1>9. PICK from \in 0 .. Len(t) : from = begin[segment] /\ words(from) # {}
  <2> HIDE DEF begin, words, breaks
  <2>1. words(begin[segment]) # {} /\ begin[segment] \in 0 .. Len(t)
    BY <1>5, <1>8
  <2> QED
    BY <2>1
<1> DEFINE e == end(from)
           W == words(from)
<1>10. e \in 0 .. Len(t) /\ from \in Nat
  <2> HIDE DEF end
  <2> QED
    BY <1>1, <1>4
<1>11. W \subseteq from .. e - 1 /\ W # {}
  BY <1>9
<1>12. s = [start |-> Least(W), end |-> Greatest(W) + 1]
  BY <1>7, <1>9
<1> HIDE DEF e, W
<1>13. W \subseteq Nat /\ W \subseteq 0 .. Len(t) /\ \A x \in W : x + 1 <= Len(t)
  BY <1>1, <1>10, <1>11
<1>14. Least(W) \in W /\ \A y \in W : Least(W) <= y
  BY <1>11, <1>13, LeastProperties
<1>15. Greatest(W) \in W
  BY <1>1, <1>11, <1>13, GreatestProperties
<1> DEFINE a == Least(W)
           b == Greatest(W)
<1>16. a \in Nat /\ b \in Nat /\ a <= b /\ b + 1 <= Len(t)
  BY <1>13, <1>14, <1>15
<1>17. s.start = a /\ s.end = b + 1
  BY <1>12
<1> HIDE DEF a, b
<1>18. a \in Nat /\ b + 1 \in 0 .. Len(t) /\ a < b + 1
  BY <1>1, <1>16
<1> QED
  BY <1>17, <1>18

----------------
\* A place of a card in a sentence: its original stands there, and at its
\* offsets if it has them.
Stands(t, s, c, m) ==
    /\ m \in s.start .. s.end /\ m + Len(c.old) <= s.end
    /\ Slice(t, m, m + Len(c.old)) = c.old
    /\ c.start # Unplaced \/ c.end # Unplaced => m = c.start /\ m + Len(c.old) = c.end

\* The place the planner finds is one, it finds no second, and a card without
\* an original is not placed.
FoundAt(t, s, c, m) ==
    CardPlaces(t, s, c) = {m} /\ Stands(t, s, c, m) /\ m \in Nat /\ Len(c.old) \in Nat \ {0}

\* Where the planner finds a place (cardPlace), the card stands there and nowhere else.
LEMMA PlaceIs ==
    ASSUME NEW C, NEW t \in Str(C), NEW s, s.start \in Nat, s.end \in 0 .. Len(t), s.start < s.end,
           NEW c \in Hunks(C), c.old = <<>> => c.start = Unplaced /\ c.end = Unplaced,
           NEW m \in CardPlaces(t, s, c)
    PROVE  FoundAt(t, s, c, m)
<1> DEFINE length == Len(c.old)
           a == s.start
           b == s.end
           finds == {i \in a .. b - length : Slice(t, i, i + length) = c.old}
           step == IF length = 0 THEN 1 ELSE length
           placed == c.start # Unplaced \/ c.end # Unplaced
           at == /\ c.start # Unplaced /\ c.end # Unplaced
                 /\ a <= c.start /\ c.start <= c.end /\ c.end <= b
                 /\ Slice(t, c.start, c.end) = c.old
           single == finds # {} /\ ~\E i \in finds : i >= Least(finds) + step
<1>1. Len(t) \in Nat /\ length \in Nat /\ (length = 0 <=> c.old = <<>>)
  BY StrProperties DEF Hunks
<1>2. CardPlaces(t, s, c) = IF placed THEN IF at THEN {c.start} ELSE {}
                            ELSE IF single THEN {Least(finds)} ELSE {}
  BY DEF CardPlaces
<1>3. c.start \in Int /\ c.end \in Int
  BY DEF Hunks
<1>4. a \in Nat /\ b \in 0 .. Len(t) /\ a < b
  OBVIOUS
<1> HIDE DEF a, b, length
<1>5. CASE placed
  <2>1. at /\ m = c.start /\ CardPlaces(t, s, c) = {m}
    <3> HIDE DEF at
    <3> QED
      BY <1>2, <1>5
  <2> DEFINE x == c.start
             y == c.end
  <2>2. a <= x /\ x <= y /\ y <= b /\ Slice(t, x, y) = c.old /\ x \in Int /\ y \in Int
    BY <1>3, <2>1
  <2>3. length # 0
    BY <1>1, <1>5
  <2> HIDE DEF x, y
  <2>4. x \in 0 .. Len(t) /\ y \in x .. Len(t)
    BY <1>1, <1>4, <2>2
  <2>5. Len(Slice(t, x, y)) = y - x
    BY <2>4, SliceProperties
  <2>6. length = y - x /\ x + length = y /\ x \in a .. b /\ x \in Nat
    <3>1. length = y - x
      BY <2>2, <2>5 DEF length
    <3> QED
      BY <1>4, <2>2, <3>1
  <2>7. x \in a .. b /\ x + length <= b /\ Slice(t, x, x + length) = c.old
        /\ x \in Nat /\ length \in Nat \ {0}
    BY <1>1, <2>2, <2>3, <2>6
  <2> QED
    BY <2>1, <2>6, <2>7 DEF FoundAt, Stands, x, y, a, b, length
<1>6. CASE ~placed
  <2>1. single /\ m = Least(finds) /\ CardPlaces(t, s, c) = {m}
    <3> HIDE DEF single
    <3> QED
      BY <1>2, <1>6
  <2>2. finds \subseteq Nat
    BY <1>4
  <2>3. m \in finds
    BY <2>1, <2>2, LeastProperties
  <2>4. length # 0
    <3> SUFFICES ASSUME length = 0 PROVE FALSE
      OBVIOUS
    <3>1. a + 1 \in a .. b - length /\ a \in a .. b - length /\ (a + 1) + length = a + 1 /\ a + length = a
      BY <1>4
    <3>2. Slice(t, a, a) = <<>> /\ Slice(t, a + 1, a + 1) = <<>>
      <4>1. a \in 0 .. Len(t) /\ a + 1 \in 0 .. Len(t)
        BY <1>1, <1>4
      <4> QED
        BY <4>1, SliceEmpty
    <3>3. a \in finds /\ a + 1 \in finds
      BY <1>1, <3>1, <3>2
    <3>4. m <= a
      BY <2>1, <2>2, <3>3, LeastProperties
    <3>5. a + 1 >= m + 1
      BY <1>4, <2>2, <2>3, <3>4
    <3> HIDE DEF finds
    <3> QED
      BY <2>1, <3>3, <3>5
  <2>5. m \in a .. b - length /\ Slice(t, m, m + length) = c.old
    BY <2>3
  <2>6. m \in a .. b /\ m + length <= b /\ m \in Nat /\ length \in Nat \ {0}
    BY <1>1, <1>4, <2>4, <2>5
  <2> QED
    BY <1>6, <2>1, <2>5, <2>6 DEF FoundAt, Stands, a, b, length
<1> QED
  BY <1>5, <1>6

\* A card that has one place in the sentence is found there.
LEMMA PlaceFound ==
    ASSUME NEW C, NEW t \in Str(C), NEW s, s.start \in Nat, s.end \in 0 .. Len(t), s.start < s.end,
           NEW c \in Hunks(C), NEW m, Stands(t, s, c, m),
           \A i \in s.start .. s.end : Stands(t, s, c, i) => i = m
    PROVE  m \in CardPlaces(t, s, c)
<1> DEFINE length == Len(c.old)
           a == s.start
           b == s.end
           finds == {i \in a .. b - length : Slice(t, i, i + length) = c.old}
           step == IF length = 0 THEN 1 ELSE length
           placed == c.start # Unplaced \/ c.end # Unplaced
           at == /\ c.start # Unplaced /\ c.end # Unplaced
                 /\ a <= c.start /\ c.start <= c.end /\ c.end <= b
                 /\ Slice(t, c.start, c.end) = c.old
           single == finds # {} /\ ~\E i \in finds : i >= Least(finds) + step
<1>1. Len(t) \in Nat /\ length \in Nat
  BY StrProperties DEF Hunks
<1>2. CardPlaces(t, s, c) = IF placed THEN IF at THEN {c.start} ELSE {}
                            ELSE IF single THEN {Least(finds)} ELSE {}
  BY DEF CardPlaces
<1>3. a \in Nat /\ b \in 0 .. Len(t) /\ a < b
  OBVIOUS
<1>4. /\ m \in a .. b /\ m + length <= b /\ Slice(t, m, m + length) = c.old
      /\ placed => m = c.start /\ m + length = c.end
  BY DEF Stands
<1> HIDE DEF a, b, length
<1>5. CASE placed
  <2>1. m = c.start /\ m + length = c.end
    BY <1>4, <1>5
  <2>2. m \in Nat /\ m + length \in Nat /\ a <= m /\ m <= m + length
    BY <1>1, <1>3, <1>4
  <2>3. m # Unplaced /\ m + length # Unplaced
    BY <2>2 DEF Unplaced
  <2>4. at
    <3>1. c.start # Unplaced /\ c.end # Unplaced
      BY <2>1, <2>3
    <3>2. a <= c.start /\ c.start <= c.end /\ c.end <= b
      BY <1>4, <2>1, <2>2
    <3>3. Slice(t, c.start, c.end) = c.old
      BY <1>4, <2>1
    <3> QED
      BY <3>1, <3>2, <3>3
  <2> HIDE DEF at
  <2> QED
    BY <1>2, <1>5, <2>1, <2>4
<1>6. CASE ~placed
  <2>1. m \in finds
    BY <1>1, <1>3, <1>4
  <2>2. \A i \in finds : i = m
    <3> TAKE i \in finds
    <3>1. i \in a .. b - length /\ Slice(t, i, i + length) = c.old
      OBVIOUS
    <3>2. i \in a .. b /\ i + length <= b
      BY <1>1, <1>3, <3>1
    <3>3. Stands(t, s, c, i)
      BY <1>6, <3>1, <3>2 DEF Stands, a, b, length
    <3> QED
      BY <3>2, <3>3 DEF a, b
  <2>3. finds \subseteq Nat
    BY <1>3
  <2> HIDE DEF finds
  <2>4. Least(finds) = m
    BY <2>1, <2>2, <2>3, LeastProperties
  <2>5. step >= 1 /\ step \in Nat /\ m \in Nat
    BY <1>1, <2>1, <2>3
  <2>6. single
    <3> HIDE DEF step
    <3>1. ~\E i \in finds : i >= m + step
      BY <2>2, <2>5
    <3> QED
      BY <2>1, <2>4, <3>1
  <2> HIDE DEF single
  <2> QED
    BY <1>2, <1>6, <2>4, <2>6
<1> QED
  BY <1>5, <1>6

----------------
\* The hunks of all ranges, found inside each range and lifted to the text.
Pieces(S) == [n \in DOMAIN S |-> Lifted(ExtractDiffHunks(S[n].old, S[n].new), S[n].start)]

\* The pieces of every range are hunks.
LEMMA PiecesType ==
    ASSUME NEW C, NEW S \in Seq(Hunks(C))
    PROVE  Pieces(S) \in Seq(Str(Hunks(C))) /\ Len(Pieces(S)) = Len(S)
<1>1. Len(S) \in Nat /\ DOMAIN S = 1 .. Len(S)
  BY LenProperties
<1>2. \A n \in 1 .. Len(S) : Lifted(ExtractDiffHunks(S[n].old, S[n].new), S[n].start) \in Str(Hunks(C))
  <2> TAKE n \in 1 .. Len(S)
  <2> DEFINE o == S[n].old
             w == S[n].new
             by == S[n].start
             X == ExtractDiffHunks(o, w)
  <2>1. S[n] \in Hunks(C)
    BY ElementOfSeq
  <2>2. o \in Str(C) /\ w \in Str(C) /\ by \in Int
    BY <2>1 DEF Hunks
  <2> HIDE DEF o, w, by
  <2>3. X \in Seq(Hunks(C))
    BY <2>2, ExtractMakes
  <2> HIDE DEF X
  <2>4. Lifted(X, by) \in Seq(Hunks(C))
    BY <2>2, <2>3, LiftedIs
  <2> QED
    BY <2>4 DEF Str, X, o, w, by
<1>3. Pieces(S) \in [1 .. Len(S) -> Str(Hunks(C))]
  BY <1>1, <1>2 DEF Pieces
<1> QED
  BY <1>1, <1>3, IsASeq, LenProperties

\* What the planner of ranges returns, with its parts named.
PlanOf(t, S, H) ==
    LET u == Replaced(t, SortHunksReverse(S)).text
        preview == Replaced(t, SortHunksReverse(H))
    IN  IF /\ \A n \in 1 .. Len(S) - 1 : S[n].end <= S[n + 1].start
           /\ ValidateHunks(t, H) /\ preview.drift = 0 /\ preview.text = u
        THEN [ok |-> TRUE, hunks |-> H, expected |-> u]
        ELSE NoPlan

\* PlanRanges returns that plan for its sorted ranges and its hunks in reverse.
LEMMA PlanRangesIs ==
    ASSUME NEW C, NEW t, NEW ranges \in Seq(Hunks(C)), NEW S, S = SortHunksForward(ranges)
    PROVE  PlanRanges(t, ranges) = PlanOf(t, S, SortHunksReverse(Q!FlattenSeq(Pieces(S))))
<1>1. S \in Seq(Hunks(C)) /\ Len(S) = Len(ranges)
  BY ForwardSorts
<1>2. DOMAIN ranges = DOMAIN S
  BY <1>1, LenProperties
<1>3. [n \in DOMAIN ranges |-> Lifted(ExtractDiffHunks(S[n].old, S[n].new), S[n].start)] = Pieces(S)
  BY <1>2 DEF Pieces
<1> QED
  BY <1>3 DEF PlanRanges, PlanOf, ReplaceReverse

\* Ranges that fit, sorted, each behind the one before.
LEMMA RangesSorted ==
    ASSUME NEW C, NEW t \in Str(C), NEW ranges \in Seq(Hunks(C)),
           \A n \in 1 .. Len(ranges) : Fits(t, ranges[n]) /\ ranges[n].start < ranges[n].end,
           NEW S, S = SortHunksForward(ranges),
           \A n \in 1 .. Len(S) - 1 : S[n].end <= S[n + 1].start
    PROVE  /\ S \in Seq(Hunks(C)) /\ \E q : Rearranged(C, ranges, S, q)
           /\ \A n \in 1 .. Len(S) : Fits(t, S[n]) /\ S[n].start < S[n].end
           /\ \A m, n \in 1 .. Len(S) : m < n => S[m].end <= S[n].start /\ S[m].start < S[n].start
           /\ SortHunksReverse(S) = Q!Reverse(S)
           /\ \E u : Makes(C, t, S, 0, Len(t), u, 0)
<1>1. PICK q : Rearranged(C, ranges, S, q)
  BY ForwardSorts
<1>2. /\ S \in Seq(Hunks(C)) /\ Len(S) = Len(ranges) /\ q \in [1 .. Len(ranges) -> 1 .. Len(ranges)]
      /\ \A n \in 1 .. Len(S) : S[n] = ranges[q[n]]
  BY <1>1 DEF Rearranged, Permutes
<1>3. \A n \in 1 .. Len(S) : Fits(t, S[n]) /\ S[n].start < S[n].end /\ S[n] \in Hunks(C)
  <2>1. \A n \in 1 .. Len(S) : S[n] \in Hunks(C)
    BY <1>2, ElementOfSeq
  <2> QED
    BY <1>2, <2>1
<1>4. /\ \A m, n \in 1 .. Len(S) : m < n => S[m].end <= S[n].start
      /\ \E u : Makes(C, t, S, 0, Len(t), u, 0)
  <2>1. \A n \in 1 .. Len(S) : Fits(t, S[n])
    BY <1>3
  <2> QED
    BY <1>2, <2>1, Chain
<1>5. \A m, n \in 1 .. Len(S) : m < n => S[m].start < S[n].start
  <2> SUFFICES ASSUME NEW m \in 1 .. Len(S), NEW n \in 1 .. Len(S), m < n
               PROVE  S[m].start < S[n].start
    OBVIOUS
  <2> DEFINE a == S[m].start
             b == S[m].end
             c == S[n].start
  <2>1. a \in Int /\ b \in Int /\ c \in Int
    BY <1>3 DEF Hunks
  <2>2. a < b /\ b <= c
    BY <1>3, <1>4
  <2> HIDE DEF a, b, c
  <2>3. a < c
    BY <2>1, <2>2
  <2> QED
    BY <2>3 DEF a, c
<1>6. SortHunksReverse(S) = Q!Reverse(S)
  BY <1>2, <1>5, SortsOfAscending
<1> QED
  BY <1>1, <1>2, <1>3, <1>4, <1>5, <1>6

\* A plan that was made: its hunks are ready to be applied, and make of the text
\* what the ranges make of it.
PlansFor(C, t, ranges, p, S, q, u) ==
    /\ S \in Seq(Hunks(C)) /\ Rearranged(C, ranges, S, q)
    /\ \A n \in 1 .. Len(S) : S[n].start < S[n].end
    /\ Makes(C, t, S, 0, Len(t), u, 0)
    /\ u \in Str(C) /\ p.expected = u
    /\ p.hunks \in Seq(Hunks(C)) /\ Ready(t, p.hunks)
    /\ Replaced(t, p.hunks) = [text |-> u, drift |-> 0]

\* Ranges that fit, when a plan is made of them, are sorted, apart, and replaced by its hunks.
LEMMA RangesPlanned ==
    ASSUME NEW C, NEW t \in Str(C), NEW ranges \in Seq(Hunks(C)),
           \A n \in 1 .. Len(ranges) : Fits(t, ranges[n]) /\ ranges[n].start < ranges[n].end,
           NEW p, p = PlanRanges(t, ranges), p.ok
    PROVE  \E S, q, u : PlansFor(C, t, ranges, p, S, q, u)
<1> DEFINE S == SortHunksForward(ranges)
           F == Q!FlattenSeq(Pieces(S))
           H == SortHunksReverse(F)
           expected == Replaced(t, SortHunksReverse(S)).text
           preview == Replaced(t, SortHunksReverse(H))
           accepted == /\ \A n \in 1 .. Len(S) - 1 : S[n].end <= S[n + 1].start
                       /\ ValidateHunks(t, H) /\ preview.drift = 0 /\ preview.text = expected
<1>1. p = PlanOf(t, S, H)
  <2> HIDE DEF S
  <2> QED
    BY PlanRangesIs DEF S
<1> HIDE DEF S, H
<1>2. accepted /\ p = [ok |-> TRUE, hunks |-> H, expected |-> expected]
  <2>1. p = IF accepted THEN [ok |-> TRUE, hunks |-> H, expected |-> expected] ELSE NoPlan
    BY <1>1 DEF PlanOf
  <2>2. ~NoPlan.ok
    BY DEF NoPlan
  <2> HIDE DEF accepted, expected
  <2> QED
    BY <2>1, <2>2
<1>3. /\ S \in Seq(Hunks(C)) /\ \E q : Rearranged(C, ranges, S, q)
      /\ \A n \in 1 .. Len(S) : Fits(t, S[n]) /\ S[n].start < S[n].end
      /\ SortHunksReverse(S) = Q!Reverse(S)
      /\ \E u : Makes(C, t, S, 0, Len(t), u, 0)
  BY <1>2, RangesSorted DEF S
<1>4. PICK u : Makes(C, t, S, 0, Len(t), u, 0)
  BY <1>3
<1>5. PICK q : Rearranged(C, ranges, S, q)
  BY <1>3
<1>6. u \in Str(C)
  BY <1>3, <1>4, MakesText
<1>7. expected = u
  <2>1. PICK gap \in Nat : gap = 0
    OBVIOUS
  <2>2. Makes(C, t, S, 0, Len(t), u, gap)
    BY <1>4, <2>1
  <2>3. Replaced(t, Q!Reverse(S)) = [text |-> u, drift |-> 0]
    BY <1>3, <2>2, MakesBack
  <2> QED
    BY <1>3, <2>3
<1>8. F \in Seq(Hunks(C))
  <2> DEFINE ss == Pieces(S)
  <2>1. ss \in Seq(Str(Hunks(C)))
    BY <1>3, PiecesType
  <2> HIDE DEF ss
  <2>2. Q!FlattenSeq(ss) \in Str(Hunks(C))
    BY <2>1, FlattenType
  <2> QED
    BY <2>2 DEF Str, ss
<1>9. H \in Seq(Hunks(C)) /\ \A m, n \in 1 .. Len(H) : m < n => ~Ahead(H[m], H[n])
  <2> HIDE DEF F
  <2>1. /\ H \in Seq(Hunks(C)) /\ Len(H) = Len(F)
        /\ \A m, n \in 1 .. Len(F) : m < n => ~Ahead(H[m], H[n])
    BY <1>8, ReverseSorts DEF H
  <2> QED
    BY <2>1
<1>10. Ready(t, H)
  <2>1. ValidateHunks(t, H)
    BY <1>2
  <2>2. \A m, n \in 1 .. Len(H) : m < n => H[n].end <= H[m].start
    BY <1>9, <2>1, Downward
  <2>3. \A n \in 1 .. Len(H) : Fits(t, H[n])
    BY <1>9, <2>1, LenProperties DEF ValidateHunks
  <2> QED
    BY <2>2, <2>3 DEF Ready
<1>11. Replaced(t, H) = [text |-> u, drift |-> 0]
  <2>1. SortHunksReverse(H) = H
    BY <1>9, ReverseAgain
  <2>2. preview \in Results(C)
    BY <1>9, <2>1, ReplacedType
  <2> DEFINE r == Replaced(t, H)
  <2>3. r.drift = 0 /\ r.text = u /\ r \in Results(C)
    BY <1>2, <1>7, <2>1, <2>2
  <2> HIDE DEF r
  <2>4. r = [text |-> u, drift |-> 0]
    BY <2>3 DEF Results
  <2> QED
    BY <2>4 DEF r
<1>12. p.expected = u /\ p.hunks = H
  BY <1>2, <1>7
<1>13. PlansFor(C, t, ranges, p, S, q, u)
  BY <1>3, <1>4, <1>5, <1>6, <1>9, <1>10, <1>11, <1>12 DEF PlansFor
<1> QED
  BY <1>13

----------------
\* Hunks that make a text and do not touch, the last first, are a valid command
\* that delivers it.
LEMMA BackwardsValid ==
    ASSUME NEW C, NEW t \in Str(C), NEW F \in Seq(Hunks(C)), NEW u, Makes(C, t, F, 0, Len(t), u, 1),
           NEW H, H = SortHunksReverse(F)
    PROVE  /\ ValidateHunks(t, H)
           /\ Replaced(t, SortHunksReverse(H)) = [text |-> u, drift |-> 0]
<1>1. PICK gap \in Nat : gap = 1
  OBVIOUS
<1>2. Makes(C, t, F, 0, Len(t), u, gap)
  BY <1>1
<1>3. /\ \A n \in 1 .. Len(F) : Fits(t, F[n]) /\ F[n] \in Hunks(C)
      /\ \A m, n \in 1 .. Len(F) : m < n => F[m].end + gap <= F[n].start
  <2>1. /\ \A n \in 1 .. Len(F) : Fits(t, F[n])
        /\ \A m, n \in 1 .. Len(F) : m < n => F[m].end + gap <= F[n].start
    BY <1>2, MakesSpan
  <2> QED
    BY <2>1, ElementOfSeq
<1>4. \A m, n \in 1 .. Len(F) : m < n => F[m].start < F[n].start /\ F[m].end <= F[n].start
  <2> SUFFICES ASSUME NEW m \in 1 .. Len(F), NEW n \in 1 .. Len(F), m < n
               PROVE  F[m].start < F[n].start /\ F[m].end <= F[n].start
    OBVIOUS
  <2> DEFINE a == F[m].start
             b == F[m].end
             c == F[n].start
  <2>1. a \in Int /\ b \in Int /\ c \in Int
    BY <1>3 DEF Hunks
  <2>2. a <= b /\ b + gap <= c
    BY <1>3 DEF Fits, InBounds
  <2> HIDE DEF a, b, c
  <2>3. a < c /\ b <= c
    BY <1>1, <2>1, <2>2
  <2> QED
    BY <2>3 DEF a, b, c
<1>5. /\ H = Q!Reverse(F) /\ SortHunksForward(H) = F /\ SortHunksReverse(H) = H
  <2>1. /\ SortHunksReverse(F) = Q!Reverse(F)
        /\ SortHunksForward(Q!Reverse(F)) = F /\ SortHunksReverse(Q!Reverse(F)) = Q!Reverse(F)
    BY <1>4, SortsOfAscending
  <2> QED
    BY <2>1
<1>6. Replaced(t, SortHunksReverse(H)) = [text |-> u, drift |-> 0]
  BY <1>2, <1>5, MakesBack
<1>7. \A n \in DOMAIN H : Fits(t, H[n])
  <2>1. /\ H \in Seq(Hunks(C)) /\ Len(H) = Len(F)
        /\ \A i \in 1 .. Len(F) : H[i] = F[(Len(F) - i) + 1]
    BY <1>5, ReverseIs
  <2>2. Len(F) \in Nat /\ DOMAIN H = 1 .. Len(F)
    BY <2>1, LenProperties
  <2>3. \A i \in 1 .. Len(F) : (Len(F) - i) + 1 \in 1 .. Len(F)
    BY <2>2
  <2> QED
    BY <1>3, <2>1, <2>2, <2>3
<1>8. Disjoint(H)
  <2>1. \A n \in 1 .. Len(F) - 1 : F[n].end <= F[n + 1].start
    <3> TAKE n \in 1 .. Len(F) - 1
    <3>1. Len(F) \in Nat
      BY LenProperties
    <3>2. n \in 1 .. Len(F) /\ n + 1 \in 1 .. Len(F) /\ n < n + 1
      BY <3>1
    <3> QED
      BY <1>4, <3>2
  <2> QED
    BY <1>5, <2>1 DEF Disjoint
<1> QED
  BY <1>6, <1>7, <1>8 DEF ValidateHunks

\* Ranges that fit and do not touch are not refused.
LEMMA RangesNotRefused ==
    ASSUME NEW C, NEW t \in Str(C), NEW ranges \in Seq(Hunks(C)),
           \A n \in 1 .. Len(ranges) : Fits(t, ranges[n]) /\ ranges[n].start < ranges[n].end,
           \A m, n \in 1 .. Len(ranges) :
              m # n => \/ ranges[m].end + 1 <= ranges[n].start
                       \/ ranges[n].end + 1 <= ranges[m].start
    PROVE  PlanRanges(t, ranges).ok
<1> DEFINE S == SortHunksForward(ranges)
           F == Q!FlattenSeq(Pieces(S))
           H == SortHunksReverse(F)
           expected == Replaced(t, SortHunksReverse(S)).text
           preview == Replaced(t, SortHunksReverse(H))
           accepted == /\ \A n \in 1 .. Len(S) - 1 : S[n].end <= S[n + 1].start
                       /\ ValidateHunks(t, H) /\ preview.drift = 0 /\ preview.text = expected
<1>1. PlanRanges(t, ranges) = PlanOf(t, S, H)
  <2> HIDE DEF S
  <2> QED
    BY PlanRangesIs DEF S
<1> HIDE DEF S, H, F
<1>2. /\ S \in Seq(Hunks(C)) /\ Len(S) = Len(ranges) /\ \E q : Rearranged(C, ranges, S, q)
      /\ \A m, n \in 1 .. Len(ranges) : m < n => ~Ahead(S[n], S[m])
  BY ForwardSorts DEF S
<1>3. PICK q : Rearranged(C, ranges, S, q)
  BY <1>2
<1>4. /\ q \in [1 .. Len(ranges) -> 1 .. Len(ranges)]
      /\ \A m, n \in 1 .. Len(S) : m < n => q[m] # q[n]
      /\ \A n \in 1 .. Len(S) : S[n] = ranges[q[n]]
  BY <1>2, <1>3 DEF Rearranged, Permutes
<1>5. \A n \in 1 .. Len(S) : Fits(t, S[n]) /\ S[n].start < S[n].end /\ S[n] \in Hunks(C)
  <2>1. \A n \in 1 .. Len(S) : S[n] \in Hunks(C)
    BY <1>2, ElementOfSeq
  <2> QED
    BY <1>2, <1>4, <2>1
<1>6. Len(S) \in Nat
  BY <1>2, LenProperties
<1>7. \A n \in 1 .. Len(S) - 1 : S[n].end + 1 <= S[n + 1].start /\ S[n].end <= S[n + 1].start
  <2> TAKE n \in 1 .. Len(S) - 1
  <2>1. n \in 1 .. Len(S) /\ n + 1 \in 1 .. Len(S) /\ n < n + 1
    BY <1>6
  <2> DEFINE g == S[n]
             h == S[n + 1]
  <2>2. /\ g \in Hunks(C) /\ h \in Hunks(C) /\ g.start < g.end /\ h.start < h.end /\ ~Ahead(h, g)
    BY <1>2, <1>5, <2>1
  <2>3. g.end + 1 <= h.start \/ h.end + 1 <= g.start
    <3>1. /\ q[n] \in 1 .. Len(ranges) /\ q[n + 1] \in 1 .. Len(ranges) /\ q[n] # q[n + 1]
          /\ g = ranges[q[n]] /\ h = ranges[q[n + 1]]
      BY <1>2, <1>4, <2>1
    <3> HIDE DEF g, h
    <3> QED
      BY <3>1
  <2> HIDE DEF g, h
  <2> DEFINE a == g.start
             b == g.end
             c == h.start
             d == h.end
  <2>4. a \in Int /\ b \in Int /\ c \in Int /\ d \in Int
    BY <2>2 DEF Hunks
  <2>5. a < b /\ c < d /\ ~(c < a) /\ (b + 1 <= c \/ d + 1 <= a)
    BY <2>2, <2>3 DEF Ahead
  <2> HIDE DEF a, b, c, d
  <2>6. b + 1 <= c /\ b <= c
    BY <2>4, <2>5
  <2> QED
    BY <2>6 DEF b, c, g, h
<1>8. \E u : Makes(C, t, S, 0, Len(t), u, 1)
  <2>1. PICK gap \in Nat : gap = 1
    OBVIOUS
  <2>2. \A n \in 1 .. Len(S) : n > 1 => S[n - 1].end + gap <= S[n].start
    <3> SUFFICES ASSUME NEW n \in 1 .. Len(S), n > 1
                 PROVE  S[n - 1].end + gap <= S[n].start
      OBVIOUS
    <3>1. n - 1 \in 1 .. Len(S) - 1 /\ (n - 1) + 1 = n
      BY <1>6
    <3> QED
      BY <1>7, <2>1, <3>1
  <2>3. \A n \in 1 .. Len(S) : Fits(t, S[n])
    BY <1>5
  <2>4. \E u : Makes(C, t, S, 0, Len(t), u, gap)
    BY <1>2, <2>2, <2>3, MakesExists
  <2> QED
    BY <2>1, <2>4
<1>9. PICK u : Makes(C, t, S, 0, Len(t), u, 1)
  BY <1>8
<1>10. F \in Seq(Hunks(C)) /\ Makes(C, t, F, 0, Len(t), u, 1)
  <2> DEFINE X == [n \in 1 .. Len(S) |-> ExtractDiffHunks(S[n].old, S[n].new)]
             ss == Pieces(S)
  <2>1. \A n \in 1 .. Len(S) :
           /\ ExtractDiffHunks(S[n].old, S[n].new) \in Str(Hunks(C))
           /\ Makes(C, S[n].old, X[n], 0, Len(S[n].old), S[n].new, 1)
    <3> TAKE n \in 1 .. Len(S)
    <3> DEFINE o == S[n].old
               w == S[n].new
    <3>1. o \in Str(C) /\ w \in Str(C)
      BY <1>5 DEF Hunks
    <3>2. X[n] = ExtractDiffHunks(o, w)
      OBVIOUS
    <3> HIDE DEF o, w
    <3>3. /\ ExtractDiffHunks(o, w) \in Seq(Hunks(C))
          /\ Makes(C, o, ExtractDiffHunks(o, w), 0, Len(o), w, 1)
      BY <3>1, ExtractMakes
    <3> HIDE DEF X
    <3>4. ExtractDiffHunks(o, w) \in Str(Hunks(C)) /\ Makes(C, o, X[n], 0, Len(o), w, 1)
      BY <3>2, <3>3 DEF Str
    <3> QED
      BY <3>4 DEF o, w
  <2>2. X \in [1 .. Len(S) -> Str(Hunks(C))]
    BY <2>1
  <2>3. ss \in Seq(Str(Hunks(C))) /\ Len(ss) = Len(S)
    BY <1>2, PiecesType
  <2>4. \A n \in 1 .. Len(S) : ss[n] = Lifted(X[n], S[n].start)
    BY <1>2, LenProperties DEF Pieces
  <2>5. \A n \in 1 .. Len(S) : Makes(C, S[n].old, X[n], 0, Len(S[n].old), S[n].new, 1)
    BY <2>1
  <2> HIDE DEF X, ss
  <2>6. Makes(C, t, Q!FlattenSeq(ss), 0, Len(t), u, 1)
    BY <1>2, <1>9, <2>2, <2>3, <2>4, <2>5, MakesFlatten
  <2>7. Q!FlattenSeq(ss) \in Str(Hunks(C))
    BY <2>3, FlattenType
  <2> QED
    BY <2>6, <2>7 DEF F, ss, Str
<1>11. ValidateHunks(t, H) /\ preview = [text |-> u, drift |-> 0]
  BY <1>10, BackwardsValid DEF H
<1>12. expected = u
  <2>1. SortHunksReverse(S) = Q!Reverse(S)
    <3>1. \A n \in 1 .. Len(S) - 1 : S[n].end <= S[n + 1].start
      BY <1>7
    <3> QED
      BY <3>1, RangesSorted DEF S
  <2>2. PICK gap \in Nat : gap = 1
    OBVIOUS
  <2>3. Makes(C, t, S, 0, Len(t), u, gap)
    BY <1>9, <2>2
  <2>4. Replaced(t, Q!Reverse(S)) = [text |-> u, drift |-> 0]
    BY <1>2, <2>3, MakesBack
  <2> QED
    BY <2>1, <2>4
<1>13. accepted
  BY <1>7, <1>11, <1>12
<1>14. PlanOf(t, S, H) = [ok |-> TRUE, hunks |-> H, expected |-> expected]
  BY <1>13 DEF PlanOf
<1> QED
  BY <1>1, <1>14

----------------
\* The ranges of cards that were found.
RangesOf(cards, at) ==
    [n \in DOMAIN cards |-> Hunk(at[n], at[n] + Len(cards[n].old), cards[n].old, cards[n].new)]

\* The ranges of cards that were found fit the text.
LEMMA RangesOfFit ==
    ASSUME NEW C, NEW t \in Str(C), NEW s, s.start \in Nat, s.end \in 0 .. Len(t), s.start < s.end,
           NEW cards \in Seq(Hunks(C)), NEW at,
           \A n \in 1 .. Len(cards) : FoundAt(t, s, cards[n], at[n])
    PROVE  /\ RangesOf(cards, at) \in Seq(Hunks(C)) /\ Len(RangesOf(cards, at)) = Len(cards)
           /\ \A n \in 1 .. Len(cards) :
               LET r == RangesOf(cards, at)[n]
               IN  /\ r.start = at[n] /\ r.end = at[n] + Len(cards[n].old)
                   /\ r.old = cards[n].old /\ r.new = cards[n].new
                   /\ Fits(t, r) /\ r.start < r.end
<1>1. Len(t) \in Nat /\ Len(cards) \in Nat /\ DOMAIN cards = 1 .. Len(cards)
  BY StrProperties, LenProperties
<1> DEFINE R(n) == Hunk(at[n], at[n] + Len(cards[n].old), cards[n].old, cards[n].new)
<1>2. ASSUME NEW n \in 1 .. Len(cards)
      PROVE  /\ R(n) \in Hunks(C)
             /\ R(n).start = at[n] /\ R(n).end = at[n] + Len(cards[n].old)
             /\ R(n).old = cards[n].old /\ R(n).new = cards[n].new
             /\ Fits(t, R(n)) /\ R(n).start < R(n).end
  <2> DEFINE c == cards[n]
             m == at[n]
             l == Len(c.old)
  <2>1. c \in Hunks(C)
    BY ElementOfSeq
  <2>2. FoundAt(t, s, c, m)
    OBVIOUS
  <2> HIDE DEF c, m
  <2>3. m \in Nat /\ l \in Nat \ {0} /\ m + l <= s.end /\ Slice(t, m, m + l) = c.old
    BY <2>2 DEF FoundAt, Stands
  <2>4. c.old \in Str(C) /\ c.new \in Str(C)
    BY <2>1 DEF Hunks
  <2> HIDE DEF l
  <2>5. m + l \in Int /\ m \in Int /\ 0 <= m /\ m <= m + l /\ m + l <= Len(t) /\ m < m + l
    BY <1>1, <2>3
  <2> DEFINE r == Hunk(m, m + l, c.old, c.new)
  <2>6. r.start = m /\ r.end = m + l /\ r.old = c.old /\ r.new = c.new /\ r \in Hunks(C)
    BY <2>4, <2>5 DEF Hunk, Hunks
  <2> HIDE DEF r
  <2>7. Fits(t, r) /\ r.start < r.end
    BY <2>3, <2>5, <2>6 DEF Fits, InBounds
  <2> QED
    BY <2>6, <2>7 DEF r, c, m, l
<1>3. RangesOf(cards, at) = [n \in 1 .. Len(cards) |-> R(n)]
  BY <1>1 DEF RangesOf
<1> HIDE DEF R
<1>4. RangesOf(cards, at) \in [1 .. Len(cards) -> Hunks(C)]
  BY <1>2, <1>3
<1>5. RangesOf(cards, at) \in Seq(Hunks(C)) /\ Len(RangesOf(cards, at)) = Len(cards)
  BY <1>1, <1>4, IsASeq, LenProperties
<1> QED
  BY <1>2, <1>3, <1>5

\* A group that was planned: every card stands at one place of the sentence and
\* the plan is that of the ranges there.
GroupPlan(C, t, segment, cards, p, at, S, q, u) ==
    /\ segment \in DOMAIN SplitIntoSentences(t)
    /\ at \in [1 .. Len(cards) -> Nat]
    /\ \A n \in 1 .. Len(cards) : FoundAt(t, SplitIntoSentences(t)[segment], cards[n], at[n])
    /\ PlansFor(C, t, RangesOf(cards, at), p, S, q, u)

\* A command that was planned (planSentenceGroupReplacement) found every card at one place,
\* and its plan is the one for the ranges there.
LEMMA GroupPlanned ==
    ASSUME NEW C, NEW t \in Str(C), NEW segment, NEW cards \in Seq(Hunks(C)),
           \A n \in 1 .. Len(cards) :
              cards[n].old = <<>> => cards[n].start = Unplaced /\ cards[n].end = Unplaced,
           NEW p, p = PlanSentenceGroupReplacement(t, segment, cards), p.ok
    PROVE  \E at, S, q, u : GroupPlan(C, t, segment, cards, p, at, S, q, u)
<1> DEFINE s == SplitIntoSentences(t)[segment]
           places(n) == CardPlaces(t, s, cards[n])
           at == [n \in 1 .. Len(cards) |-> Least(places(n))]
           refused == segment \notin DOMAIN SplitIntoSentences(t) \/ \E n \in DOMAIN cards : places(n) = {}
           ranges == [n \in DOMAIN cards |->
                        LET a == Least(places(n))
                        IN  Hunk(a, a + Len(cards[n].old), cards[n].old, cards[n].new)]
<1>1. DOMAIN cards = 1 .. Len(cards)
  BY LenProperties
<1>2. p = IF refused THEN NoPlan ELSE PlanRanges(t, ranges)
  BY DEF PlanSentenceGroupReplacement
<1>3. ~refused /\ p = PlanRanges(t, ranges)
  <2>1. ~NoPlan.ok
    BY DEF NoPlan
  <2> HIDE DEF refused, ranges
  <2> QED
    BY <1>2, <2>1
<1>4. ranges = RangesOf(cards, at)
  BY <1>1 DEF RangesOf
<1>5. segment \in DOMAIN SplitIntoSentences(t)
  BY <1>3
<1>6. s.start \in Nat /\ s.end \in 0 .. Len(t) /\ s.start < s.end
  BY <1>5, SentenceIs
<1>7. \A n \in 1 .. Len(cards) : FoundAt(t, s, cards[n], at[n]) /\ at[n] \in Nat
  <2> TAKE n \in 1 .. Len(cards)
  <2> DEFINE c == cards[n]
             P == CardPlaces(t, s, c)
  <2>1. P # {} /\ at[n] = Least(P)
    BY <1>1, <1>3
  <2>2. c \in Hunks(C)
    BY ElementOfSeq
  <2>3. c.old = <<>> => c.start = Unplaced /\ c.end = Unplaced
    OBVIOUS
  <2>4. PICK m \in P : TRUE
    BY <2>1
  <2> HIDE DEF s, c
  <2>5. FoundAt(t, s, c, m)
    BY <1>6, <2>2, <2>3, <2>4, PlaceIs
  <2>6. P = {m} /\ m \in Nat
    BY <2>5 DEF FoundAt
  <2>7. Least(P) = m
    BY <2>6, LeastProperties
  <2> QED
    BY <2>1, <2>5, <2>6, <2>7 DEF c
<1>8. at \in [1 .. Len(cards) -> Nat]
  BY <1>7
<1> HIDE DEF s, at
<1>9. /\ RangesOf(cards, at) \in Seq(Hunks(C)) /\ Len(RangesOf(cards, at)) = Len(cards)
      /\ \A n \in 1 .. Len(cards) : /\ Fits(t, RangesOf(cards, at)[n])
                                    /\ RangesOf(cards, at)[n].start < RangesOf(cards, at)[n].end
  BY <1>6, <1>7, RangesOfFit
<1> DEFINE R == RangesOf(cards, at)
<1>10. /\ R \in Seq(Hunks(C)) /\ p = PlanRanges(t, R)
       /\ \A n \in 1 .. Len(R) : Fits(t, R[n]) /\ R[n].start < R[n].end
  BY <1>3, <1>4, <1>9
<1> HIDE DEF R
<1>11. PICK S, q, u : PlansFor(C, t, R, p, S, q, u)
  BY <1>10, RangesPlanned
<1>12. GroupPlan(C, t, segment, cards, p, at, S, q, u)
  BY <1>5, <1>7, <1>8, <1>11 DEF GroupPlan, R, s
<1> QED
  BY <1>12

----------------
\* The text written out for cards at their places (Written).
Begins(cards, f, i) == {n \in DOMAIN cards : f[n] = i}
Covered(cards, f, i) == \E n \in DOMAIN cards : f[n] <= i /\ i < f[n] + Len(cards[n].old)
Letters(t, cards, f) ==
    [j \in 1 .. Len(t) |->
        (IF Begins(cards, f, j - 1) = {} THEN <<>> ELSE cards[Least(Begins(cards, f, j - 1))].new)
        \o (IF Covered(cards, f, j - 1) THEN <<>> ELSE <<t[j]>>)]

\* Letters gives a text for every place of the text.
LEMMA LettersType ==
    ASSUME NEW C, NEW t \in Str(C), NEW cards \in Seq(Hunks(C)), NEW f
    PROVE  Letters(t, cards, f) \in Seq(Str(C)) /\ Len(Letters(t, cards, f)) = Len(t)
<1>1. Len(t) \in Nat /\ DOMAIN cards = 1 .. Len(cards) /\ Len(cards) \in Nat
  BY StrProperties, LenProperties
<1>2. ASSUME NEW j \in 1 .. Len(t)
      PROVE  Letters(t, cards, f)[j] \in Str(C)
  <2> DEFINE B == Begins(cards, f, j - 1)
             a == IF B = {} THEN <<>> ELSE cards[Least(B)].new
             b == IF Covered(cards, f, j - 1) THEN <<>> ELSE <<t[j]>>
  <2>1. a \in Str(C)
    <3>1. CASE B = {}
      BY <3>1, StrProperties
    <3>2. CASE B # {}
      <4>1. B \subseteq 1 .. Len(cards) /\ B \subseteq Nat
        BY <1>1 DEF Begins
      <4> HIDE DEF B
      <4>2. Least(B) \in 1 .. Len(cards)
        BY <3>2, <4>1, LeastProperties
      <4>3. cards[Least(B)] \in Hunks(C)
        BY <4>2, ElementOfSeq
      <4> QED
        BY <3>2, <4>3 DEF Hunks
    <3> QED
      BY <3>1, <3>2
  <2>2. b \in Str(C)
    <3>1. t[j] \in C
      BY StrProperties
    <3>2. <<t[j]>> \in Str(C)
      BY <3>1 DEF Str
    <3> QED
      BY <3>2, StrProperties
  <2>3. Letters(t, cards, f)[j] = a \o b
    BY DEF Letters
  <2> HIDE DEF a, b
  <2> QED
    BY <2>1, <2>2, <2>3, StrConcat
<1>3. Letters(t, cards, f) \in [1 .. Len(t) -> Str(C)]
  BY <1>2 DEF Letters
<1> QED
  BY <1>1, <1>3, IsASeq, LenProperties

\* What is written at a place where the card k begins, inside it, and outside of all.
LEMMA LetterIs ==
    ASSUME NEW C, NEW t \in Str(C), NEW cards \in Seq(Hunks(C)), NEW f, NEW x \in 0 .. Len(t) - 1
    PROVE  /\ \A k \in 1 .. Len(cards) :
                Begins(cards, f, x) = {k} /\ Covered(cards, f, x) =>
                    Letters(t, cards, f)[x + 1] = cards[k].new
           /\ Begins(cards, f, x) = {} /\ Covered(cards, f, x) => Letters(t, cards, f)[x + 1] = <<>>
           /\ Begins(cards, f, x) = {} /\ ~Covered(cards, f, x) =>
                    Letters(t, cards, f)[x + 1] = <<t[x + 1]>>
<1> DEFINE B == Begins(cards, f, x)
           a == IF B = {} THEN <<>> ELSE cards[Least(B)].new
           b == IF Covered(cards, f, x) THEN <<>> ELSE <<t[x + 1]>>
<1>1. Len(t) \in Nat /\ Len(cards) \in Nat
  BY StrProperties, LenProperties
<1>2. x + 1 \in 1 .. Len(t) /\ (x + 1) - 1 = x
  BY <1>1
<1>3. Letters(t, cards, f)[x + 1] = a \o b
  BY <1>2 DEF Letters
<1>4. \A s \in Str(C) : s \o <<>> = s /\ <<>> \o s = s
  BY StrConcat
<1>5. <<>> \in Str(C) /\ <<t[x + 1]>> \in Str(C)
  <2>1. t[x + 1] \in C
    BY <1>2, StrProperties
  <2> QED
    BY <2>1, StrProperties DEF Str
<1>6. ASSUME NEW k \in 1 .. Len(cards), B = {k}, Covered(cards, f, x)
      PROVE  Letters(t, cards, f)[x + 1] = cards[k].new
  <2>1. Least({k}) = k
    BY <1>1, LeastProperties, SMTT(60)
  <2>2. cards[k].new \in Str(C)
    <3>1. cards[k] \in Hunks(C)
      BY ElementOfSeq
    <3> QED
      BY <3>1 DEF Hunks
  <2>3. a = cards[k].new /\ b = <<>>
    BY <1>6, <2>1
  <2> HIDE DEF a, b
  <2> QED
    BY <1>3, <1>4, <2>2, <2>3
<1>7. ASSUME B = {}, Covered(cards, f, x)
      PROVE  Letters(t, cards, f)[x + 1] = <<>>
  <2>1. a = <<>> /\ b = <<>>
    BY <1>7
  <2> HIDE DEF a, b
  <2> QED
    BY <1>3, <1>4, <1>5, <2>1
<1>8. ASSUME B = {}, ~Covered(cards, f, x)
      PROVE  Letters(t, cards, f)[x + 1] = <<t[x + 1]>>
  <2>1. a = <<>> /\ b = <<t[x + 1]>>
    BY <1>8
  <2> HIDE DEF a, b
  <2> QED
    BY <1>3, <1>4, <1>5, <2>1
<1> QED
  BY <1>6, <1>7, <1>8

\* Ranges of cards of which none reaches into another are, sorted, what is written.
CardsApart(cards, f, gap) ==
    \A m, n \in DOMAIN cards :
        m # n => \/ f[m] + Len(cards[m].old) + gap <= f[n]
                 \/ f[n] + Len(cards[n].old) + gap <= f[m]
Laid(C, cards, f, S, q) ==
    /\ Permutes(Len(cards), q) /\ S \in Seq(Hunks(C)) /\ Len(S) = Len(cards)
    /\ \A k \in 1 .. Len(cards) : f[k] \in Nat /\ Len(cards[k].old) \in Nat \ {0}
    /\ \A n \in 1 .. Len(S) : /\ S[n].start = f[q[n]]
                              /\ S[n].end = f[q[n]] + Len(cards[q[n]].old)
                              /\ S[n].new = cards[q[n]].new

\* Ranges of which none reaches into the next are those of cards apart.
LEMMA LaidApart ==
    ASSUME NEW C, NEW cards \in Seq(Hunks(C)), NEW f, NEW S, NEW q, Laid(C, cards, f, S, q),
           \A m, n \in 1 .. Len(S) : m < n => S[m].end <= S[n].start
    PROVE  CardsApart(cards, f, 0)
<1>1. DOMAIN cards = 1 .. Len(cards) /\ Len(cards) \in Nat
  BY LenProperties
<1> SUFFICES ASSUME NEW i \in 1 .. Len(cards), NEW j \in 1 .. Len(cards), i # j
             PROVE  \/ f[i] + Len(cards[i].old) + 0 <= f[j]
                    \/ f[j] + Len(cards[j].old) + 0 <= f[i]
  BY <1>1 DEF CardsApart
<1>2. PICK m \in 1 .. Len(cards), n \in 1 .. Len(cards) : q[m] = i /\ q[n] = j
  BY DEF Laid, Permutes
<1>3. m # n
  BY <1>2
<1>4. m < n \/ n < m
  BY <1>1, <1>3
<1> DEFINE a == f[i]
           b == f[j]
           k == Len(cards[i].old)
           l == Len(cards[j].old)
<1>5. a \in Nat /\ b \in Nat /\ k \in Nat /\ l \in Nat
  BY DEF Laid
<1>6. S[m].start = a /\ S[m].end = a + k /\ S[n].start = b /\ S[n].end = b + l /\ Len(S) = Len(cards)
  BY <1>2 DEF Laid
<1>7. a + k <= b \/ b + l <= a
  BY <1>4, <1>6
<1> HIDE DEF a, b, k, l
<1>8. a + k + 0 <= b \/ b + l + 0 <= a
  BY <1>5, <1>7
<1> QED
  BY <1>8 DEF a, b, k, l

----------------

\* What ranges laid out one behind the other make of a text is what Letters writes.
LEMMA LaidWritten ==
    ASSUME NEW C, NEW t \in Str(C), NEW cards \in Seq(Hunks(C)), NEW f, NEW S, NEW q, NEW u,
           Laid(C, cards, f, S, q), Makes(C, t, S, 0, Len(t), u, 0)
    PROVE  Q!FlattenSeq(Letters(t, cards, f)) = u /\ CardsApart(cards, f, 0)
<1> DEFINE W == Letters(t, cards, f)
           L(k) == Len(cards[k].old)
<1>1. PICK gap \in Nat : gap = 0
  OBVIOUS
<1>2. Makes(C, t, S, 0, Len(t), u, gap)
  BY <1>1
<1>3. /\ DOMAIN cards = 1 .. Len(cards) /\ Len(cards) \in Nat /\ Len(t) \in Nat
      /\ S \in Seq(Hunks(C)) /\ Len(S) = Len(cards)
      /\ q \in [1 .. Len(cards) -> 1 .. Len(cards)]
      /\ \A k \in 1 .. Len(cards) : \E n \in 1 .. Len(cards) : q[n] = k
      /\ \A m, n \in 1 .. Len(cards) : m < n => q[m] # q[n]
      /\ \A k \in 1 .. Len(cards) : f[k] \in Nat /\ L(k) \in Nat \ {0}
      /\ \A n \in 1 .. Len(cards) : /\ S[n].start = f[q[n]]
                                    /\ S[n].end = f[q[n]] + L(q[n])
                                    /\ S[n].new = cards[q[n]].new
  BY LenProperties, StrProperties DEF Laid, Permutes
<1>30. Len(t) \in Nat
  BY StrProperties
<1>4. /\ \A n \in 1 .. Len(cards) : Fits(t, S[n])
      /\ \A m, n \in 1 .. Len(cards) : m < n => S[m].end <= S[n].start
  <2>1. /\ \A n \in 1 .. Len(S) : Fits(t, S[n])
        /\ \A m, n \in 1 .. Len(S) : m < n => S[m].end + gap <= S[n].start
    BY <1>2, <1>3, MakesSpan
  <2>2. ASSUME NEW m \in 1 .. Len(cards), NEW n \in 1 .. Len(cards), m < n
        PROVE  S[m].end <= S[n].start
    <3> DEFINE a == S[m].end
               b == S[n].start
    <3>1. S[m] \in Hunks(C) /\ S[n] \in Hunks(C)
      BY <1>3, ElementOfSeq
    <3>2. a \in Int /\ b \in Int
      BY <3>1 DEF Hunks
    <3>3. a + gap <= b
      BY <1>3, <2>1, <2>2
    <3> HIDE DEF a, b
    <3>4. a <= b
      BY <1>1, <3>2, <3>3
    <3> QED
      BY <3>4 DEF a, b
  <2> QED
    BY <1>3, <2>1, <2>2
<1>5. CardsApart(cards, f, 0)
  BY <1>3, <1>4, LaidApart
<1> HIDE DEF L
\* Two cards that stand or reach where one character is are one card.
<1>6. ASSUME NEW i \in 1 .. Len(cards), NEW j \in 1 .. Len(cards), NEW x \in Nat,
             f[i] <= x, x < f[i] + L(i), f[j] <= x, x < f[j] + L(j)
      PROVE  i = j
  <2> SUFFICES ASSUME i # j PROVE FALSE
    OBVIOUS
  <2>1. f[i] + L(i) + 0 <= f[j] \/ f[j] + L(j) + 0 <= f[i]
    BY <1>3, <1>5 DEF CardsApart, L
  <2> DEFINE a == f[i]
             b == f[j]
             k == L(i)
             l == L(j)
  <2>2. a \in Nat /\ b \in Nat /\ k \in Nat /\ l \in Nat
    BY <1>3
  <2>3. a <= x /\ x < a + k /\ b <= x /\ x < b + l /\ (a + k + 0 <= b \/ b + l + 0 <= a)
    BY <1>6, <2>1
  <2> HIDE DEF a, b, k, l
  <2> QED
    BY <2>2, <2>3
<1>7. \A x : Covered(cards, f, x) <=> \E k \in 1 .. Len(cards) : f[k] <= x /\ x < f[k] + L(k)
  BY <1>3 DEF Covered, L
<1>8. \A x : Begins(cards, f, x) = {k \in 1 .. Len(cards) : f[k] = x}
  BY <1>3 DEF Begins
<1>9. \A k \in 1 .. Len(cards) : f[k] \in Nat /\ L(k) \in Nat /\ f[k] <= f[k] /\ f[k] < f[k] + L(k)
  <2> TAKE k \in 1 .. Len(cards)
  <2>1. f[k] \in Nat /\ L(k) \in Nat \ {0}
    BY <1>3
  <2> QED
    BY <2>1
<1>10. ASSUME NEW n \in 1 .. Len(cards)
       PROVE  /\ W[S[n].start + 1] = S[n].new /\ S[n].start < S[n].end
              /\ \A x \in S[n].start + 1 .. S[n].end - 1 : W[x + 1] = <<>>
  <2> DEFINE k == q[n]
             a == f[k]
             l == L(k)
             b == a + l
  <2>1. /\ k \in 1 .. Len(cards) /\ a \in Nat /\ l \in Nat \ {0}
        /\ S[n].start = a /\ S[n].end = b /\ S[n].new = cards[k].new
    BY <1>3
  <2>2. b <= Len(t)
    BY <1>4, <2>1 DEF Fits, InBounds
  <2> HIDE DEF k
  <2>3. a <= a /\ a < b /\ a \in 0 .. Len(t) - 1 /\ b \in Nat
    <3> HIDE DEF a, l
    <3> QED
      BY <1>30, <2>1, <2>2
  <2>4. Begins(cards, f, a) = {k}
    <3>1. k \in Begins(cards, f, a)
      BY <1>8, <2>1
    <3>2. ASSUME NEW i \in Begins(cards, f, a)
          PROVE  i = k
      <4>1. i \in 1 .. Len(cards) /\ f[i] = a
        BY <1>8
      <4>2. f[i] <= a /\ a < f[i] + L(i)
        BY <1>9, <4>1
      <4> QED
        BY <1>6, <2>1, <2>3, <4>1, <4>2
    <3> HIDE DEF a
    <3> QED
      BY <3>1, <3>2
  <2>5. Covered(cards, f, a)
    BY <1>7, <2>1, <2>3
  <2>6. W[a + 1] = cards[k].new
    <3> HIDE DEF a
    <3> QED
      BY <2>1, <2>3, <2>4, <2>5, LetterIs
  <2>7. ASSUME NEW x \in a + 1 .. b - 1
        PROVE  W[x + 1] = <<>>
    <3>1. x \in 0 .. Len(t) - 1 /\ x \in Nat /\ a <= x /\ x < b /\ a # x
      <4>1. b \in Nat /\ a \in Nat
        BY <2>1, <2>3
      <4> HIDE DEF a, b
      <4> QED
        BY <1>30, <2>2, <4>1
    <3>2. Begins(cards, f, x) = {}
      <4> SUFFICES ASSUME NEW i \in Begins(cards, f, x) PROVE FALSE
        OBVIOUS
      <4>1. i \in 1 .. Len(cards) /\ f[i] = x
        BY <1>8
      <4>2. f[i] <= x /\ x < f[i] + L(i)
        BY <1>9, <4>1
      <4>3. i = k
        BY <1>6, <2>1, <3>1, <4>1, <4>2
      <4> QED
        BY <3>1, <4>1, <4>3
    <3>3. Covered(cards, f, x)
      BY <1>7, <2>1, <3>1
    <3> HIDE DEF a, b
    <3> QED
      BY <3>1, <3>2, <3>3, LetterIs
  <2> HIDE DEF a, b
  <2> QED
    BY <2>1, <2>3, <2>6, <2>7
<1>11. ASSUME NEW x \in 0 .. Len(t) - 1,
              \A n \in 1 .. Len(S) : x < S[n].start \/ S[n].end <= x
       PROVE  W[x + 1] = <<t[x + 1]>>
  <2>1. ASSUME NEW k \in 1 .. Len(cards)
        PROVE  ~(f[k] <= x /\ x < f[k] + L(k))
    <3>1. PICK n \in 1 .. Len(cards) : q[n] = k
      BY <1>3
    <3> DEFINE a == f[k]
               l == L(k)
    <3>2. S[n].start = a /\ S[n].end = a + l /\ n \in 1 .. Len(S)
      BY <1>3, <3>1
    <3>3. x < S[n].start \/ S[n].end <= x
      BY <1>11, <3>2
    <3>4. a \in Nat /\ l \in Nat
      BY <1>9
    <3> HIDE DEF a, l
    <3>5. ~(a <= x /\ x < a + l)
      <4>1. x \in Int
        BY <1>30
      <4> QED
        BY <3>2, <3>3, <3>4, <4>1
    <3> QED
      BY <3>5 DEF a, l
  <2>2. ~Covered(cards, f, x)
    BY <1>7, <2>1
  <2>3. Begins(cards, f, x) = {}
    <3> SUFFICES ASSUME NEW i \in Begins(cards, f, x) PROVE FALSE
      OBVIOUS
    <3>1. i \in 1 .. Len(cards) /\ f[i] = x
      BY <1>8
    <3>2. f[i] <= x /\ x < f[i] + L(i)
      BY <1>9, <3>1
    <3> QED
      BY <2>1, <3>1, <3>2
  <2> QED
    BY <2>2, <2>3, LetterIs
<1>12. W \in Seq(Str(C)) /\ Len(W) = Len(t)
  BY LettersType
<1> HIDE DEF W
<1>13. /\ \A n \in 1 .. Len(S) : S[n].start < S[n].end
       /\ \A n \in 1 .. Len(S) : W[S[n].start + 1] = S[n].new
       /\ \A n \in 1 .. Len(S) : \A x \in S[n].start + 1 .. S[n].end - 1 : W[x + 1] = <<>>
       /\ \A x \in 0 .. Len(t) - 1 :
            (\A n \in 1 .. Len(S) : x < S[n].start \/ S[n].end <= x) => W[x + 1] = <<t[x + 1]>>
  <2>1. \A n \in 1 .. Len(S) :
          /\ W[S[n].start + 1] = S[n].new /\ S[n].start < S[n].end
          /\ \A x \in S[n].start + 1 .. S[n].end - 1 : W[x + 1] = <<>>
    BY <1>3, <1>10
  <2>2. \A x \in 0 .. Len(t) - 1 :
            (\A n \in 1 .. Len(S) : x < S[n].start \/ S[n].end <= x) => W[x + 1] = <<t[x + 1]>>
    BY <1>11
  <2> QED
    BY <2>1, <2>2
<1>14. Q!FlattenSeq(W) = u
  <2>1. S \in Seq(Hunks(C))
    BY <1>3
  <2>2. Writes(t, S, W)
    BY <1>13 DEF Writes
  <2> QED
    BY ONLY t \in Str(C), gap \in Nat, <1>2, <1>12, <2>1, <2>2, WrittenOut
<1> QED
  BY <1>5, <1>14 DEF W

----------------
\* A group that was planned is laid out in the text as its ranges are sorted.
LEMMA GroupLaid ==
    ASSUME NEW C, NEW t \in Str(C), NEW segment, NEW cards \in Seq(Hunks(C)),
           NEW p, NEW at, NEW S, NEW q, NEW u, GroupPlan(C, t, segment, cards, p, at, S, q, u)
    PROVE  /\ Q!FlattenSeq(Letters(t, cards, at)) = u
           /\ CardsApart(cards, at, 0)
<1> DEFINE s == SplitIntoSentences(t)[segment]
           R == RangesOf(cards, at)
<1>1. /\ segment \in DOMAIN SplitIntoSentences(t)
      /\ at \in [1 .. Len(cards) -> Nat]
      /\ \A n \in 1 .. Len(cards) : FoundAt(t, s, cards[n], at[n])
      /\ PlansFor(C, t, R, p, S, q, u)
  BY DEF GroupPlan
<1>2. s.start \in Nat /\ s.end \in 0 .. Len(t) /\ s.start < s.end
  BY <1>1, SentenceIs
<1> HIDE DEF s
<1>3. /\ R \in Seq(Hunks(C)) /\ Len(R) = Len(cards)
      /\ \A n \in 1 .. Len(cards) :
           /\ R[n].start = at[n] /\ R[n].end = at[n] + Len(cards[n].old)
           /\ R[n].new = cards[n].new
  BY <1>1, <1>2, RangesOfFit
<1> HIDE DEF R
<1>4. /\ Rearranged(C, R, S, q) /\ Makes(C, t, S, 0, Len(t), u, 0)
  BY <1>1 DEF PlansFor
<1>5. /\ Permutes(Len(cards), q) /\ S \in Seq(Hunks(C)) /\ Len(S) = Len(cards)
      /\ q \in [1 .. Len(cards) -> 1 .. Len(cards)]
      /\ \A n \in 1 .. Len(S) : S[n] = R[q[n]]
  BY <1>3, <1>4 DEF Rearranged, Permutes
<1>6. \A k \in 1 .. Len(cards) : at[k] \in Nat /\ Len(cards[k].old) \in Nat \ {0}
  BY <1>1 DEF FoundAt
<1>7. \A n \in 1 .. Len(S) : /\ S[n].start = at[q[n]]
                             /\ S[n].end = at[q[n]] + Len(cards[q[n]].old)
                             /\ S[n].new = cards[q[n]].new
  BY <1>3, <1>5
<1>8. Laid(C, cards, at, S, q)
  BY <1>5, <1>6, <1>7 DEF Laid
<1> QED
  BY <1>4, <1>8, LaidWritten

\* A group that is refused leaves nothing to apply.
LEMMA PlanOrNone ==
    ASSUME NEW t, NEW segment, NEW cards, NEW p, p = PlanSentenceGroupReplacement(t, segment, cards)
    PROVE  p.ok \/ p = NoPlan
<1> DEFINE sentence == SplitIntoSentences(t)[segment]
           places(n) == CardPlaces(t, sentence, cards[n])
           ranges == [n \in DOMAIN cards |->
                        LET a == Least(places(n))
                        IN  Hunk(a, a + Len(cards[n].old), cards[n].old, cards[n].new)]
<1>1. p = NoPlan \/ p = PlanRanges(t, ranges)
  BY DEF PlanSentenceGroupReplacement
<1> HIDE DEF ranges
<1>2. PlanRanges(t, ranges).ok \/ PlanRanges(t, ranges) = NoPlan
  BY DEF PlanRanges
<1> QED
  BY <1>1, <1>2

\* The hunks still to come are typed, fit where they are and lie one below the
\* other, and applying them gives what was expected.
Counts == [drift : Nat, rich : Nat, skipped : Nat]
Applying ==
    /\ text \in Str(Characters) /\ todo \in Seq(Hunks(Characters)) /\ Ready(text, todo)
    /\ count \in Counts /\ count.drift = 0
    /\ plan.ok => Replaced(text, todo) = [text |-> plan.expected, drift |-> 0]
    /\ ~plan.ok => todo = <<>>

\* Nothing is always ready.
LEMMA ReadyNothing ==
    ASSUME NEW t
    PROVE  <<>> \in Seq(Hunks(Characters)) /\ Ready(t, <<>>)
BY DEF Ready

\* The cards of an input, as hunks.
LEMMA InputCards ==
    ASSUME NEW elements \in Paragraphs, NEW input \in Inputs(GetPlainText(elements))
    PROVE  /\ input.cards \in Seq(Hunks(Characters))
           /\ \A n \in 1 .. Len(input.cards) :
                input.cards[n].old = <<>> =>
                    input.cards[n].start = Unplaced /\ input.cards[n].end = Unplaced
<1>1. /\ input.cards \in Seq(Cards)
      /\ \A n \in DOMAIN input.cards :
           input.cards[n].old = <<>> =>
               input.cards[n].start = Unplaced /\ input.cards[n].end = Unplaced
  BY CardsType
<1>2. Cards = Hunks(Characters)
  BY DEF Cards, Hunks
<1>3. DOMAIN input.cards = 1 .. Len(input.cards)
  BY <1>1, LenProperties
<1> QED
  BY <1>1, <1>2, <1>3

\* A plan is ready to be applied to the text it was made for, and delivers what it expects.
LEMMA PlanReady ==
    ASSUME NEW elements \in Paragraphs, NEW input \in Inputs(GetPlainText(elements)),
           NEW p, p = PlanSentenceGroupReplacement(GetPlainText(elements), input.segment, input.cards)
    PROVE  /\ p.hunks \in Seq(Hunks(Characters)) /\ Ready(GetPlainText(elements), p.hunks)
           /\ p.ok => Replaced(GetPlainText(elements), p.hunks) = [text |-> p.expected, drift |-> 0]
           /\ ~p.ok => p.hunks = <<>>
<1> DEFINE t == GetPlainText(elements)
<1>1. t \in Str(Characters)
  BY ParagraphType
<1>2. p.ok \/ p = NoPlan
  BY PlanOrNone
<1>3. /\ input.cards \in Seq(Hunks(Characters))
      /\ \A n \in 1 .. Len(input.cards) :
           input.cards[n].old = <<>> =>
               input.cards[n].start = Unplaced /\ input.cards[n].end = Unplaced
  BY InputCards
<1>4. p = PlanSentenceGroupReplacement(t, input.segment, input.cards)
  OBVIOUS
<1> HIDE DEF t
<1>5. CASE p.ok
  <2> DEFINE segment == input.segment
             cards == input.cards
  <2>1. /\ cards \in Seq(Hunks(Characters))
        /\ \A n \in 1 .. Len(cards) :
             cards[n].old = <<>> => cards[n].start = Unplaced /\ cards[n].end = Unplaced
        /\ p = PlanSentenceGroupReplacement(t, segment, cards)
    BY <1>3, <1>4
  <2> HIDE DEF segment, cards
  <2>2. PICK at, S, q, u : GroupPlan(Characters, t, segment, cards, p, at, S, q, u)
    BY <1>1, <1>5, <2>1, GroupPlanned
  <2>3. PlansFor(Characters, t, RangesOf(cards, at), p, S, q, u)
    BY <2>2 DEF GroupPlan
  <2>4. /\ p.hunks \in Seq(Hunks(Characters)) /\ Ready(t, p.hunks)
        /\ Replaced(t, p.hunks) = [text |-> p.expected, drift |-> 0]
    BY <2>3 DEF PlansFor
  <2> QED
    BY <1>5, <2>4 DEF t
<1>6. CASE p = NoPlan
  <2>1. p.hunks = <<>> /\ ~p.ok
    BY <1>6 DEF NoPlan
  <2> QED
    BY <2>1, ReadyNothing
<1> QED
  BY <1>2, <1>5, <1>6

----------------

\* In every reachable state the hunks still to come can all be applied, and lead to the text
\* the plan expects.
LEMMA ApplyingHolds == Spec => []Applying
<1>1. Init => Applying
  <2> SUFFICES ASSUME Init PROVE Applying
    OBVIOUS
  <2>1. text \in Str(Characters)
    BY ParagraphType DEF Init
  <2>2. todo \in Seq(Hunks(Characters)) /\ Ready(text, todo) /\ todo = <<>>
    BY ReadyNothing DEF Init
  <2>3. count \in Counts /\ count.drift = 0 /\ ~plan.ok
    BY DEF Init, Counts, NoPlan
  <2> QED
    BY <2>1, <2>2, <2>3 DEF Applying
<1>2. Applying /\ Planned /\ [Next]_vars => Applying'
  <2> SUFFICES ASSUME Applying, Planned, [Next]_vars PROVE Applying'
    OBVIOUS
  <2>1. CASE Plan
    <3>1. PICK input \in Inputs(text) :
            /\ plan' = PlanSentenceGroupReplacement(text, input.segment, input.cards)
            /\ todo' = plan'.hunks
      BY <2>1 DEF Plan
    <3>2. text = GetPlainText(base) /\ base \in Paragraphs /\ text' = text /\ count' = count
      BY <2>1 DEF Plan, Planned
    <3>3. /\ plan'.hunks \in Seq(Hunks(Characters)) /\ Ready(text, plan'.hunks)
          /\ plan'.ok => Replaced(text, plan'.hunks) = [text |-> plan'.expected, drift |-> 0]
          /\ ~plan'.ok => plan'.hunks = <<>>
      BY <3>1, <3>2, PlanReady
    <3>4. text \in Str(Characters) /\ count \in Counts /\ count.drift = 0
      BY DEF Applying
    <3> QED
      BY <3>1, <3>2, <3>3, <3>4 DEF Applying
  <2>2. CASE ApplyNext
    <3> DEFINE h == Head(todo)
               s == Spliced(text, h.start, h.end, h.new)
               r == ApplyHunk([text |-> text, drift |-> count.drift], h)
    <3>1. /\ text \in Str(Characters) /\ todo \in Seq(Hunks(Characters)) /\ Ready(text, todo)
          /\ todo # <<>> /\ count \in Counts /\ count.drift = 0
      BY <2>2 DEF Applying, ApplyNext
    <3>2. /\ h \in Hunks(Characters) /\ Fits(text, h) /\ Tail(todo) \in Seq(Hunks(Characters))
          /\ s \in Str(Characters) /\ Ready(s, Tail(todo))
          /\ Replaced(text, todo) = Replaced(s, Tail(todo))
      BY <3>1, ReadyStep
    <3>3. r = [text |-> s, drift |-> 0]
      <4> DEFINE z == [text |-> text, drift |-> count.drift]
      <4>1. z \in Results(Characters) /\ z.text = text /\ z.drift = 0
        BY <3>1 DEF Results, Counts
      <4> HIDE DEF z
      <4>2. ApplyHunk(z, h) = [text |-> Spliced(z.text, h.start, h.end, h.new), drift |-> z.drift]
        BY <3>2, <4>1, ApplyHunkType
      <4> QED
        BY <4>1, <4>2 DEF z
    <3>4. /\ text' = r.text /\ todo' = Tail(todo) /\ plan' = plan
          /\ \E a, b \in {0, 1} :
                count' = [drift |-> r.drift, rich |-> count.rich + a, skipped |-> count.skipped + b]
      BY <2>2 DEF ApplyNext
    <3> HIDE DEF h, s, r
    <3>5. text' = s /\ todo' = Tail(todo) /\ plan' = plan /\ count' \in Counts /\ count'.drift = 0
      BY <3>1, <3>3, <3>4 DEF Counts
    <3>6. plan.ok => Replaced(s, Tail(todo)) = [text |-> plan.expected, drift |-> 0]
      BY <3>2 DEF Applying
    <3>7. plan.ok
      BY <3>1 DEF Applying
    <3> QED
      BY <3>2, <3>5, <3>6, <3>7 DEF Applying
  <2>3. CASE UNCHANGED vars
    BY <2>3 DEF vars, Applying
  <2> QED
    BY <2>1, <2>2, <2>3 DEF Next
<1> QED
  BY <1>1, <1>2, PlannedHolds, PTL DEF Spec

\* What the group has planned is what the planner of constants says of its cards.
LEMMA GroupTyped ==
    ASSUME Planned, group # NoGroup
    PROVE  /\ Original \in Str(Characters) /\ group.cards \in Seq(Hunks(Characters))
           /\ \A n \in 1 .. Len(group.cards) :
                group.cards[n].old = <<>> =>
                    group.cards[n].start = Unplaced /\ group.cards[n].end = Unplaced
           /\ plan = PlanSentenceGroupReplacement(Original, group.segment, group.cards)
<1>1. base \in Paragraphs /\ group \in Inputs(GetPlainText(base))
      /\ plan = PlanSentenceGroupReplacement(GetPlainText(base), group.segment, group.cards)
  BY DEF Planned
<1>2. GetPlainText(base) \in Str(Characters)
  BY <1>1, ParagraphType
<1>3. /\ group.cards \in Seq(Hunks(Characters))
      /\ \A n \in 1 .. Len(group.cards) :
           group.cards[n].old = <<>> =>
               group.cards[n].start = Unplaced /\ group.cards[n].end = Unplaced
  BY <1>1, InputCards
<1> QED
  BY <1>1, <1>2, <1>3 DEF Original

\* What the property writes out is what the lemmas above do.
LEMMA WrittenLetters ==
    ASSUME NEW f
    PROVE  /\ Written(f) = Q!FlattenSeq(Letters(Original, group.cards, f))
           /\ \A gap : Apart(f, gap) <=> CardsApart(group.cards, f, gap)
BY DEF Written, Letters, Begins, Covered, Apart, CardsApart

\* A place in the sentence for every card is one of the ways to place them.
LEMMA PlacementIs ==
    ASSUME NEW f
    PROVE  f \in Placements <=> /\ f \in [DOMAIN group.cards -> Sentence.start .. Sentence.end]
                                /\ \A n \in DOMAIN group.cards :
                                     /\ f[n] + Len(group.cards[n].old) <= Sentence.end
                                     /\ Slice(Original, f[n], f[n] + Len(group.cards[n].old))
                                            = group.cards[n].old
                                     /\ group.cards[n].start # Unplaced \/ group.cards[n].end # Unplaced =>
                                            /\ f[n] = group.cards[n].start
                                            /\ f[n] + Len(group.cards[n].old) = group.cards[n].end
BY DEF Placements

\* The command that was planned delivers the fixes of its cards.
LEMMA PlannedDelivers ==
    ASSUME Planned, Applying, Done
    PROVE  \E f \in Placements : Apart(f, 0) /\ text = Written(f)
<1>1. plan.ok /\ todo = <<>>
  BY DEF Done
<1>2. group # NoGroup
  <2> SUFFICES ASSUME group = NoGroup PROVE FALSE
    OBVIOUS
  <2>1. plan = NoPlan
    BY NoGroupNoPlan DEF Planned
  <2> QED
    BY <1>1, <2>1 DEF NoPlan
<1>3. text = plan.expected
  <2>1. Replaced(text, <<>>) = [text |-> plan.expected, drift |-> 0] /\ text \in Str(Characters)
    BY <1>1 DEF Applying
  <2>2. Replaced(text, <<>>) = [text |-> text, drift |-> 0]
    BY <2>1, ReplacedNothing
  <2> QED
    BY <2>1, <2>2
<1> DEFINE t == Original
           segment == group.segment
           cards == group.cards
           p == plan
           s == SplitIntoSentences(t)[segment]
<1>4. /\ t \in Str(Characters) /\ cards \in Seq(Hunks(Characters))
      /\ \A n \in 1 .. Len(cards) :
           cards[n].old = <<>> => cards[n].start = Unplaced /\ cards[n].end = Unplaced
      /\ p = PlanSentenceGroupReplacement(t, segment, cards) /\ p.ok
  BY <1>1, <1>2, GroupTyped
<1> HIDE DEF t, segment, cards, p
<1>5. PICK at, S, q, u : GroupPlan(Characters, t, segment, cards, p, at, S, q, u)
  BY <1>4, GroupPlanned
<1>6. Q!FlattenSeq(Letters(t, cards, at)) = u /\ CardsApart(cards, at, 0)
  BY <1>4, <1>5, GroupLaid
<1>7. p.expected = u /\ at \in [1 .. Len(cards) -> Nat]
      /\ \A n \in 1 .. Len(cards) : FoundAt(t, s, cards[n], at[n])
  BY <1>5 DEF GroupPlan, PlansFor
<1>8. Apart(at, 0) /\ text = Written(at)
  BY <1>3, <1>6, <1>7, WrittenLetters DEF t, cards, p
<1>9. DOMAIN cards = 1 .. Len(cards)
  BY <1>4, LenProperties
<1>10. \A n \in DOMAIN cards : Stands(t, s, cards[n], at[n])
  BY <1>7, <1>9 DEF FoundAt
<1>11. at \in [DOMAIN cards -> s.start .. s.end]
  <2>1. \A n \in DOMAIN cards : at[n] \in s.start .. s.end
    BY <1>10 DEF Stands
  <2> QED
    BY <1>7, <1>9, <2>1
<1>12. at \in Placements
  <2>1. s = Sentence
    BY DEF Sentence, t, segment
  <2>2. \A n \in DOMAIN cards :
          /\ at[n] + Len(cards[n].old) <= s.end
          /\ Slice(t, at[n], at[n] + Len(cards[n].old)) = cards[n].old
          /\ cards[n].start # Unplaced \/ cards[n].end # Unplaced =>
                at[n] = cards[n].start /\ at[n] + Len(cards[n].old) = cards[n].end
    BY <1>10 DEF Stands
  <2> QED
    BY <1>11, <2>1, <2>2, PlacementIs DEF t, cards
<1> QED
  BY <1>8, <1>12

----------------
\* Cards that have one place each, none touching another, are not refused.
LEMMA GroupNotRefused ==
    ASSUME NEW C, NEW t \in Str(C), NEW segment \in DOMAIN SplitIntoSentences(t),
           NEW cards \in Seq(Hunks(C)), NEW f,
           \A n \in 1 .. Len(cards) : FoundAt(t, SplitIntoSentences(t)[segment], cards[n], f[n]),
           CardsApart(cards, f, 1)
    PROVE  PlanSentenceGroupReplacement(t, segment, cards).ok
<1> DEFINE s == SplitIntoSentences(t)[segment]
           places(n) == CardPlaces(t, s, cards[n])
           ranges == [n \in DOMAIN cards |->
                        LET a == Least(places(n))
                        IN  Hunk(a, a + Len(cards[n].old), cards[n].old, cards[n].new)]
           R == RangesOf(cards, f)
<1>1. DOMAIN cards = 1 .. Len(cards)
  BY LenProperties
<1>2. \A n \in DOMAIN cards : places(n) = {f[n]} /\ Least(places(n)) = f[n]
  <2> TAKE n \in DOMAIN cards
  <2>1. CardPlaces(t, s, cards[n]) = {f[n]} /\ f[n] \in Nat
    BY <1>1 DEF FoundAt
  <2>2. Least({f[n]}) = f[n]
    BY <2>1, LeastProperties
  <2> QED
    BY <2>1, <2>2
<1>3. PlanSentenceGroupReplacement(t, segment, cards) = PlanRanges(t, ranges)
  <2>1. ~\E n \in DOMAIN cards : places(n) = {}
    BY <1>2
  <2> QED
    BY <2>1 DEF PlanSentenceGroupReplacement
<1>4. ranges = R
  BY <1>2 DEF RangesOf
<1>5. s.start \in Nat /\ s.end \in 0 .. Len(t) /\ s.start < s.end
  BY SentenceIs
<1> HIDE DEF s
<1>6. /\ R \in Seq(Hunks(C)) /\ Len(R) = Len(cards)
      /\ \A n \in 1 .. Len(cards) : /\ R[n].start = f[n] /\ R[n].end = f[n] + Len(cards[n].old)
                                    /\ Fits(t, R[n]) /\ R[n].start < R[n].end
  <2>1. \A n \in 1 .. Len(cards) : FoundAt(t, s, cards[n], f[n])
    BY DEF s
  <2> QED
    BY <1>5, <2>1, RangesOfFit
<1> HIDE DEF R
<1>7. \A m, n \in 1 .. Len(R) :
         m # n => R[m].end + 1 <= R[n].start \/ R[n].end + 1 <= R[m].start
  BY <1>1, <1>6 DEF CardsApart
<1>8. PlanRanges(t, R).ok
  <2>1. \A n \in 1 .. Len(R) : Fits(t, R[n]) /\ R[n].start < R[n].end
    BY <1>6
  <2> QED
    BY <1>6, <1>7, <2>1, RangesNotRefused
<1> QED
  BY <1>3, <1>4, <1>8

\* The same of the group that is at hand.
LEMMA PlannedNotRefused ==
    ASSUME Planned, group.segment \in DOMAIN SplitIntoSentences(Original),
           NEW f \in Placements, Placements = {f}, Apart(f, 1)
    PROVE  plan.ok
<1>1. group # NoGroup
  <2>1. \E m : DOMAIN SplitIntoSentences(Original) = 1 .. m
    BY DEF SplitIntoSentences
  <2>2. \A m : 0 \notin 1 .. m
    OBVIOUS
  <2> QED
    BY <2>1, <2>2 DEF NoGroup
<1> DEFINE t == Original
           segment == group.segment
           cards == group.cards
           s == SplitIntoSentences(t)[segment]
<1>2. /\ t \in Str(Characters) /\ cards \in Seq(Hunks(Characters))
      /\ \A n \in 1 .. Len(cards) :
           cards[n].old = <<>> => cards[n].start = Unplaced /\ cards[n].end = Unplaced
      /\ plan = PlanSentenceGroupReplacement(t, segment, cards)
  BY <1>1, GroupTyped
<1>3. segment \in DOMAIN SplitIntoSentences(t) /\ s = Sentence
  BY DEF Sentence
<1>4. /\ f \in [DOMAIN cards -> s.start .. s.end]
      /\ \A n \in DOMAIN cards : Stands(t, s, cards[n], f[n])
  BY <1>3, PlacementIs DEF Stands
<1>5. ASSUME NEW g \in [DOMAIN cards -> s.start .. s.end],
             \A n \in DOMAIN cards : Stands(t, s, cards[n], g[n])
      PROVE  g = f
  <2>1. g \in Placements
    BY <1>3, <1>5, PlacementIs DEF Stands
  <2> QED
    BY <2>1
<1>6. s.start \in Nat /\ s.end \in 0 .. Len(t) /\ s.start < s.end
  BY <1>2, <1>3, SentenceIs
<1>7. DOMAIN cards = 1 .. Len(cards)
  BY <1>2, LenProperties
<1>8. CardsApart(cards, f, 1)
  BY WrittenLetters
<1> HIDE DEF t, cards, s, segment
<1>9. \A n \in 1 .. Len(cards) : FoundAt(t, s, cards[n], f[n])
  <2> TAKE n \in 1 .. Len(cards)
  <2> DEFINE c == cards[n]
             m == f[n]
  <2>1. \A i \in s.start .. s.end : Stands(t, s, c, i) => i = m
    <3> SUFFICES ASSUME NEW i \in s.start .. s.end, Stands(t, s, c, i)
                 PROVE  i = m
      OBVIOUS
    <3> DEFINE g == [f EXCEPT ![n] = i]
    <3>1. g \in [DOMAIN cards -> s.start .. s.end] /\ g[n] = i
          /\ \A k \in DOMAIN cards : k # n => g[k] = f[k]
      BY <1>4, <1>7
    <3> HIDE DEF g
    <3>2. \A k \in DOMAIN cards : Stands(t, s, cards[k], g[k])
      BY <1>4, <3>1
    <3>3. g = f
      BY <1>5, <3>1, <3>2
    <3> QED
      BY <3>1, <3>3
  <2>2. c \in Hunks(Characters) /\ (c.old = <<>> => c.start = Unplaced /\ c.end = Unplaced)
        /\ Stands(t, s, c, m)
    BY <1>2, <1>4, <1>7, ElementOfSeq
  <2> HIDE DEF c, m
  <2>3. m \in CardPlaces(t, s, c)
    BY <1>2, <1>6, <2>1, <2>2, PlaceFound
  <2>4. FoundAt(t, s, c, m)
    BY <1>2, <1>6, <2>2, <2>3, PlaceIs
  <2> QED
    BY <2>4 DEF c, m
<1>10. PlanSentenceGroupReplacement(t, segment, cards).ok
  <2>1. \A n \in 1 .. Len(cards) : FoundAt(t, SplitIntoSentences(t)[segment], cards[n], f[n])
    BY <1>9 DEF s
  <2> QED
    BY <1>2, <1>3, <1>8, <2>1, GroupNotRefused
<1> QED
  BY <1>2, <1>10

\* Every hunk hits its text, and together they make each fix once; cards with one
\* place each are refused only if two overlap or touch.
THEOREM FixesAreExactHolds == Spec => []FixesAreExact
<1>1. Planned /\ Applying => NoDrift
  <2> SUFFICES ASSUME Planned, Applying PROVE NoDrift
    OBVIOUS
  <2>1. DOMAIN todo = 1 .. Len(todo)
    BY LenProperties DEF Applying
  <2> QED
    BY <2>1 DEF Applying, NoDrift, Ready
<1>2. Planned /\ Applying => EveryFixOnce
  <2> SUFFICES ASSUME Planned, Applying PROVE EveryFixOnce
    OBVIOUS
  <2>1. Done => \E f \in Placements : Apart(f, 0) /\ text = Written(f)
    BY PlannedDelivers
  <2>2. ASSUME group.segment \in DOMAIN SplitIntoSentences(Original), ~plan.ok,
               NEW f \in Placements, Placements = {f}, Apart(f, 1)
        PROVE  FALSE
    BY <2>2, PlannedNotRefused
  <2> QED
    BY <2>1, <2>2 DEF EveryFixOnce
<1> QED
  BY <1>1, <1>2, PlannedHolds, ApplyingHolds, PTL DEF FixesAreExact

----------------
\* A change inside the middle of three pieces changes that piece.
InMiddle(t, p, x, r, a, b, new) ==
    Spliced(t, Len(p) + a, Len(p) + b, new) = (p \o Spliced(x, a, b, new)) \o r

\* A change inside the middle of three pieces makes a text of three pieces, changed there.
LEMMA SplicedMiddle ==
    ASSUME NEW C, NEW p \in Str(C), NEW x \in Str(C), NEW r \in Str(C), NEW new \in Str(C),
           NEW a \in 0 .. Len(x), NEW b \in a .. Len(x), NEW t, t = (p \o x) \o r
    PROVE  InMiddle(t, p, x, r, a, b, new)
<1>0. \A y, z \in Str(C) : y \o z \in Str(C) /\ Len(y \o z) = Len(y) + Len(z)
  BY StrConcat
<1>1. Len(p) \in Nat /\ Len(x) \in Nat /\ Len(r) \in Nat
  BY StrProperties
<1> DEFINE px == p \o x
           i == Len(p)
           l == Len(px)
           xr == x \o r
<1>2. px \in Str(C) /\ t \in Str(C) /\ l = i + Len(x) /\ Len(t) = l + Len(r) /\ xr \in Str(C)
  BY <1>0
<1>3. PICK o \in Nat : o = 0
  OBVIOUS
<1>4. t = px \o r
  OBVIOUS
<1> HIDE DEF px, i, l, xr
<1>5. /\ o \in 0 .. l /\ i \in o .. l /\ i + a \in i .. l /\ i + a \in o .. l /\ i \in 0 .. l
      /\ i + b \in 0 .. Len(t) /\ l \in i + b .. Len(t) /\ l \in 0 .. Len(t) /\ Len(t) \in l .. Len(t)
      /\ i + b \in 0 .. l /\ l \in i + b .. l /\ o \in 0 .. a /\ a \in o .. Len(x) /\ o \in 0 .. Len(x)
      /\ i + o = i /\ o \in 0 .. i /\ i \in o .. i /\ l = i + Len(x) /\ b \in 0 .. Len(x) /\ Len(x) \in b .. Len(x)
      /\ l + o = l /\ l + Len(r) = Len(t) /\ o \in 0 .. Len(r) /\ Len(r) \in o .. Len(r)
      /\ i + a \in 0 .. Len(t) /\ i + b \in i + a .. Len(t)
  <2>1. i \in Nat /\ l \in Nat /\ Len(t) \in Nat
    BY <1>1, <1>2 DEF i
  <2> HIDE DEF i, l
  <2> QED
    BY <1>1, <1>2, <1>3, <2>1
\* What is left of the change.
<1>6. Slice(t, 0, i + a) = p \o Slice(x, 0, a)
  <2>1. Slice(px \o r, o, i + a) = Slice(px, o, i + a)
    BY <1>2, <1>5, SliceOfFront DEF l
  <2>2. Slice(px, o, i) \o Slice(px, i, i + a) = Slice(px, o, i + a)
    <3>1. px \in Str(C)
      BY <1>2
    <3>2. o \in 0 .. Len(px) /\ i \in o .. Len(px) /\ i + a \in i .. Len(px)
      BY <1>5 DEF l
    <3> DEFINE ia == i + a
    <3>3. o \in 0 .. Len(px) /\ i \in o .. Len(px) /\ ia \in i .. Len(px)
      BY <3>2
    <3> HIDE DEF ia
    <3>4. Slice(px, o, i) \o Slice(px, i, ia) = Slice(px, o, ia)
      BY ONLY <3>1, <3>3, SliceJoin
    <3> QED
      BY ONLY <3>4 DEF ia
  <2>3. Slice(px, o, i) = Slice(p, o, i)
    BY <1>5, SliceOfFront DEF i, px
  <2>4. Slice(p, o, i) = p
    BY <1>3, SliceWhole DEF i
  <2>5. Slice(px, i + o, i + a) = Slice(x, o, a)
    <3>1. o \in 0 .. Len(x)
      BY <1>5
    <3>2. a \in o .. Len(x)
      BY <1>5
    <3>3. Slice(p \o x, Len(p) + o, Len(p) + a) = Slice(x, o, a)
      BY ONLY p \in Str(C), x \in Str(C), <3>1, <3>2, SliceOfBack
    <3> QED
      BY ONLY <3>3 DEF i, px
  <2> QED
    BY <1>3, <1>4, <1>5, <2>1, <2>2, <2>3, <2>4, <2>5
\* What is right of it.
<1>7. Slice(t, i + b, Len(t)) = Slice(x, b, Len(x)) \o r
  <2>1. Slice(t, i + b, l) \o Slice(t, l, Len(t)) = Slice(t, i + b, Len(t))
    BY <1>2, <1>5, SliceJoin
  <2>a. px \in Str(C)
    BY <1>2
  <2>2. Slice(px \o r, i + b, l) = Slice(px, i + b, l)
    <3> DEFINE ib == i + b
    <3>1. ib \in 0 .. Len(px)
      BY <1>5 DEF l
    <3>2. l \in ib .. Len(px)
      BY <1>5 DEF l
    <3> HIDE DEF ib
    <3>3. Slice(px \o r, ib, l) = Slice(px, ib, l)
      BY ONLY <2>a, r \in Str(C), <3>1, <3>2, SliceOfFront
    <3> QED
      BY ONLY <3>3 DEF ib
  <2>3. Slice(px, i + b, i + Len(x)) = Slice(x, b, Len(x))
    <3>1. b \in 0 .. Len(x)
      BY <1>5
    <3>2. Len(x) \in b .. Len(x)
      BY <1>5
    <3>3. Slice(p \o x, Len(p) + b, Len(p) + Len(x)) = Slice(x, b, Len(x))
      BY ONLY p \in Str(C), x \in Str(C), <3>1, <3>2, SliceOfBack
    <3> QED
      BY ONLY <3>3 DEF i, px
  <2>4. Slice(px \o r, l + o, l + Len(r)) = Slice(r, o, Len(r))
    <3>1. o \in 0 .. Len(r)
      BY <1>5
    <3>2. Len(r) \in o .. Len(r)
      BY <1>5
    <3>3. Slice(px \o r, Len(px) + o, Len(px) + Len(r)) = Slice(r, o, Len(r))
      BY ONLY <2>a, r \in Str(C), <3>1, <3>2, SliceOfBack
    <3> QED
      BY ONLY <3>3 DEF l
  <2>5. Slice(r, o, Len(r)) = r
    BY <1>3, SliceWhole
  <2> QED
    BY <1>4, <1>5, <2>1, <2>2, <2>3, <2>4, <2>5
<1>8. Spliced(t, i + a, i + b, new) = (Slice(t, 0, i + a) \o new) \o Slice(t, i + b, Len(t))
  <2> DEFINE c == i + a
             d == i + b
  <2>1. c \in 0 .. Len(t) /\ d \in c .. Len(t) /\ t \in Str(C)
    BY <1>2, <1>5
  <2> HIDE DEF c, d
  <2>2. Spliced(t, c, d, new) = (Slice(t, 0, c) \o new) \o Slice(t, d, Len(t))
    BY ONLY <2>1, new \in Str(C), SplicedType
  <2> QED
    BY <2>2 DEF c, d
<1> DEFINE f == Slice(x, 0, a)
           g == Slice(x, b, Len(x))
<1>9. f \in Str(C) /\ g \in Str(C)
  BY <1>3, <1>5, SliceProperties
<1>10. Spliced(x, a, b, new) = (f \o new) \o g
  BY SplicedType
<1> HIDE DEF f, g
<1>11. ((p \o f) \o new) \o (g \o r) = (p \o ((f \o new) \o g)) \o r
  <2> DEFINE head == f \o new
             mid == head \o g
             tail == g \o r
  <2>a. head \in Str(C)
    BY <1>0, <1>9
  <2>b. mid \in Str(C)
    BY <1>0, <1>9
  <2>c. tail \in Str(C)
    BY <1>0, <1>9
  <2>d. f \in Str(C)
    BY <1>9
  <2>e. g \in Str(C)
    BY <1>9
  <2> DEFINE left == (p \o f) \o new
  <2>3. left = p \o head
    <3>1. Joins(p, f, new)
      BY ONLY <2>d, p \in Str(C), new \in Str(C), StrJoin
    <3> QED
      BY ONLY <3>1 DEF Joins, left, head
  <2> HIDE DEF head, left
  <2>4. (head \o g) \o r = head \o tail
    <3>2. (head \o g) \o r = head \o (g \o r)
      <4>j. Joins(head, g, r)
        BY ONLY <2>a, <2>e, r \in Str(C), StrJoin
      <4> QED
        BY ONLY <4>j DEF Joins
    <3> QED
      BY <3>2 DEF tail
  <2> HIDE DEF mid, tail
  <2>5. (p \o mid) \o r = p \o (mid \o r)
    <3>j. Joins(p, mid, r)
      BY ONLY <2>b, p \in Str(C), r \in Str(C), StrJoin
    <3> QED
      BY ONLY <3>j DEF Joins
  <2>6. (p \o head) \o tail = p \o (head \o tail)
    <3>j. Joins(p, head, tail)
      BY ONLY <2>a, <2>c, p \in Str(C), StrJoin
    <3> QED
      BY ONLY <3>j DEF Joins
  <2>7. mid \o r = head \o tail
    BY <2>4 DEF mid
  <2>8. left \o tail = p \o (head \o tail)
    BY ONLY <2>3, <2>6
  <2>9. (p \o mid) \o r = p \o (head \o tail)
    BY ONLY <2>5, <2>7
  <2>10. left \o tail = (p \o mid) \o r
    BY ONLY <2>8, <2>9
  <2> QED
    BY <2>10 DEF left, mid, head, tail
<1>12. Spliced(t, Len(p) + a, Len(p) + b, new) = (p \o Spliced(x, a, b, new)) \o r
  BY <1>6, <1>7, <1>8, <1>10, <1>11 DEF f, g, i
<1> QED
  BY <1>12 DEF InMiddle

\* Two sequences of texts that differ in one place make texts that do.
Changed(C, V, W, n, p, r) ==
    /\ p = Q!FlattenSeq(Front(V, n - 1)) /\ p \in Str(C) /\ r \in Str(C)
    /\ V[n] \in Str(C) /\ W[n] \in Str(C)
    /\ Q!FlattenSeq(V) = (p \o V[n]) \o r
    /\ Q!FlattenSeq(W) = (p \o W[n]) \o r

\* Two sequences of texts that differ in one place flatten to three pieces that differ in
\* the middle one.
LEMMA FlattenChanged ==
    ASSUME NEW C, NEW V \in Seq(Str(C)), NEW W \in Seq(Str(C)), Len(V) = Len(W),
           NEW n \in 1 .. Len(V), \A k \in 1 .. Len(V) : k # n => V[k] = W[k]
    PROVE  \E p, r : Changed(C, V, W, n, p, r)
<1> DEFINE D == Str(C)
           l == Len(V)
           m == n - 1
           P == Slice(V, 0, m)
           R == Slice(V, n, l)
<1>1. PICK o \in Nat : o = 0
  OBVIOUS
<1>2. l \in Nat /\ V \in Str(D) /\ W \in Str(D) /\ Len(W) = l
  BY LenProperties DEF Str
<1>3. V[n] \in D /\ W[n] \in D
  BY <1>2, ElementOfSeq
<1> HIDE DEF D, l
<1>4. /\ o \in 0 .. l /\ m \in o .. l /\ n \in m .. l /\ m \in 0 .. l /\ l \in m .. l /\ n \in 0 .. l
      /\ l \in n .. l /\ l \in o .. l /\ n - m = 1 /\ m + 1 = n /\ m \in Nat
  BY <1>1, <1>2 DEF l
<1>5. ASSUME NEW s \in Str(D), Len(s) = l,
             \A k \in 1 .. l : k # n => s[k] = V[k]
      PROVE  /\ s = (P \o <<s[n]>>) \o R
             /\ P \in Str(D) /\ R \in Str(D) /\ <<s[n]>> \in Str(D)
  <2>1. Slice(s, o, m) \in Str(D) /\ Slice(s, m, n) \in Str(D) /\ Slice(s, n, l) \in Str(D)
        /\ Len(Slice(s, o, m)) = m - o /\ Len(Slice(s, m, n)) = n - m /\ Len(Slice(s, n, l)) = l - n
        /\ (\A i \in 1 .. m - o : Slice(s, o, m)[i] = s[o + i])
        /\ (\A i \in 1 .. n - m : Slice(s, m, n)[i] = s[m + i])
        /\ (\A i \in 1 .. l - n : Slice(s, n, l)[i] = s[n + i])
    <3>1. \A x \in 0 .. l : \A y \in x .. l :
            /\ Slice(s, x, y) \in Str(D) /\ Len(Slice(s, x, y)) = y - x
            /\ \A i \in 1 .. y - x : Slice(s, x, y)[i] = s[x + i]
      <4> TAKE x \in 0 .. l
      <4> TAKE y \in x .. l
      <4> QED
        BY <1>5, SliceProperties
    <3> HIDE DEF m
    <3>2. o \in 0 .. l /\ m \in o .. l /\ m \in 0 .. l /\ n \in m .. l /\ n \in 0 .. l /\ l \in n .. l
      BY <1>4
    <3> QED
      BY ONLY <3>1, <3>2
  <2>2. Slice(V, o, m) \in Str(D) /\ Slice(V, n, l) \in Str(D)
        /\ Len(Slice(V, o, m)) = m - o /\ Len(Slice(V, n, l)) = l - n
        /\ (\A i \in 1 .. m - o : Slice(V, o, m)[i] = V[o + i])
        /\ (\A i \in 1 .. l - n : Slice(V, n, l)[i] = V[n + i])
    <3>1. \A x \in 0 .. l : \A y \in x .. l :
            /\ Slice(V, x, y) \in Str(D) /\ Len(Slice(V, x, y)) = y - x
            /\ \A i \in 1 .. y - x : Slice(V, x, y)[i] = V[x + i]
      <4> TAKE x \in 0 .. l
      <4> TAKE y \in x .. l
      <4> QED
        BY <1>2, SliceProperties DEF l
    <3> HIDE DEF m
    <3>2. o \in 0 .. l /\ m \in o .. l /\ m \in 0 .. l /\ n \in 0 .. l /\ l \in n .. l
      BY <1>4
    <3> QED
      BY ONLY <3>1, <3>2
  <2>3. Slice(s, o, m) = Slice(V, o, m)
    <3>1. \A i \in 1 .. m - o : s[o + i] = V[o + i]
      <4> TAKE i \in 1 .. m - o
      <4>1. o + i \in 1 .. l /\ o + i # n
        BY <1>1, <1>2, <1>4
      <4> QED
        BY <1>5, <4>1
    <3> DEFINE y == Slice(s, o, m)
               z == Slice(V, o, m)
               k == m - o
    <3>4. y \in Str(D) /\ z \in Str(D) /\ Len(y) = k /\ Len(z) = k /\ \A i \in 1 .. k : y[i] = z[i]
      BY <2>1, <2>2, <3>1
    <3> HIDE DEF y, z, k
    <3>2. y \in Str(D) /\ z \in Str(D) /\ Len(y) = Len(z) /\ \A i \in 1 .. Len(y) : y[i] = z[i]
      BY <3>4
    <3>3. y = z
      BY <3>2, StrEqual
    <3> QED
      BY <3>3 DEF y, z
  <2>4. Slice(s, n, l) = Slice(V, n, l)
    <3>1. \A i \in 1 .. l - n : s[n + i] = V[n + i]
      <4> TAKE i \in 1 .. l - n
      <4>1. n + i \in 1 .. l /\ n + i # n
        BY <1>2, <1>4
      <4> QED
        BY <1>5, <4>1
    <3> DEFINE y == Slice(s, n, l)
               z == Slice(V, n, l)
               k == l - n
    <3>4. y \in Str(D) /\ z \in Str(D) /\ Len(y) = k /\ Len(z) = k /\ \A i \in 1 .. k : y[i] = z[i]
      BY <2>1, <2>2, <3>1
    <3> HIDE DEF y, z, k
    <3>2. y \in Str(D) /\ z \in Str(D) /\ Len(y) = Len(z) /\ \A i \in 1 .. Len(y) : y[i] = z[i]
      BY <3>4
    <3>3. y = z
      BY <3>2, StrEqual
    <3> QED
      BY <3>3 DEF y, z
  <2>5. Slice(s, m, n) = <<s[n]>> /\ <<s[n]>> \in Str(D)
    <3>1. s[n] \in D
      <4>1. n \in 1 .. Len(s)
        BY <1>2, <1>5 DEF l
      <4> QED
        BY ONLY s \in Str(D), <4>1, StrProperties
    <3>2. <<s[n]>> \in Str(D)
      BY <3>1 DEF Str
    <3> DEFINE y == Slice(s, m, n)
               z == <<s[n]>>
    <3>3. Len(z) = 1 /\ z[1] = s[n]
      OBVIOUS
    <3>4. Len(y) = 1 /\ y[1] = s[n] /\ y \in Str(D)
      BY <1>4, <2>1
    <3>5. z \in Str(D)
      BY <3>2
    <3> HIDE DEF y, z
    <3>7. Len(y) = Len(z) /\ \A i \in 1 .. Len(y) : y[i] = z[i]
      BY <3>3, <3>4
    <3>6. y = z
      BY ONLY <3>4, <3>5, <3>7, StrEqual
    <3> QED
      BY <3>2, <3>6 DEF y, z
  <2>6. Slice(s, o, m) \o Slice(s, m, n) = Slice(s, o, n)
    <3> HIDE DEF m
    <3> QED
      BY <1>4, <1>5, SliceJoin
  <2>7. Slice(s, o, n) \o Slice(s, n, l) = Slice(s, o, l)
    <3>1. n \in o .. l
      BY <1>1, <1>4
    <3> QED
      BY <1>4, <1>5, <3>1, SliceJoin
  <2>8. Slice(s, o, l) = s
    BY <1>1, <1>5, SliceWhole
  <2> QED
    BY <1>1, <2>2, <2>3, <2>4, <2>5, <2>6, <2>7, <2>8
<1>6. /\ V = (P \o <<V[n]>>) \o R /\ W = (P \o <<W[n]>>) \o R
      /\ P \in Str(D) /\ R \in Str(D) /\ <<V[n]>> \in Str(D) /\ <<W[n]>> \in Str(D)
  <2>1. \A k \in 1 .. l : k # n => W[k] = V[k]
    BY DEF l
  <2>2. Len(V) = l
    BY DEF l
  <2> HIDE DEF P, R
  <2> QED
    BY <1>2, <1>5, <2>1, <2>2
<1> HIDE DEF P, R
<1>7. P \in Seq(Str(C)) /\ R \in Seq(Str(C))
  BY <1>6 DEF Str, D
<1> DEFINE p == Q!FlattenSeq(P)
           r == Q!FlattenSeq(R)
<1>8. p \in Str(C) /\ r \in Str(C)
  BY <1>7, FlattenType
<1>9. ASSUME NEW x \in D
      PROVE  Q!FlattenSeq((P \o <<x>>) \o R) = (p \o x) \o r
  <2> DEFINE y == <<x>>
             Py == P \o y
  <2>1. x \in Str(C)
    BY DEF D
  <2>2. y \in Seq(Str(C))
    BY <2>1
  <2>3. Q!FlattenSeq(y) = x
    BY <2>1, FlattenOne
  <2> HIDE DEF y
  <2>4. Q!FlattenSeq(Py) = p \o x
    BY <1>7, <2>2, <2>3, FlattenJoin
  <2>5. Py \in Seq(Str(C))
    <3> DEFINE T == Str(C)
    <3>1. P \in Seq(T) /\ y \in Seq(T)
      BY <1>7, <2>2
    <3> HIDE DEF T
    <3>2. P \o y \in Seq(T)
      BY <3>1, ConcatProperties
    <3> QED
      BY <3>2 DEF T
  <2> HIDE DEF Py
  <2>6. Q!FlattenSeq(Py \o R) = Q!FlattenSeq(Py) \o r
    BY <1>7, <2>5, FlattenJoin
  <2> QED
    BY <2>4, <2>6 DEF Py, y
<1>10. Q!FlattenSeq(V) = (p \o V[n]) \o r /\ Q!FlattenSeq(W) = (p \o W[n]) \o r
  <2> DEFINE v == V[n]
             w == W[n]
  <2>1. v \in D /\ w \in D /\ V = (P \o <<v>>) \o R /\ W = (P \o <<w>>) \o R
    BY <1>3, <1>6
  <2> HIDE DEF v, w
  <2>2. Q!FlattenSeq((P \o <<v>>) \o R) = (p \o v) \o r /\ Q!FlattenSeq((P \o <<w>>) \o R) = (p \o w) \o r
    BY <1>9, <2>1
  <2> QED
    BY <2>1, <2>2 DEF v, w
<1>11. P = Front(V, n - 1)
  BY DEF P, Front, Slice
<1>12. Changed(C, V, W, n, p, r)
  BY <1>3, <1>8, <1>10, <1>11 DEF Changed, D
<1> QED
  BY <1>12

----------------
\* The texts of the elements, and those of the elements before one.
Texts(elements) == [n \in DOMAIN elements |-> elements[n].text]

\* The plain text of elements is the flattening of their texts.
LEMMA TextsAre ==
    ASSUME NEW elements \in Seq(Elements)
    PROVE  /\ Texts(elements) \in Seq(Str(Characters)) /\ Len(Texts(elements)) = Len(elements)
           /\ GetPlainText(elements) = Q!FlattenSeq(Texts(elements))
           /\ \A n \in 1 .. Len(elements) :
                /\ Texts(elements)[n] = elements[n].text
                /\ GetPlainText(SubSeq(elements, 1, n - 1)) = Q!FlattenSeq(Front(Texts(elements), n - 1))
<1>1. Len(elements) \in Nat /\ DOMAIN elements = 1 .. Len(elements)
  BY LenProperties
<1>2. \A n \in 1 .. Len(elements) : elements[n].text \in Str(Characters)
  <2> TAKE n \in 1 .. Len(elements)
  <2>1. elements[n] \in Elements
    BY ElementOfSeq
  <2> QED
    BY <2>1 DEF Elements
<1>3. Texts(elements) \in [1 .. Len(elements) -> Str(Characters)]
  BY <1>1, <1>2 DEF Texts
<1>4. Texts(elements) \in Seq(Str(Characters)) /\ Len(Texts(elements)) = Len(elements)
  BY <1>1, <1>3, IsASeq, LenProperties
<1>5. \A n \in 1 .. Len(elements) : Texts(elements)[n] = elements[n].text
  BY <1>1 DEF Texts
<1>6. \A s : GetPlainText(s) = Q!FlattenSeq(Texts(s))
  BY DEF GetPlainText, Texts
<1>7. ASSUME NEW n \in 1 .. Len(elements)
      PROVE  Texts(SubSeq(elements, 1, n - 1)) = Front(Texts(elements), n - 1)
  <2> DEFINE m == n - 1
             e == Front(elements, m)
             W == Texts(elements)
             f == Front(W, m)
             T == Str(Characters)
  <2>1. m \in 0 .. Len(elements) /\ \A i \in 1 .. m : i \in 1 .. Len(elements)
    BY <1>1
  <2> HIDE DEF m
  <2>2. e \in Seq(Elements) /\ Len(e) = m /\ \A i \in 1 .. m : e[i] = elements[i]
    BY <2>1, FrontProperties
  <2>3. W \in Seq(T) /\ Len(W) = Len(elements)
    BY <1>4
  <2> HIDE DEF T, W
  <2>4. m \in 0 .. Len(W)
    BY <2>1, <2>3
  <2>5. f \in Seq(T) /\ Len(f) = m /\ \A i \in 1 .. m : f[i] = W[i]
    BY <2>3, <2>4, FrontProperties
  <2> HIDE DEF e, f
  <2>6. DOMAIN e = 1 .. m
    BY <2>2, LenProperties
  <2>7. f = [i \in 1 .. m |-> f[i]]
    BY <2>5, LenProperties
  <2>8. \A i \in 1 .. m : f[i] = e[i].text
    <3> TAKE i \in 1 .. m
    <3>1. f[i] = W[i] /\ e[i] = elements[i] /\ i \in 1 .. Len(elements)
      BY <2>1, <2>2, <2>5
    <3> QED
      BY <1>5, <3>1 DEF W
  <2>9. Texts(e) = [i \in 1 .. m |-> e[i].text]
    BY <2>6 DEF Texts
  <2>10. Texts(e) = f
    BY <2>7, <2>8, <2>9
  <2> QED
    BY <2>10 DEF e, f, W, m, Front
<1> QED
  BY <1>4, <1>5, <1>6, <1>7

\* A paragraph with another text in one of its elements.
DiffersAt(elements, n, y, e) ==
    /\ e \in Seq(Elements) /\ Len(e) = Len(elements)
    /\ \A k \in 1 .. Len(elements) : /\ e[k].type = elements[k].type
                                     /\ k # n => e[k] = elements[k]
    /\ \E p, r : /\ p = GetPlainText(SubSeq(elements, 1, n - 1))
                 /\ p \in Str(Characters) /\ r \in Str(Characters)
                 /\ elements[n].text \in Str(Characters)
                 /\ GetPlainText(elements) = (p \o elements[n].text) \o r
                 /\ GetPlainText(e) = (p \o y) \o r

\* Changing the text of one element changes the plain text in that piece.
LEMMA ElementChanged ==
    ASSUME NEW elements \in Seq(Elements), NEW n \in 1 .. Len(elements), NEW y \in Str(Characters),
           NEW e, e = [elements EXCEPT ![n].text = y]
    PROVE  DiffersAt(elements, n, y, e)
<1>1. Len(elements) \in Nat /\ DOMAIN elements = 1 .. Len(elements)
  BY LenProperties
<1>2. \A k \in 1 .. Len(elements) : elements[k] \in Elements
  BY ElementOfSeq
<1> DEFINE x == [elements[n] EXCEPT !.text = y]
<1>3. x \in Elements /\ x.text = y /\ x.type = elements[n].type
  <2>1. elements[n] \in Elements
    BY <1>2
  <2> QED
    BY <2>1 DEF Elements
<1>4. /\ \A k \in 1 .. Len(elements) : e[k] = IF k = n THEN x ELSE elements[k]
      /\ DOMAIN e = 1 .. Len(elements)
      /\ e = [k \in 1 .. Len(elements) |-> e[k]]
  <2>1. e = [elements EXCEPT ![n] = x]
    OBVIOUS
  <2> HIDE DEF x
  <2> QED
    BY <1>1, <2>1
<1> HIDE DEF x
<1>5. e \in [1 .. Len(elements) -> Elements]
  BY <1>2, <1>3, <1>4
<1>6. e \in Seq(Elements) /\ Len(e) = Len(elements)
  BY <1>1, <1>5, IsASeq, LenProperties
<1>7. \A k \in 1 .. Len(elements) : e[k].type = elements[k].type /\ (k # n => e[k] = elements[k])
  BY <1>3, <1>4
<1> DEFINE V == Texts(elements)
           W == Texts(e)
<1>8. /\ V \in Seq(Str(Characters)) /\ Len(V) = Len(elements)
      /\ GetPlainText(elements) = Q!FlattenSeq(V)
      /\ V[n] = elements[n].text
      /\ GetPlainText(SubSeq(elements, 1, n - 1)) = Q!FlattenSeq(Front(V, n - 1))
      /\ \A k \in 1 .. Len(elements) : V[k] = elements[k].text
  BY TextsAre
<1>9. /\ W \in Seq(Str(Characters)) /\ Len(W) = Len(elements)
      /\ GetPlainText(e) = Q!FlattenSeq(W)
      /\ \A k \in 1 .. Len(elements) : W[k] = e[k].text
  BY <1>6, TextsAre
<1> HIDE DEF V, W
<1>10. \A k \in 1 .. Len(V) : k # n => V[k] = W[k]
  BY <1>7, <1>8, <1>9
<1>11. n \in 1 .. Len(V) /\ Len(V) = Len(W)
  BY <1>8, <1>9
<1>12. PICK p, r : Changed(Characters, V, W, n, p, r)
  BY <1>8, <1>9, <1>10, <1>11, FlattenChanged
<1>13. W[n] = y
  BY <1>3, <1>4, <1>9
<1>14. /\ p = GetPlainText(SubSeq(elements, 1, n - 1))
       /\ p \in Str(Characters) /\ r \in Str(Characters)
       /\ elements[n].text \in Str(Characters)
       /\ GetPlainText(elements) = (p \o elements[n].text) \o r
       /\ GetPlainText(e) = (p \o y) \o r
  BY <1>8, <1>9, <1>12, <1>13 DEF Changed
<1> QED
  BY <1>6, <1>7, <1>14 DEF DiffersAt
\* What a hunk does to the elements: the one it is applied to reads as the plain text
\* does with that hunk, and all else stays.
Applies(elements, h, e) ==
    /\ e.elements \in Seq(Elements) /\ Len(e.elements) = Len(elements)
    /\ \A n \in 1 .. Len(elements) :
        /\ e.elements[n].type = elements[n].type
        /\ elements[n].type = "footnote" => e.elements[n] = elements[n]
    /\ \/ e.outcome \in {"drift", "skipped"} /\ e.elements = elements
       \/ /\ e.outcome = "applied"
          /\ GetPlainText(e.elements) = Spliced(GetPlainText(elements), h.start, h.end, h.new)

\* applyHunkToElements changes one element as the plain text is changed, or nothing.
LEMMA ApplyToElementsApplies ==
    ASSUME NEW elements \in Seq(Elements), NEW h \in Hunks(Characters)
    PROVE  Applies(elements, h, ApplyToElements(elements, h))
<1> DEFINE at == ElementOffsets(elements)
           hit == {n \in DOMAIN elements : at[n].start <= h.start /\ h.start < at[n].end}
           n == Least(hit)
           own == [h EXCEPT !.start = @ - at[n].start, !.end = @ - at[n].start]
           fits == own.end <= Len(elements[n].text) /\ Fits(elements[n].text, own)
           new == [elements EXCEPT ![n].text = Spliced(@, own.start, own.end, own.new)]
           e == ApplyToElements(elements, h)
<1>1. Len(elements) \in Nat /\ DOMAIN elements = 1 .. Len(elements)
  BY LenProperties
<1>2. e = IF hit = {} THEN [elements |-> elements, outcome |-> "drift"]
          ELSE IF elements[n].type = "footnote" THEN [elements |-> elements, outcome |-> "skipped"]
          ELSE IF ~fits THEN [elements |-> elements, outcome |-> "drift"]
          ELSE [elements |-> new, outcome |-> "applied"]
  BY DEF ApplyToElements
<1>3. ASSUME NEW o \in {"drift", "skipped"}, e = [elements |-> elements, outcome |-> o]
      PROVE  Applies(elements, h, e)
  <2> HIDE DEF e
  <2> QED
    BY <1>3 DEF Applies
<1>4. ASSUME hit # {}, elements[n].type # "footnote", fits, e = [elements |-> new, outcome |-> "applied"]
      PROVE  Applies(elements, h, e)
  <2>1. n \in 1 .. Len(elements)
    <3>1. hit \subseteq 1 .. Len(elements) /\ hit \subseteq Nat
      BY <1>1
    <3> HIDE DEF hit
    <3> QED
      BY <1>4, <3>1, LeastProperties
  <2> HIDE DEF n
  <2> DEFINE x == elements[n].text
             p == GetPlainText(SubSeq(elements, 1, n - 1))
             i == Len(p)
             a == h.start - i
             b == h.end - i
             y == Spliced(x, a, b, h.new)
  <2>2. at[n].start = i
    BY <1>1, <2>1 DEF ElementOffsets
  <2>3. elements[n] \in Elements
    BY <2>1, ElementOfSeq
  <2>4. x \in Str(Characters)
    BY <2>3 DEF Elements
  <2>5. p \in Str(Characters)
    <3> DEFINE m == n - 1
               k == Front(elements, m)
    <3>1. m \in 0 .. Len(elements)
      BY <1>1, <2>1
    <3> HIDE DEF m
    <3>2. k \in Seq(Elements)
      BY <3>1, FrontProperties
    <3> HIDE DEF k
    <3>3. GetPlainText(k) \in Str(Characters)
      BY <3>2, PlainTextType
    <3> QED
      BY <3>3 DEF k, m, Front
  <2>6. i \in Nat /\ h.start \in Int /\ h.end \in Int /\ h.new \in Str(Characters)
    BY <2>5, StrProperties DEF Hunks
  <2> HIDE DEF p, i
  <2>7. own = [start |-> a, end |-> b, old |-> h.old, new |-> h.new] /\ own \in Hunks(Characters)
    <3>1. own = [h EXCEPT !.start = a, !.end = b]
      BY <2>2
    <3>2. a \in Int /\ b \in Int
      BY <2>6
    <3> HIDE DEF own, a, b
    <3>3. /\ [h EXCEPT !.start = a, !.end = b] = [start |-> a, end |-> b, old |-> h.old, new |-> h.new]
          /\ [start |-> a, end |-> b, old |-> h.old, new |-> h.new] \in Hunks(Characters)
      BY <3>2, HunkMoved
    <3> QED
      BY <3>1, <3>3
  <2> HIDE DEF own
  <2>8. a \in 0 .. Len(x) /\ b \in a .. Len(x)
    <3>1. Fits(x, own)
      BY <1>4
    <3> HIDE DEF x, a, b
    <3>2. own.start = a /\ own.end = b
      BY <2>7
    <3> QED
      BY <2>4, <2>7, <3>1, <3>2, FitsIs
  <2>9. y \in Str(Characters)
    <3> HIDE DEF x, a, b
    <3> QED
      BY <2>4, <2>6, <2>8, SplicedType
  <2>10. new = [elements EXCEPT ![n].text = y]
    <3>1. own.start = a /\ own.end = b /\ own.new = h.new
      BY <2>7
    <3> QED
      BY <3>1
  <2> HIDE DEF y, new
  <2>11. /\ new \in Seq(Elements) /\ Len(new) = Len(elements)
         /\ \A k \in 1 .. Len(elements) : /\ new[k].type = elements[k].type
                                          /\ k # n => new[k] = elements[k]
         /\ \E q, r : /\ q = GetPlainText(SubSeq(elements, 1, n - 1))
                      /\ q \in Str(Characters) /\ r \in Str(Characters)
                      /\ elements[n].text \in Str(Characters)
                      /\ GetPlainText(elements) = (q \o elements[n].text) \o r
                      /\ GetPlainText(new) = (q \o y) \o r
    <3>1. DiffersAt(elements, n, y, new)
      BY ONLY elements \in Seq(Elements), <2>1, <2>9, <2>10, ElementChanged
    <3> QED
      BY <3>1 DEF DiffersAt
  <2>12. PICK r \in Str(Characters) :
            /\ GetPlainText(elements) = (p \o x) \o r
            /\ GetPlainText(new) = (p \o y) \o r
    BY <2>11 DEF p
  <2>13. GetPlainText(new) = Spliced(GetPlainText(elements), h.start, h.end, h.new)
    <3> DEFINE t == GetPlainText(elements)
    <3>1. t = (p \o x) \o r
      BY <2>12
    <3> HIDE DEF x, a, b, t
    <3>2. Spliced(t, Len(p) + a, Len(p) + b, h.new) = (p \o Spliced(x, a, b, h.new)) \o r
      <4> DEFINE s == h.new
      <4>1. s \in Str(Characters)
        BY <2>6
      <4> HIDE DEF s
      <4>2. InMiddle(t, p, x, r, a, b, s)
        BY ONLY <2>4, <2>5, r \in Str(Characters), <2>8, <3>1, <4>1, SplicedMiddle
      <4> QED
        BY <4>2 DEF InMiddle, s
    <3>3. Len(p) + a = h.start /\ Len(p) + b = h.end
      BY <2>6 DEF a, b, i
    <3> QED
      BY <2>12, <3>2, <3>3 DEF y, t
  <2>14. e.elements = new /\ e.outcome = "applied"
    BY <1>4
  <2> HIDE DEF e
  <2>15. \A k \in 1 .. Len(elements) : elements[k].type = "footnote" => new[k] = elements[k]
    BY <1>4, <2>11
  <2> QED
    BY <2>11, <2>13, <2>14, <2>15 DEF Applies
<1> HIDE DEF hit, fits, new, e
<1>5. \/ \E o \in {"drift", "skipped"} : e = [elements |-> elements, outcome |-> o]
      \/ /\ hit # {} /\ elements[n].type # "footnote" /\ fits
         /\ e = [elements |-> new, outcome |-> "applied"]
  BY <1>2
<1>6. Applies(elements, h, e)
  BY <1>3, <1>4, <1>5
<1> QED
  BY <1>6 DEF e

----------------
\* The elements are those of the paragraph but for their texts, and a footnote is
\* what it was; unless a hunk was passed over or refused they read as the text.
Following ==
    /\ rich \in Seq(Elements) /\ Len(rich) = Len(base)
    /\ \A n \in 1 .. Len(base) : /\ rich[n].type = base[n].type
                                 /\ base[n].type = "footnote" => rich[n] = base[n]
    /\ count.skipped = 0 /\ count.rich = 0 => GetPlainText(rich) = text

\* In every reachable state the rich paragraph follows the plain text, unless a hunk was
\* passed over or refused, and its footnotes are those of the beginning.
LEMMA FollowingHolds == Spec => []Following
<1>1. Init => Following
  <2> SUFFICES ASSUME Init PROVE Following
    OBVIOUS
  <2>1. rich \in Seq(Elements)
    BY ParagraphType DEF Init
  <2> QED
    BY <2>1 DEF Init, Following
<1>2. Following /\ Applying /\ [Next]_vars => Following'
  <2> SUFFICES ASSUME Following, Applying, [Next]_vars PROVE Following'
    OBVIOUS
  <2>1. CASE Plan
    BY <2>1 DEF Plan, Following
  <2>2. CASE ApplyNext
    <3> DEFINE h == Head(todo)
               s == Spliced(text, h.start, h.end, h.new)
               z == [text |-> text, drift |-> count.drift]
               r == ApplyHunk(z, h)
               e == ApplyToElements(rich, h)
    <3>1. /\ text \in Str(Characters) /\ todo \in Seq(Hunks(Characters)) /\ Ready(text, todo)
          /\ todo # <<>> /\ count \in Counts
      BY <2>2 DEF Applying, ApplyNext
    <3>2. h \in Hunks(Characters) /\ Fits(text, h)
      BY <3>1, ReadyStep
    <3>3. rich \in Seq(Elements)
      BY DEF Following
    <3>4. /\ text' = r.text /\ rich' = e.elements /\ base' = base
          /\ count'.rich = count.rich + (IF e.outcome = "drift" THEN 1 ELSE 0)
          /\ count'.skipped = count.skipped + (IF e.outcome = "skipped" THEN 1 ELSE 0)
      BY <2>2 DEF ApplyNext
    <3> HIDE DEF h, e
    <3>5. Applies(rich, h, e)
      BY <3>2, <3>3, ApplyToElementsApplies DEF e
    <3>6. r.text = s
      <4>1. z \in Results(Characters) /\ z.text = text
        BY <3>1 DEF Results, Counts
      <4> HIDE DEF z
      <4>2. ApplyHunk(z, h) = [text |-> Spliced(z.text, h.start, h.end, h.new), drift |-> z.drift]
        BY <3>2, <4>1, ApplyHunkType
      <4> QED
        BY <4>1, <4>2
    <3> HIDE DEF r, s
    <3>7. /\ rich' \in Seq(Elements) /\ Len(rich') = Len(base')
          /\ \A n \in 1 .. Len(base') : /\ rich'[n].type = base'[n].type
                                        /\ base'[n].type = "footnote" => rich'[n] = base'[n]
      BY <3>4, <3>5 DEF Applies, Following
    <3>8. ASSUME count'.skipped = 0, count'.rich = 0
          PROVE  GetPlainText(rich') = text'
      <4>1. count.skipped \in Nat /\ count.rich \in Nat
        BY <3>1 DEF Counts
      <4>2. count.skipped = 0 /\ count.rich = 0 /\ e.outcome \notin {"drift", "skipped"}
        BY <3>4, <3>8, <4>1
      <4>3. GetPlainText(rich) = text
        BY <4>2 DEF Following
      <4>4. GetPlainText(e.elements) = Spliced(GetPlainText(rich), h.start, h.end, h.new)
        BY <3>5, <4>2 DEF Applies
      <4> QED
        BY <3>4, <3>6, <4>3, <4>4 DEF s
    <3> QED
      BY <3>7, <3>8 DEF Following
  <2>3. CASE UNCHANGED vars
    BY <2>3 DEF vars, Following
  <2> QED
    BY <2>1, <2>2, <2>3 DEF Next
<1> QED
  BY <1>1, <1>2, ApplyingHolds, PTL DEF Spec

\* Unless a hunk was passed over or refused the rich paragraph reads as the plain
\* text does, and no footnote is ever changed.
THEOREM RichFollowsPlainHolds == Spec => []RichFollowsPlain
<1>1. Following /\ Planned => RichFollowsPlain
  <2> SUFFICES ASSUME Following, Planned PROVE RichFollowsPlain
    OBVIOUS
  <2>1. base \in Seq(Elements)
    BY ParagraphType DEF Planned
  <2>2. DOMAIN base = 1 .. Len(base)
    BY <2>1, LenProperties
  <2> QED
    BY <2>2 DEF Following, RichFollowsPlain
<1> QED
  BY <1>1, FollowingHolds, PlannedHolds, PTL
================================================================================
