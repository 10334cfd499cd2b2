--------------------------- MODULE QaCards_proofs ---------------------------
(***************************************************************************)
(* Proofs about QaCards, for any number of issues, cards and commands.     *)
(***************************************************************************)
EXTENDS QaCards, FiniteSetTheorems, WellFoundedInduction, SequenceTheorems, TLAPS

-----------------------------------------------------------------------------
(* Numbers: the facts the proofs use instead of induction. *)

\* Every set of numbers that is not empty has a least one.
LEMMA LeastNumber ==
    ASSUME NEW T, T \subseteq Nat, T # {}
    PROVE  \E x \in T : \A y \in T : x <= y
<1> DEFINE Below == {0 .. n : n \in T}
<1>1. Below \subseteq FiniteSubsetsOf(Nat) /\ Below # {}
  <2>1. \A n \in T : 0 .. n \subseteq Nat /\ IsFiniteSet(0 .. n)
    BY FS_Interval
  <2> QED
    BY <2>1 DEF FiniteSubsetsOf
<1>2. PICK least \in Below : \A y \in Below : ~(<<y, least>> \in StrictSubsetOrdering(Nat))
  BY <1>1, FS_StrictSubsetOrderingWellFounded, WFMin
<1>3. PICK x \in T : least = 0 .. x
  BY <1>2
<1>4. ASSUME NEW y \in T, ~(x <= y)
      PROVE  FALSE
  <2>1. 0 .. y \subseteq 0 .. x /\ x \in 0 .. x /\ x \notin 0 .. y
    BY <1>4
  <2>2. <<0 .. y, 0 .. x>> \in StrictSubsetOrdering(Nat)
    BY <2>1 DEF StrictSubsetOrdering
  <2> QED
    BY <1>2, <1>3, <1>4, <2>2
<1> QED
  BY <1>4

\* Where a finite set is ordered, how many elements come before one tells which it
\* is: every rank has one.
LEMMA RanksAreHit ==
    ASSUME NEW S, IsFiniteSet(S), NEW above \in [S -> SUBSET S],
           NEW k \in 1 .. Cardinality(S),
           \A x, y \in S : x = y \/ x \in above[y] \/ y \in above[x],
           \A x \in S : x \notin above[x],
           \A x, y \in S : y \in above[x] => above[y] \subseteq above[x]
    PROVE  \E x \in S : Cardinality(above[x]) = k - 1
<1>1. PICK n \in Nat : n = Cardinality(S)
  BY FS_CardinalityType
<1>2. ASSUME NEW x \in S
      PROVE  IsFiniteSet(above[x]) /\ Cardinality(above[x]) \in 0 .. n - 1
  <2>1. above[x] \subseteq S /\ above[x] # S
    OBVIOUS
  <2>2. /\ IsFiniteSet(above[x]) /\ Cardinality(above[x]) <= n
        /\ Cardinality(above[x]) # n
    BY <1>1, <2>1, FS_Subset
  <2>3. Cardinality(above[x]) \in Nat
    BY <2>2, FS_CardinalityType
  <2> QED
    BY <1>1, <2>2, <2>3
<1>3. ASSUME NEW x \in S, NEW y \in S, x \in above[y]
      PROVE  Cardinality(above[x]) # Cardinality(above[y])
  <2>1. above[x] \subseteq above[y] /\ above[x] # above[y]
    BY <1>3
  <2> QED
    BY <1>2, <2>1, FS_Subset
<1>4. PICK rank : rank = [x \in S |-> Cardinality(above[x])]
  OBVIOUS
<1>5. rank \in [S -> 0 .. n - 1] /\ \A x, y \in S : rank[x] = rank[y] => x = y
  BY <1>2, <1>3, <1>4
<1>6. rank \in Injection(S, 0 .. n - 1)
  BY <1>5 DEF Injection, IsInjective
<1>7. IsFiniteSet(0 .. n - 1) /\ Cardinality(0 .. n - 1) = n
  <2>1. 0 \in Int /\ n - 1 \in Int
    BY <1>1
  <2>2. /\ IsFiniteSet(0 .. n - 1)
        /\ Cardinality(0 .. n - 1) = IF 0 > n - 1 THEN 0 ELSE n - 1 - 0 + 1
    BY <2>1, FS_Interval
  <2> QED
    BY <1>1, <2>2
<1>8. rank \in Surjection(S, 0 .. n - 1)
  BY <1>1, <1>6, <1>7, FS_Injection
<1>9. PICK x \in S : rank[x] = k - 1
  BY <1>1, <1>8 DEF Surjection
<1> QED
  BY <1>4, <1>9

-----------------------------------------------------------------------------
(* Types *)

DocType == editor \in Editors /\ doc \in Texts /\ extras \in 0 .. MaxExtras

Keys == [issue: Issues, sug: Suggestions]
Corrections == [issue: Issues, sug: Suggestions, cmd: Commands]

CardType ==
    /\ nextCard \in 1 .. MaxCards + 1
    /\ DOMAIN cards \subseteq 1 .. nextCard - 1
    /\ cards \in [DOMAIN cards -> Cards]
    /\ dismissed \subseteq Keys
    /\ applied \in Seq(Corrections)

NewsType ==
    /\ known = {} \/ \E t \in Texts : known = {t}
    /\ reanalyse \subseteq Texts

Fixes == UNION {[D -> Suggestions] : D \in SUBSET Issues}
CommandRecords ==
    [cards: SUBSET CardIds, pid: Texts, base: Texts, text: Texts, fix: Fixes, auto: BOOLEAN]
Results == [status: Outcomes, hash: SUBSET Texts]

\* A command that the resolver may follow up is about one card.
CommandType ==
    /\ cmds \in Seq(CommandRecords) /\ LastCommand <= MaxCommands
    /\ \A c \in DOMAIN cmds : cmds[c].auto => \E k \in CardIds : cmds[c].cards = {k}
    /\ registry \subseteq DOMAIN cmds /\ atHost \subseteq DOMAIN cmds
    /\ rpc \subseteq DOMAIN cmds /\ events \subseteq DOMAIN cmds
    /\ result \in [Commands -> Results \cup {NoResult}]
    /\ \A c \in events : result[c] # NoResult

\* A sentence waits with several cards, or it would have been sent alone.
PendingType ==
    /\ resolving \in [DOMAIN resolving -> [text: Texts, hash: Texts]]
    /\ DOMAIN resolving \subseteq CardIds
    /\ group # NoGroup =>
          group \in CommandRecords /\ Cardinality(group.cards) # 1 /\ ~group.auto
    /\ check # NoCheck =>
          /\ check.cards \in [DOMAIN check.cards -> [pid: Texts, hash: Texts]]
          /\ DOMAIN check.cards \subseteq CardIds /\ check.seen \in Texts
    /\ missed \subseteq CardIds

TypeInv == DocType /\ CardType /\ NewsType /\ CommandType /\ PendingType

-----------------------------------------------------------------------------
(* What a card goes through while it shows its spinner *)

\* A restored card is in nothing that was going on: a reload ends all of it, and
\* what began since left it out or, if it is validated, found it idle.
RestoredAreIdle ==
    \A k \in DOMAIN cards : cards[k].restoring =>
        /\ k \notin group.cards
        /\ batch # NoBatch => k \notin batch.todo
        /\ k \in DOMAIN check.cards => cards[k].status # "applying"

\* While a card shows its spinner it is what its only command says.
SpinnersMatch ==
    \A c \in DOMAIN cmds, k \in DOMAIN cards :
        /\ SentOnce(c) /\ k \in cmds[c].cards
        /\ cards[k].status = "applying"
        => /\ cards[k].issue \in DOMAIN cmds[c].fix
           /\ cmds[c].fix[cards[k].issue] = cards[k].sug

CardInv ==
    /\ TypeInv /\ CardTextHasItsIssue /\ ApplyingIsAwaited
    /\ RestoredAreIdle /\ SpinnersMatch

-----------------------------------------------------------------------------
(* Texts, cards and the operators that make them *)

LEMMA TextsAre ==
    ASSUME NEW t \in Texts
    PROVE  Pid(t) \in Texts /\ \A i \in Issues : t[i] \in Segments
<1>1. Untouched \in Texts
  BY DEF Untouched, Texts, Segments
<1> QED
  BY <1>1 DEF Pid, Texts

LEMMA BeforeIs ==
    ASSUME NEW t \in Texts, NEW i \in Issues
    PROVE  Before(t, i) \in UNION {[1 .. n -> Segments] : n \in 0 .. NumIssues - 1}
<1>1. i - 1 \in 0 .. NumIssues - 1 /\ 1 .. i - 1 \subseteq Issues
  BY NumIssuesAssumption DEF Issues
<1>2. Before(t, i) \in [1 .. i - 1 -> Segments]
  BY <1>1, TextsAre DEF Before
<1> QED
  BY <1>1, <1>2

LEMMA ApplyIs ==
    ASSUME NEW t \in Texts, NEW fix \in Fixes
    PROVE  /\ Apply(t, fix) \in Texts
           /\ \A i \in Issues : Apply(t, fix)[i] = IF i \in DOMAIN fix THEN fix[i] ELSE t[i]
<1>1. PICK D \in SUBSET Issues : fix \in [D -> Suggestions]
  BY DEF Fixes
<1>2. \A i \in Issues : (IF i \in DOMAIN fix THEN fix[i] ELSE t[i]) \in Segments
  BY <1>1 DEF Texts, Segments, Suggestions
<1> QED
  BY <1>2 DEF Apply, Texts

LEMMA NewCardIs ==
    ASSUME NEW i \in Issues, NEW s \in Suggestions, NEW t \in Texts, NEW h \in Texts,
           NEW r \in BOOLEAN, t[i] = "original"
    PROVE  LET c == NewCard(i, s, t, h, r) IN
           /\ c \in Cards /\ c.text[c.issue] = "original"
           /\ c.status = "pending" /\ ~c.restoring
<1>1. /\ Pid(h) \in Texts
      /\ Before(t, i) \in UNION {[1 .. n -> Segments] : n \in 0 .. NumIssues - 1}
  BY TextsAre, BeforeIs
<1> QED
  BY <1>1 DEF NewCard, Cards, Statuses

LEMMA InOrderIs ==
    ASSUME NEW S, S \subseteq Int, IsFiniteSet(S), NEW n \in 1 .. Cardinality(S)
    PROVE  InOrder(S)[n] \in S
<1>1. PICK above : above = [x \in S |-> {j \in S : j < x}]
  OBVIOUS
<1>2. \E x \in S : Cardinality(above[x]) = n - 1
  <2>1. above \in [S -> SUBSET S] /\ IsFiniteSet(S) /\ n \in 1 .. Cardinality(S)
    BY <1>1
  <2>2. \A x, y \in S : x = y \/ x \in above[y] \/ y \in above[x]
    BY <1>1
  <2>3. \A x \in S : x \notin above[x]
    BY <1>1
  <2>4. ASSUME NEW x \in S, NEW y \in S, y \in above[x]
        PROVE  above[y] \subseteq above[x]
    <3>1. x \in Int /\ y \in Int /\ y < x
      BY <1>1, <2>4
    <3>2. \A j \in S : j < y => j < x
      BY <3>1
    <3> QED
      BY <1>1, <3>2
  <2> QED
    BY <2>1, <2>2, <2>3, <2>4, RanksAreHit, ZenonT(60)
<1>3. \E i \in S : Cardinality({j \in S : j < i}) = n - 1
  BY <1>1, <1>2
<1> QED
  BY <1>3 DEF InOrder

IsTable(cs) == cs = [k \in DOMAIN cs |-> cs[k]]

\* Cards are added behind the ones there are, and each is one of those to be added.
LEMMA AddCardsIs ==
    ASSUME nextCard \in 1 .. MaxCards + 1,
           NEW cs, NEW new, NEW len \in Nat, DOMAIN new = 1 .. len, AddCards(cs, new)
    PROVE  /\ nextCard' \in nextCard .. MaxCards + 1
           /\ DOMAIN cards' = DOMAIN cs \cup nextCard .. nextCard' - 1
           /\ IsTable(cards')
           /\ \A k \in DOMAIN cs : cards'[k] = cs[k]
           /\ \A k \in DOMAIN cards' \ DOMAIN cs : \E n \in DOMAIN new : cards'[k] = new[n]
<1>1. PICK added : /\ added \subseteq DOMAIN new
                   /\ nextCard + Cardinality(added) <= MaxCards + 1
                   /\ nextCard' = nextCard + Cardinality(added)
                   /\ cards' = [k \in DOMAIN cs \cup nextCard .. nextCard' - 1 |->
                                   IF k \in DOMAIN cs THEN cs[k]
                                   ELSE new[InOrder(added)[k - nextCard + 1]]]
  BY DEF AddCards
<1>2. added \subseteq Int /\ IsFiniteSet(added) /\ Cardinality(added) \in Nat
  <2>1. IsFiniteSet(1 .. len)
    BY FS_Interval
  <2>2. IsFiniteSet(added) /\ added \subseteq Int
    BY <1>1, <2>1, FS_Subset
  <2> QED
    BY <2>2, FS_CardinalityType
<1>3. MaxCards \in Nat
  BY BoundsAssumption
<1>4. nextCard' \in nextCard .. MaxCards + 1
  BY <1>1, <1>2, <1>3
<1>5. ASSUME NEW k \in DOMAIN cards' \ DOMAIN cs
      PROVE  \E n \in DOMAIN new : cards'[k] = new[n]
  <2>1. k \in nextCard .. nextCard' - 1
    BY <1>1, <1>5
  <2>2. k - nextCard + 1 \in 1 .. Cardinality(added)
    BY <1>1, <1>2, <1>3, <2>1
  <2>3. InOrder(added)[k - nextCard + 1] \in added
    BY <1>2, <2>2, InOrderIs
  <2>4. cards'[k] = new[InOrder(added)[k - nextCard + 1]]
    BY <1>1, <1>5
  <2> QED
    BY <1>1, <2>3, <2>4
<1> QED
  BY <1>1, <1>4, <1>5 DEF IsTable

-----------------------------------------------------------------------------
(* Steps in which no card begins to spin *)

\* A table of cards, each of which has its original in its text.
Legal(cs) ==
    /\ cs \in [DOMAIN cs -> Cards]
    /\ \A k \in DOMAIN cs : cs[k].text[cs[k].issue] = "original"

\* From one table to the next a card that spins is the card that did, and nothing
\* is restored.
Calm(cs, ds) ==
    \A k \in DOMAIN ds :
        /\ ds[k].status = "applying" =>
              /\ k \in DOMAIN cs /\ cs[k].status = "applying"
              /\ ds[k].issue = cs[k].issue /\ ds[k].sug = cs[k].sug
              /\ ds[k].restoring = cs[k].restoring
        /\ ds[k].restoring => k \in DOMAIN cs /\ cs[k].restoring

CardsStep ==
    /\ nextCard' \in nextCard .. MaxCards + 1
    /\ DOMAIN cards' \subseteq DOMAIN cards \cup nextCard .. nextCard' - 1
    /\ Legal(cards')
    /\ dismissed' \subseteq Keys /\ applied' \in Seq(Corrections)

LEMMA LegalCards ==
    ASSUME TypeInv, CardTextHasItsIssue
    PROVE  Legal(cards) /\ Calm(cards, cards)
BY DEF TypeInv, CardType, CardTextHasItsIssue, Legal, Calm

LEMMA CardsStepTypes ==
    ASSUME TypeInv, CardsStep
    PROVE  CardType' /\ CardTextHasItsIssue'
<1>1. nextCard \in 1 .. MaxCards + 1 /\ DOMAIN cards \subseteq 1 .. nextCard - 1
  BY DEF TypeInv, CardType
<1>2. MaxCards \in Nat
  BY BoundsAssumption
<1>3. nextCard' \in 1 .. MaxCards + 1 /\ DOMAIN cards' \subseteq 1 .. nextCard' - 1
  BY <1>1, <1>2 DEF CardsStep
<1> QED
  BY <1>3 DEF CardsStep, Legal, CardType, CardTextHasItsIssue

LEMMA CalmSpinners ==
    ASSUME SpinnersMatch, Calm(cards, cards'), UNCHANGED cmds
    PROVE  SpinnersMatch'
BY DEF SpinnersMatch, Calm, SentOnce

LEMMA CalmAwaited ==
    ASSUME ApplyingIsAwaited, Calm(cards, cards'), UNCHANGED <<cmds, registry, rpc, resolving>>
    PROVE  ApplyingIsAwaited'
BY DEF ApplyingIsAwaited, Calm, Visible

LEMMA CalmRestored ==
    ASSUME RestoredAreIdle, Calm(cards, cards'), UNCHANGED <<batch, group, check>>
    PROVE  RestoredAreIdle'
BY DEF RestoredAreIdle, Calm

\* What is kept of the commands and of what was begun when only the cards change.
LEMMA CalmStep ==
    ASSUME CardInv, CardsStep, Calm(cards, cards'), DocType', NewsType',
           UNCHANGED <<commandVars, pendingVars>>
    PROVE  CardInv'
<1>1. CardType' /\ CardTextHasItsIssue'
  BY CardsStepTypes DEF CardInv
<1>2. CommandType' /\ PendingType'
  BY DEF CardInv, TypeInv, CommandType, PendingType, commandVars, pendingVars, LastCommand
<1>3. SpinnersMatch' /\ ApplyingIsAwaited' /\ RestoredAreIdle'
  BY CalmSpinners, CalmAwaited, CalmRestored DEF CardInv, commandVars, pendingVars
<1> QED
  BY <1>1, <1>2, <1>3 DEF CardInv, TypeInv

Fresh(c) ==
    c \in Cards /\ c.text[c.issue] = "original" /\ c.status = "pending" /\ ~c.restoring

LEMMA WithoutIs ==
    ASSUME NEW cs, NEW ds, NEW S, Legal(ds), Calm(cs, ds)
    PROVE  /\ Legal(Without(ds, S)) /\ Calm(cs, Without(ds, S))
           /\ DOMAIN Without(ds, S) = DOMAIN ds \ S
BY DEF Legal, Calm, Without

\* Adding fresh cards to a table that is calm.
LEMMA AddCalm ==
    ASSUME CardType, NEW cs, Legal(cs), Calm(cards, cs), DOMAIN cs \subseteq DOMAIN cards,
           NEW new, NEW len \in Nat, DOMAIN new = 1 .. len, \A n \in 1 .. len : Fresh(new[n]),
           AddCards(cs, new), dismissed' \subseteq Keys, applied' \in Seq(Corrections)
    PROVE  CardsStep /\ Calm(cards, cards')
<1>1. nextCard \in 1 .. MaxCards + 1
  BY DEF CardType
<1>2. /\ nextCard' \in nextCard .. MaxCards + 1
      /\ DOMAIN cards' = DOMAIN cs \cup nextCard .. nextCard' - 1
      /\ IsTable(cards')
      /\ \A k \in DOMAIN cs : cards'[k] = cs[k]
      /\ \A k \in DOMAIN cards' \ DOMAIN cs : \E n \in DOMAIN new : cards'[k] = new[n]
  <2>1. DOMAIN new = 1 .. len /\ AddCards(cs, new)
    OBVIOUS
  <2> QED
    BY <1>1, <2>1, AddCardsIs, ZenonT(60)
<1>3. \A k \in DOMAIN cards' : IF k \in DOMAIN cs THEN cards'[k] = cs[k] ELSE Fresh(cards'[k])
  BY <1>2
<1>4. Legal(cards')
  <2>1. \A k \in DOMAIN cards' : cards'[k] \in Cards /\ cards'[k].text[cards'[k].issue] = "original"
    BY <1>3 DEF Legal, Fresh
  <2> QED
    BY <1>2, <2>1 DEF Legal, IsTable
<1>5. Calm(cards, cards')
  BY <1>3 DEF Calm, Fresh
<1> QED
  BY <1>2, <1>4, <1>5 DEF CardsStep

LEMMA TelemetryStep ==
    ASSUME CardInv, Telemetry
    PROVE  CardInv'
<1>1. CardType /\ doc \in Texts /\ applied \in Seq(Corrections) /\ dismissed \subseteq Keys
  BY DEF CardInv, TypeInv, CardType, DocType
<1> DEFINE gone == {k \in DOMAIN cards : /\ cards[k].status = "pending"
                                       /\ cards[k].pid = Pid(doc)
                                       /\ doc[cards[k].issue] # "original"}
           again == {n \in DOMAIN applied : doc[applied[n].issue] = "original"}
           last == applied[CHOOSE n \in again : \A m \in again : m <= n]
           replay == IF again = {} THEN << >>
                     ELSE << NewCard(last.issue, last.sug, doc, doc, TRUE) >>
<1>2. AddCards(Without(cards, gone), replay)
  BY DEF Telemetry
<1>3. PICK cs : cs = Without(cards, gone)
  OBVIOUS
<1>4. Legal(cs) /\ Calm(cards, cs) /\ DOMAIN cs \subseteq DOMAIN cards
  <2>1. Legal(cards) /\ Calm(cards, cards)
    BY LegalCards DEF CardInv
  <2>2. Legal(Without(cards, gone)) /\ Calm(cards, Without(cards, gone))
    <3> HIDE DEF gone
    <3> QED
      BY <2>1, WithoutIs
  <2>3. DOMAIN Without(cards, gone) \subseteq DOMAIN cards
    BY DEF Without
  <2> QED
    BY <1>3, <2>2, <2>3
<1>5. PICK len \in Nat : DOMAIN replay = 1 .. len /\ \A n \in 1 .. len : Fresh(replay[n])
  <2>1. CASE again = {}
    <3>1. DOMAIN replay = 1 .. 0
      BY <2>1
    <3> HIDE DEF replay
    <3> QED
      BY <3>1
  <2>2. CASE again # {}
    <3>1. PICK n \in again : n = CHOOSE x \in again : \A m \in again : m <= x
      <4>1. again \subseteq 1 .. Len(applied) /\ Len(applied) \in Nat
        BY <1>1, <1>2
      <4>2. \E x \in again : \A m \in again : m <= x
        <5>1. PICK T : T = {Len(applied) - n : n \in again}
          OBVIOUS
        <5>2. T \subseteq Nat /\ T # {}
          BY <2>2, <4>1, <5>1
        <5>3. PICK y \in T : \A z \in T : y <= z
          BY <5>2, LeastNumber
        <5>4. PICK x \in again : y = Len(applied) - x
          BY <5>1
        <5>5. ASSUME NEW m \in again
              PROVE  m <= x
          <6>1. Len(applied) - m \in T
            BY <5>1
          <6>2. Len(applied) - x <= Len(applied) - m
            BY <5>3, <5>4, <6>1
          <6> QED
            BY <4>1, <6>2
        <5> QED
          BY <5>5
      <4> QED
        BY <4>2
    <3>2. n \in DOMAIN applied /\ doc[applied[n].issue] = "original"
      BY <1>2, <3>1
    <3>3. applied[n] \in Corrections
      BY <1>1, <3>2
    <3>4. PICK c : c = NewCard(applied[n].issue, applied[n].sug, doc, doc, TRUE)
      OBVIOUS
    <3>5. Fresh(c)
      <4>1. applied[n].issue \in Issues /\ applied[n].sug \in Suggestions
        BY <3>3 DEF Corrections
      <4> QED
        BY <1>1, <3>2, <3>4, <4>1, NewCardIs, ZenonT(60) DEF Fresh
    <3>6. replay = << c >>
      BY <2>2, <3>1, <3>4
    <3> HIDE DEF replay
    <3> QED
      BY <3>5, <3>6
  <2> QED
    BY <2>1, <2>2
<1>6. dismissed' \subseteq Keys /\ applied' \in Seq(Corrections) /\ AddCards(cs, replay)
  BY <1>1, <1>2, <1>3 DEF Telemetry
<1>7. CardsStep /\ Calm(cards, cards')
  BY <1>1, <1>4, <1>5, <1>6, AddCalm
<1>8. DocType' /\ NewsType' /\ UNCHANGED <<commandVars, pendingVars>>
  BY <1>1 DEF Telemetry, CardInv, TypeInv, DocType, NewsType, editorVars
<1> QED
  BY <1>7, <1>8, CalmStep

\* addReport leaves every spinning card alone and adds fresh ones.
LEMMA AddReportIs ==
    ASSUME CardInv, NEW t \in Texts, NEW S \in SUBSET Originals(t), AddReport(t, S),
           dismissed' = dismissed, applied' = applied
    PROVE  CardsStep /\ Calm(cards, cards')
<1>1. CardType /\ applied' \in Seq(Corrections) /\ dismissed' \subseteq Keys /\ Legal(cards)
  BY LegalCards DEF CardInv, TypeInv, CardType
<1>2. PICK issues, keys, drop :
        LET fresh == {k \in DOMAIN cards : Refreshed(cards[k], t, keys)}
            Refresh(c) == [c EXCEPT !.text = t, !.hash = t, !.stale = FALSE]
        IN  /\ issues \subseteq S
            /\ AddCards(Without(Changed(cards, fresh, Refresh), drop),
                        [n \in 1 .. Cardinality(issues) |->
                            NewCard(InOrder(issues)[n], "suggested", t, t, FALSE)])
  BY DEF AddReport
<1>3. PICK ds : ds = [k \in DOMAIN cards |->
                         IF Refreshed(cards[k], t, keys)
                         THEN [cards[k] EXCEPT !.text = t, !.hash = t, !.stale = FALSE]
                         ELSE cards[k]]
  OBVIOUS
<1>4. PICK new : new = [n \in 1 .. Cardinality(issues) |->
                           NewCard(InOrder(issues)[n], "suggested", t, t, FALSE)]
  OBVIOUS
<1>5. AddCards(Without(ds, drop), new)
  BY <1>2, <1>3, <1>4 DEF Changed
<1>6. Legal(ds) /\ Calm(cards, ds) /\ DOMAIN ds = DOMAIN cards
  <2>1. ASSUME NEW k \in DOMAIN cards
        PROVE  /\ ds[k] \in Cards /\ ds[k].text[ds[k].issue] = "original"
               /\ ds[k].status = cards[k].status /\ ds[k].restoring = cards[k].restoring
               /\ ds[k].issue = cards[k].issue /\ ds[k].sug = cards[k].sug
    <3>1. cards[k] \in Cards /\ cards[k].text[cards[k].issue] = "original"
      BY <1>1 DEF Legal
    <3>2. CASE Refreshed(cards[k], t, keys)
      <4>1. ds[k] = [cards[k] EXCEPT !.text = t, !.hash = t, !.stale = FALSE]
        BY <1>3, <3>2
      <4>2. t[cards[k].issue] = "original"
        BY <3>2 DEF Refreshed
      <4> QED
        BY <3>1, <4>1, <4>2, ZenonT(60) DEF Cards
    <3>3. CASE ~Refreshed(cards[k], t, keys)
      BY <1>3, <3>1, <3>3
    <3> QED
      BY <3>2, <3>3
  <2> QED
    BY <1>3, <2>1 DEF Legal, Calm
<1>7. PICK cs : cs = Without(ds, drop)
  OBVIOUS
<1>8. Legal(cs) /\ Calm(cards, cs) /\ DOMAIN cs \subseteq DOMAIN cards
  <2>1. Legal(ds) /\ Calm(cards, ds)
    BY <1>6
  <2>2. Legal(Without(ds, drop)) /\ Calm(cards, Without(ds, drop))
    BY <2>1, WithoutIs
  <2>3. DOMAIN Without(ds, drop) \subseteq DOMAIN cards
    BY <1>6 DEF Without
  <2> QED
    BY <1>7, <2>2, <2>3
<1>9. issues \subseteq Int /\ IsFiniteSet(issues) /\ Cardinality(issues) \in Nat
  <2>1. issues \subseteq 1 .. NumIssues
    BY <1>2 DEF Originals, Issues
  <2>2. IsFiniteSet(1 .. NumIssues)
    BY NumIssuesAssumption, FS_Interval
  <2>3. IsFiniteSet(issues)
    BY <2>1, <2>2, FS_Subset
  <2> QED
    BY <2>1, <2>3, FS_CardinalityType
<1>10. ASSUME NEW n \in 1 .. Cardinality(issues)
       PROVE  Fresh(new[n])
  <2>1. PICK i \in issues : i = InOrder(issues)[n]
    BY <1>9, InOrderIs
  <2>2. i \in Issues /\ t[i] = "original"
    BY <1>2 DEF Originals
  <2>3. new[n] = NewCard(i, "suggested", t, t, FALSE)
    BY <1>4, <2>1
  <2>4. "suggested" \in Suggestions /\ FALSE \in BOOLEAN
    BY DEF Suggestions
  <2>5. LET c == NewCard(i, "suggested", t, t, FALSE) IN
        c \in Cards /\ c.text[c.issue] = "original" /\ c.status = "pending" /\ ~c.restoring
    BY <2>2, <2>4, NewCardIs, ZenonT(60)
  <2> QED
    BY <2>3, <2>5 DEF Fresh
<1>11. DOMAIN new = 1 .. Cardinality(issues) /\ AddCards(cs, new)
  BY <1>4, <1>5, <1>7
<1> QED
  BY <1>1, <1>8, <1>9, <1>10, <1>11, AddCalm

LEMMA ReportStep ==
    ASSUME CardInv, ReportTelemetry \/ ReportReanalysis
    PROVE  CardInv'
<1>1. doc \in Texts /\ known \subseteq Texts /\ reanalyse \subseteq Texts
  BY DEF CardInv, TypeInv, DocType, NewsType
<1>2. PICK t \in Texts : \E S \in SUBSET Originals(t) : AddReport(t, S)
  BY <1>1 DEF ReportTelemetry, ReportReanalysis
<1>3. PICK S \in SUBSET Originals(t) : AddReport(t, S)
  BY <1>2
<1>4. dismissed' = dismissed /\ applied' = applied
  BY DEF ReportTelemetry, ReportReanalysis
<1>5. CardsStep /\ Calm(cards, cards')
  BY <1>3, <1>4, AddReportIs
<1>6. DocType' /\ NewsType' /\ UNCHANGED <<commandVars, pendingVars>>
  BY DEF ReportTelemetry, ReportReanalysis, CardInv, TypeInv, DocType, NewsType,
         editorVars, newsVars
<1> QED
  BY <1>5, <1>6, CalmStep

\* Cards may change or leave in a step that adds none.
LEMMA ChangedCards ==
    ASSUME CardInv, nextCard' = nextCard, dismissed' \subseteq Keys, applied' \in Seq(Corrections),
           IsTable(cards'), DOMAIN cards' \subseteq DOMAIN cards,
           \A k \in DOMAIN cards' : cards'[k] \in Cards /\ cards'[k].text[cards'[k].issue] = "original"
    PROVE  CardsStep
<1>1. nextCard \in 1 .. MaxCards + 1 /\ MaxCards \in Nat
  BY BoundsAssumption DEF CardInv, TypeInv, CardType
<1>2. Legal(cards')
  BY DEF Legal, IsTable
<1>3. nextCard' \in nextCard .. MaxCards + 1
  BY <1>1
<1> QED
  BY <1>2, <1>3 DEF CardsStep

LEMMA DroppedCards ==
    ASSUME CardInv, NEW S, cards' = Without(cards, S), nextCard' = nextCard,
           dismissed' \subseteq Keys, applied' \in Seq(Corrections)
    PROVE  CardsStep /\ Calm(cards, cards')
<1>1. Legal(cards) /\ Calm(cards, cards)
  BY LegalCards DEF CardInv
<1>2. Legal(cards') /\ Calm(cards, cards') /\ DOMAIN cards' \subseteq DOMAIN cards
  BY <1>1 DEF Legal, Calm, Without
<1>3. IsTable(cards')
  BY DEF IsTable, Without
<1>4. \A k \in DOMAIN cards' : cards'[k] \in Cards /\ cards'[k].text[cards'[k].issue] = "original"
  BY <1>2 DEF Legal
<1> QED
  BY <1>2, <1>3, <1>4, ChangedCards

LEMMA KeysAre ==
    ASSUME CardInv
    PROVE  /\ \A k \in DOMAIN cards : Key(cards[k]) \in Keys
           /\ dismissed \subseteq Keys /\ applied \in Seq(Corrections)
BY DEF CardInv, TypeInv, CardType, Cards, Keys, Key

LEMMA UserEditsStep ==
    ASSUME CardInv, UserEdits
    PROVE  CardInv'
<1>1. DocType'
  <2>1. PICK i \in Issues, s \in Segments : doc' = [doc EXCEPT ![i] = s]
    BY DEF UserEdits
  <2>2. doc' \in Texts
    BY <2>1 DEF CardInv, TypeInv, DocType, Texts
  <2>3. extras' \in 0 .. MaxExtras
    BY BoundsAssumption DEF UserEdits, Extra, CardInv, TypeInv, DocType
  <2> QED
    BY <2>2, <2>3 DEF UserEdits, Extra, CardInv, TypeInv, DocType
<1>2. Legal(cards) /\ Calm(cards, cards)
  BY LegalCards DEF CardInv
<1>3. CardsStep /\ Calm(cards, cards')
  <2>1. /\ nextCard' = nextCard /\ dismissed' = dismissed /\ applied' = applied
        /\ cards' = cards
    BY DEF UserEdits, cardVars
  <2>2. /\ IsTable(cards') /\ DOMAIN cards' \subseteq DOMAIN cards
        /\ \A k \in DOMAIN cards' : cards'[k] \in Cards /\ cards'[k].text[cards'[k].issue] = "original"
    BY <1>2, <2>1 DEF Legal, IsTable
  <2>3. Calm(cards, cards')
    BY <1>2, <2>1
  <2> QED
    BY <2>1, <2>2, <2>3, KeysAre, ChangedCards
<1>4. NewsType' /\ UNCHANGED <<commandVars, pendingVars>>
  BY DEF UserEdits, CardInv, TypeInv, NewsType, newsVars
<1> QED
  BY <1>1, <1>3, <1>4, CalmStep

LEMMA ExtraDoc ==
    ASSUME CardInv, Extra, doc' = doc
    PROVE  DocType'
BY BoundsAssumption DEF Extra, CardInv, TypeInv, DocType

LEMMA ChooseSuggestionStep ==
    ASSUME CardInv, ChooseSuggestion
    PROVE  CardInv'
<1>1. PICK k \in DOMAIN cards, s \in Suggestions :
        cards[k].status # "applying" /\ cards' = [cards EXCEPT ![k].sug = s]
  BY DEF ChooseSuggestion, Editable
<1>2. Legal(cards)
  BY LegalCards DEF CardInv
<1>3. ASSUME NEW j \in DOMAIN cards
      PROVE  /\ cards'[j] \in Cards /\ cards'[j].text[cards'[j].issue] = "original"
             /\ j # k => cards'[j] = cards[j]
             /\ cards'[j].status = cards[j].status /\ cards'[j].restoring = cards[j].restoring
  BY <1>1, <1>2 DEF Legal, Cards
<1>4. IsTable(cards') /\ DOMAIN cards' = DOMAIN cards
  BY <1>1, <1>2 DEF Legal, IsTable
<1>5. Calm(cards, cards')
  BY <1>1, <1>3, <1>4 DEF Calm
<1>6. /\ nextCard' = nextCard /\ dismissed' \subseteq Keys /\ applied' \in Seq(Corrections)
  BY KeysAre DEF ChooseSuggestion
<1>7. CardsStep
  BY <1>3, <1>4, <1>6, ChangedCards
<1>8. DocType' /\ NewsType' /\ UNCHANGED <<commandVars, pendingVars>>
  BY ExtraDoc DEF ChooseSuggestion, CardInv, TypeInv, NewsType, newsVars
<1> QED
  BY <1>5, <1>7, <1>8, CalmStep

LEMMA DropDismissedIs ==
    ASSUME CardInv, NEW S \in SUBSET DOMAIN cards, DropDismissed(S),
           nextCard' = nextCard, applied' = applied
    PROVE  CardsStep /\ Calm(cards, cards')
<1>1. dismissed' \subseteq Keys /\ applied' \in Seq(Corrections)
  BY KeysAre DEF DropDismissed
<1>2. cards' = Without(cards, S)
  BY DEF DropDismissed
<1> QED
  BY <1>1, <1>2, DroppedCards

LEMMA DismissStep ==
    ASSUME CardInv, DismissCard \/ DismissAll
    PROVE  CardInv'
<1>1. PICK S \in SUBSET DOMAIN cards : DropDismissed(S)
  BY DEF DismissCard, DismissAll
<1>2. nextCard' = nextCard /\ applied' = applied
  BY DEF DismissCard, DismissAll
<1>3. CardsStep /\ Calm(cards, cards')
  BY <1>1, <1>2, DropDismissedIs
<1>4. DocType' /\ NewsType' /\ UNCHANGED <<commandVars, pendingVars>>
  BY ExtraDoc DEF DismissCard, DismissAll, CardInv, TypeInv, NewsType, newsVars
<1> QED
  BY <1>3, <1>4, CalmStep

LEMMA LocateFailsStep ==
    ASSUME CardInv, LocateFails
    PROVE  CardInv'
<1>1. PICK k \in DOMAIN cards : cards' = Without(cards, {k})
  BY DEF LocateFails
<1>2. nextCard' = nextCard /\ dismissed' \subseteq Keys /\ applied' \in Seq(Corrections)
  BY KeysAre DEF LocateFails
<1>3. CardsStep /\ Calm(cards, cards')
  BY <1>1, <1>2, DroppedCards
<1>4. DocType' /\ NewsType' /\ UNCHANGED <<commandVars, pendingVars>>
  BY ExtraDoc DEF LocateFails, CardInv, TypeInv, NewsType, newsVars
<1> QED
  BY <1>3, <1>4, CalmStep

LEMMA ResetStep ==
    ASSUME CardInv, ResetQaCards
    PROVE  CardInv'
<1>1. cards' = << >> /\ DOMAIN cards' = {}
  BY DEF ResetQaCards
<1>2. /\ nextCard' = nextCard /\ dismissed' \subseteq Keys /\ applied' \in Seq(Corrections)
      /\ registry' = {}
  BY DEF ResetQaCards
<1>3. CardsStep /\ Calm(cards, cards')
  <2>1. IsTable(cards') /\ Calm(cards, cards')
    BY <1>1 DEF IsTable, Calm
  <2> QED
    BY <1>1, <1>2, <2>1, ChangedCards
<1>4. CardType' /\ CardTextHasItsIssue'
  BY <1>3, CardsStepTypes DEF CardInv
<1>5. DocType' /\ NewsType'
  BY ExtraDoc DEF ResetQaCards, CardInv, TypeInv, NewsType, newsVars
<1>6. CommandType' /\ PendingType'
  BY <1>2 DEF ResetQaCards, CardInv, TypeInv, CommandType, PendingType, pendingVars, LastCommand
<1>7. ApplyingIsAwaited' /\ SpinnersMatch' /\ RestoredAreIdle'
  BY <1>1 DEF ApplyingIsAwaited, SpinnersMatch, RestoredAreIdle
<1> QED
  BY <1>4, <1>5, <1>6, <1>7 DEF CardInv, TypeInv

-----------------------------------------------------------------------------
(* Sending a command *)

LEMMA SendIs ==
    ASSUME CardInv, NEW cmd \in CommandRecords, Send(cmd),
           cmd.auto => \E k \in CardIds : cmd.cards = {k},
           \A k \in cmd.cards \cap DOMAIN cards :
              /\ ~cards[k].restoring
              /\ Cardinality(cmd.cards) = 1 =>
                    cards[k].issue \in DOMAIN cmd.fix /\ cmd.fix[cards[k].issue] = cards[k].sug
    PROVE  /\ DocType' /\ CardType' /\ CardTextHasItsIssue' /\ NewsType' /\ CommandType'
           /\ SpinnersMatch'
           /\ UNCHANGED resolving => ApplyingIsAwaited'
           /\ DOMAIN cards' = DOMAIN cards
           /\ \A k \in DOMAIN cards : /\ cards'[k].restoring = cards[k].restoring
                                      /\ cards[k].restoring => cards'[k] = cards[k]
<1>1. PICK len \in Nat :
        /\ len = Len(cmds) /\ len < MaxCommands /\ DOMAIN cmds = 1 .. len
        /\ Len(cmds') = len + 1 /\ DOMAIN cmds' = 1 .. len + 1
        /\ cmds' \in Seq(CommandRecords)
        /\ \A c \in DOMAIN cmds : cmds'[c] = cmds[c]
        /\ cmds'[len + 1] = cmd
  <2>1. cmds \in Seq(CommandRecords) /\ Len(cmds) \in Nat
    BY DEF CardInv, TypeInv, CommandType
  <2>2. cmds' = Append(cmds, cmd) /\ Len(cmds) < MaxCommands
    BY DEF Send, LastCommand
  <2>3. PICK len \in Nat : len = Len(cmds)
    BY <2>1
  <2> QED
    BY <2>1, <2>2, <2>3, AppendProperties
<1>2. Legal(cards)
  BY LegalCards DEF CardInv
<1>3. /\ cards' = [k \in DOMAIN cards |-> IF k \in cmd.cards
                                        THEN [cards[k] EXCEPT !.status = "applying"]
                                        ELSE cards[k]]
      /\ registry' = registry \cup {len + 1} /\ atHost' = atHost \cup {len + 1}
      /\ rpc' = rpc \cup {len + 1}
      /\ UNCHANGED <<editor, doc, extras, nextCard, dismissed, applied, known, reanalyse,
                     result, events>>
  BY <1>1 DEF Send, With, Changed, LastCommand, editorVars, newsVars
<1>4. ASSUME NEW k \in DOMAIN cards
      PROVE  /\ cards'[k] \in Cards /\ cards'[k].text[cards'[k].issue] = "original"
             /\ cards'[k].restoring = cards[k].restoring
             /\ cards'[k].issue = cards[k].issue /\ cards'[k].sug = cards[k].sug
             /\ k \in cmd.cards => cards'[k].status = "applying"
             /\ k \notin cmd.cards => cards'[k] = cards[k]
             /\ cards[k].restoring => cards'[k] = cards[k]
  BY <1>2, <1>3, ZenonT(60) DEF Legal, Cards, Statuses
<1>5. IsTable(cards') /\ DOMAIN cards' = DOMAIN cards
  BY <1>3 DEF IsTable
<1>6. CardType' /\ CardTextHasItsIssue'
  BY <1>3, <1>4, <1>5, KeysAre, ChangedCards, CardsStepTypes DEF CardInv
<1>7. CommandType'
  <2>1. /\ registry \subseteq DOMAIN cmds /\ atHost \subseteq DOMAIN cmds
        /\ rpc \subseteq DOMAIN cmds /\ events \subseteq DOMAIN cmds
        /\ \A c \in DOMAIN cmds : cmds[c].auto => \E k \in CardIds : cmds[c].cards = {k}
        /\ result \in [Commands -> Results \cup {NoResult}]
        /\ \A c \in events : result[c] # NoResult
    BY DEF CardInv, TypeInv, CommandType
  <2>2. /\ registry' \subseteq DOMAIN cmds' /\ atHost' \subseteq DOMAIN cmds'
        /\ rpc' \subseteq DOMAIN cmds' /\ events' \subseteq DOMAIN cmds'
    BY <1>1, <1>3, <2>1
  <2>3. \A c \in DOMAIN cmds' : cmds'[c].auto => \E k \in CardIds : cmds'[c].cards = {k}
    BY <1>1, <2>1
  <2>4. Len(cmds') <= MaxCommands
    BY <1>1, BoundsAssumption
  <2> QED
    BY <1>1, <1>3, <2>1, <2>2, <2>3, <2>4 DEF CommandType, LastCommand
<1>8. SpinnersMatch'
  <2> SUFFICES ASSUME NEW c \in DOMAIN cmds', NEW k \in DOMAIN cards',
                      SentOnce(c)', k \in cmds'[c].cards, cards'[k].status = "applying"
               PROVE  /\ cards'[k].issue \in DOMAIN cmds'[c].fix
                      /\ cmds'[c].fix[cards'[k].issue] = cards'[k].sug
    BY DEF SpinnersMatch
  <2>1. CASE c \in DOMAIN cmds
    <3>1. SentOnce(c) /\ k \in cmds[c].cards
      BY <1>1, <2>1 DEF SentOnce
    <3>2. c # len + 1 /\ len + 1 \in DOMAIN cmds'
      BY <1>1, <2>1
    <3>3. k \notin cmd.cards
      BY <1>1, <3>2 DEF SentOnce
    <3> QED
      BY <1>1, <1>4, <1>5, <2>1, <3>1, <3>3 DEF CardInv, SpinnersMatch
  <2>2. CASE c \notin DOMAIN cmds
    <3>1. c = len + 1
      BY <1>1, <2>2
    <3>2. Cardinality(cmd.cards) = 1 /\ k \in cmd.cards /\ k \in DOMAIN cards
      BY <1>1, <1>5, <3>1 DEF SentOnce
    <3> QED
      BY <1>1, <1>4, <3>1, <3>2
  <2> QED
    BY <2>1, <2>2
<1>9. ASSUME UNCHANGED resolving
      PROVE  ApplyingIsAwaited'
  <2> SUFFICES ASSUME NEW k \in DOMAIN cards', ~cards'[k].restoring,
                      cards'[k].status = "applying", k \notin DOMAIN resolving
               PROVE  \E c \in registry' : k \in cmds'[c].cards /\ c \in rpc'
    BY <1>9 DEF ApplyingIsAwaited, Visible
  <2>1. CASE k \in cmd.cards
    BY <1>1, <1>3, <2>1
  <2>2. CASE k \notin cmd.cards
    <3>1. PICK c \in registry : k \in cmds[c].cards /\ c \in rpc
      BY <1>4, <1>5, <2>2 DEF CardInv, ApplyingIsAwaited, Visible
    <3>2. c \in DOMAIN cmds
      BY DEF CardInv, TypeInv, CommandType
    <3> QED
      BY <1>1, <1>3, <3>1, <3>2
  <2> QED
    BY <2>1, <2>2
<1>10. DocType' /\ NewsType'
  BY <1>3 DEF CardInv, TypeInv, DocType, NewsType
<1> QED
  BY <1>4, <1>5, <1>6, <1>7, <1>8, <1>9, <1>10

LEMMA AcceptCardIs ==
    ASSUME CardInv, NEW k \in DOMAIN cards, ~cards[k].restoring, NEW auto \in BOOLEAN,
           AcceptCard(k, auto)
    PROVE  /\ DocType' /\ CardType' /\ CardTextHasItsIssue' /\ NewsType' /\ CommandType'
           /\ SpinnersMatch'
           /\ UNCHANGED resolving => ApplyingIsAwaited'
           /\ DOMAIN cards' = DOMAIN cards
           /\ \A j \in DOMAIN cards : /\ cards'[j].restoring = cards[j].restoring
                                      /\ cards[j].restoring => cards'[j] = cards[j]
<1>1. cards[k] \in Cards /\ k \in CardIds
  <2>1. nextCard - 1 <= MaxCards
    BY BoundsAssumption DEF CardInv, TypeInv, CardType
  <2> QED
    BY <2>1, BoundsAssumption DEF CardInv, TypeInv, CardType, CardIds
<1>2. PICK cmd : cmd = Command({k}, cards[k].pid, cards[k].hash, cards[k].text,
                               [i \in {cards[k].issue} |-> cards[k].sug], auto)
  OBVIOUS
<1>3. /\ cmd.cards = {k} /\ cmd.auto = auto
      /\ cmd.fix = [i \in {cards[k].issue} |-> cards[k].sug]
  BY <1>2 DEF Command
<1>4. cmd \in CommandRecords
  <2>1. cards[k].issue \in Issues /\ cards[k].sug \in Suggestions
    BY <1>1 DEF Cards
  <2>2. [i \in {cards[k].issue} |-> cards[k].sug] \in Fixes
    <3>1. [i \in {cards[k].issue} |-> cards[k].sug] \in [{cards[k].issue} -> Suggestions]
      BY <2>1
    <3>2. {cards[k].issue} \in SUBSET Issues
      BY <2>1
    <3> QED
      BY <3>1, <3>2 DEF Fixes
  <2> QED
    BY <1>1, <1>2, <2>2 DEF Command, CommandRecords, Cards
<1>5. cmd.auto => \E j \in CardIds : cmd.cards = {j}
  BY <1>1, <1>3
<1>6. \A j \in cmd.cards \cap DOMAIN cards :
         /\ ~cards[j].restoring
         /\ Cardinality(cmd.cards) = 1 =>
               cards[j].issue \in DOMAIN cmd.fix /\ cmd.fix[cards[j].issue] = cards[j].sug
  BY <1>3
<1>7. Send(cmd)
  BY <1>2 DEF AcceptCard
<1> QED
  BY <1>4, <1>5, <1>6, <1>7, SendIs

LEMMA AcceptStep ==
    ASSUME CardInv, Accept
    PROVE  CardInv'
<1>1. PICK k \in DOMAIN cards : ~cards[k].restoring /\ AcceptCard(k, TRUE)
  BY DEF Accept, Acceptable, Idle, Visible
<1>2. UNCHANGED pendingVars
  BY DEF Accept
<1>3. /\ DocType' /\ CardType' /\ CardTextHasItsIssue' /\ NewsType' /\ CommandType'
      /\ SpinnersMatch' /\ ApplyingIsAwaited'
      /\ DOMAIN cards' = DOMAIN cards
      /\ \A j \in DOMAIN cards : /\ cards'[j].restoring = cards[j].restoring
                                 /\ cards[j].restoring => cards'[j] = cards[j]
  BY <1>1, <1>2, AcceptCardIs DEF pendingVars
<1>4. RestoredAreIdle'
  BY <1>2, <1>3 DEF CardInv, RestoredAreIdle, pendingVars
<1>5. PendingType'
  BY <1>2 DEF CardInv, TypeInv, PendingType, pendingVars
<1> QED
  BY <1>3, <1>4, <1>5 DEF CardInv, TypeInv

LEMMA BatchNextStep ==
    ASSUME CardInv, BatchNext
    PROVE  CardInv'
<1>1. batch # NoBatch /\ UNCHANGED <<resolving, group, check, missed>>
  BY DEF BatchNext, NoBatch
<1>2. PendingType'
  BY <1>1 DEF CardInv, TypeInv, PendingType
<1>3. PICK k \in batch.todo :
        \/ /\ k \in DOMAIN cards /\ AcceptCard(k, FALSE)
           /\ batch' = [phase |-> "waiting", todo |-> batch.todo \ {k}, cmd |-> LastCommand + 1]
        \/ /\ batch' = Rest(batch.todo \ {k})
           /\ UNCHANGED <<editorVars, cardVars, newsVars, commandVars>>
  BY DEF BatchNext
<1>4. batch' # NoBatch => batch'.todo \subseteq batch.todo
  <2>1. batch'.todo \subseteq batch.todo \/ batch' = Rest(batch.todo \ {k})
    <3>1. CASE batch' = [phase |-> "waiting", todo |-> batch.todo \ {k}, cmd |-> LastCommand + 1]
      <4>1. batch'.todo = batch.todo \ {k}
        BY <3>1
      <4> QED
        BY <4>1
    <3> QED
      BY <1>3, <3>1
  <2>2. batch' = Rest(batch.todo \ {k}) => (batch' # NoBatch => batch'.todo \subseteq batch.todo)
    BY DEF Rest
  <2> QED
    BY <2>1, <2>2
<1>5. CASE k \in DOMAIN cards /\ AcceptCard(k, FALSE)
  <2>1. ~cards[k].restoring
    BY <1>1, <1>5 DEF CardInv, RestoredAreIdle
  <2>2. /\ DocType' /\ CardType' /\ CardTextHasItsIssue' /\ NewsType' /\ CommandType'
        /\ SpinnersMatch' /\ ApplyingIsAwaited'
        /\ DOMAIN cards' = DOMAIN cards
        /\ \A j \in DOMAIN cards : /\ cards'[j].restoring = cards[j].restoring
                                   /\ cards[j].restoring => cards'[j] = cards[j]
    BY <1>1, <1>5, <2>1, AcceptCardIs
  <2>3. RestoredAreIdle'
    BY <1>1, <1>4, <2>2 DEF CardInv, RestoredAreIdle
  <2> QED
    BY <1>2, <2>2, <2>3 DEF CardInv, TypeInv
<1>6. CASE UNCHANGED <<editorVars, cardVars, newsVars, commandVars>>
  <2>1. DocType' /\ CardType' /\ NewsType' /\ CommandType'
    BY <1>6 DEF CardInv, TypeInv, DocType, CardType, NewsType, CommandType,
       editorVars, cardVars, newsVars, commandVars, LastCommand
  <2>2. CardTextHasItsIssue' /\ SpinnersMatch' /\ ApplyingIsAwaited'
    BY <1>1, <1>6 DEF CardInv, CardTextHasItsIssue, SpinnersMatch, ApplyingIsAwaited, Visible,
       SentOnce, cardVars, commandVars
  <2>3. RestoredAreIdle'
    BY <1>1, <1>4, <1>6 DEF CardInv, RestoredAreIdle, cardVars
  <2> QED
    BY <1>2, <2>1, <2>2, <2>3 DEF CardInv, TypeInv
<1> QED
  BY <1>3, <1>5, <1>6

\* What does not concern cards or commands keeps all that is said of them.
LEMMA SameCards ==
    ASSUME CardInv, UNCHANGED <<cardVars, cmds, registry, rpc, resolving>>
    PROVE  /\ CardType' /\ CardTextHasItsIssue' /\ SpinnersMatch' /\ ApplyingIsAwaited'
           /\ UNCHANGED <<batch, group, check>> => RestoredAreIdle'
<1>1. CardType'
  BY DEF CardInv, TypeInv, CardType, cardVars
<1>2. CardTextHasItsIssue' /\ SpinnersMatch' /\ ApplyingIsAwaited'
  BY DEF CardInv, CardTextHasItsIssue, SpinnersMatch, ApplyingIsAwaited, Visible, SentOnce, cardVars
<1>3. UNCHANGED <<batch, group, check>> => RestoredAreIdle'
  BY DEF CardInv, RestoredAreIdle, cardVars
<1> QED
  BY <1>1, <1>2, <1>3

LEMMA BatchStep ==
    ASSUME CardInv, BatchStart \/ BatchVerified
    PROVE  CardInv'
<1>1. UNCHANGED <<editorVars, cardVars, newsVars, commandVars, resolving, group, check, missed>>
  BY DEF BatchStart, BatchVerified
<1>2. DocType' /\ NewsType' /\ CommandType' /\ PendingType'
  BY <1>1 DEF CardInv, TypeInv, DocType, NewsType, CommandType, PendingType, LastCommand,
     editorVars, newsVars, commandVars
<1>3. CardType' /\ CardTextHasItsIssue' /\ SpinnersMatch' /\ ApplyingIsAwaited'
  BY <1>1, SameCards DEF commandVars
<1>4. ASSUME NEW k \in DOMAIN cards, cards[k].restoring, batch' # NoBatch
      PROVE  k \notin batch'.todo
  <2>1. CASE BatchStart
    <3>1. PICK todo, base, pid :
            /\ todo \subseteq {j \in DOMAIN cards : Eligible(j)}
            /\ batch' = [phase |-> "checking", todo |-> todo, base |-> base, pid |-> pid]
      BY <2>1 DEF BatchStart
    <3> QED
      BY <1>4, <3>1 DEF Eligible
  <2>2. CASE BatchVerified
    <3>1. batch # NoBatch
      BY <2>2 DEF BatchVerified, NoBatch
    <3>2. PICK todo : todo \subseteq batch.todo /\ batch' = Rest(todo)
      BY <2>2 DEF BatchVerified
    <3>3. batch'.todo = todo
      BY <1>4, <3>2 DEF Rest
    <3> QED
      BY <1>4, <3>1, <3>2, <3>3 DEF CardInv, RestoredAreIdle
  <2> QED
    BY <2>1, <2>2
<1>5. RestoredAreIdle'
  BY <1>1, <1>4 DEF CardInv, RestoredAreIdle, cardVars
<1> QED
  BY <1>2, <1>3, <1>5 DEF CardInv, TypeInv

LEMMA CheckStartsStep ==
    ASSUME CardInv, CheckStarts
    PROVE  CardInv'
<1>1. UNCHANGED <<doc, cardVars, newsVars, commandVars, resolving, batch, group, missed>>
  BY DEF CheckStarts
<1>2. /\ check' = [cards |-> [k \in ToCheck |-> [pid |-> cards[k].pid, hash |-> cards[k].hash]],
                   seen |-> doc]
      /\ DOMAIN check'.cards = ToCheck
  BY DEF CheckStarts
<1>3. DocType'
  BY <1>1, ExtraDoc DEF CheckStarts
<1>4. NewsType' /\ CommandType'
  BY <1>1 DEF CardInv, TypeInv, NewsType, CommandType, LastCommand, newsVars, commandVars
<1>5. PendingType'
  <2>1. ToCheck \subseteq CardIds /\ \A k \in ToCheck : cards[k] \in Cards
    <3>1. nextCard - 1 <= MaxCards /\ MaxCards \in Nat
      BY BoundsAssumption DEF CardInv, TypeInv, CardType
    <3> QED
      BY <3>1 DEF CardInv, TypeInv, CardType, ToCheck, CardIds
  <2>2. /\ check'.cards \in [ToCheck -> [pid: Texts, hash: Texts]]
        /\ check'.seen \in Texts
    BY <1>2, <2>1 DEF Cards, CardInv, TypeInv, DocType
  <2> QED
    BY <1>1, <1>2, <2>1, <2>2 DEF CardInv, TypeInv, PendingType
<1>6. CardType' /\ CardTextHasItsIssue' /\ SpinnersMatch' /\ ApplyingIsAwaited'
  BY <1>1, SameCards DEF commandVars
<1>7. RestoredAreIdle'
  BY <1>1, <1>2 DEF CardInv, RestoredAreIdle, ToCheck, cardVars
<1> QED
  BY <1>3, <1>4, <1>5, <1>6, <1>7 DEF CardInv, TypeInv

-----------------------------------------------------------------------------
(* A sentence *)

LEMMA FailedCards ==
    ASSUME CardInv, NEW S, cards' = With(S, "failed"), nextCard' = nextCard,
           dismissed' = dismissed, applied' = applied
    PROVE  /\ CardsStep /\ Calm(cards, cards')
           /\ DOMAIN cards' = DOMAIN cards
<1>1. Legal(cards)
  BY LegalCards DEF CardInv
<1>2. cards' = [k \in DOMAIN cards |-> IF k \in S THEN [cards[k] EXCEPT !.status = "failed"]
                                       ELSE cards[k]]
  BY DEF With, Changed
<1>3. ASSUME NEW k \in DOMAIN cards
      PROVE  /\ cards'[k] \in Cards /\ cards'[k].text[cards'[k].issue] = "original"
             /\ k \in S => cards'[k].status = "failed"
             /\ k \notin S => cards'[k] = cards[k]
             /\ cards'[k].restoring = cards[k].restoring
  <2>1. cards[k] \in Cards /\ cards[k].text[cards[k].issue] = "original"
    BY <1>1 DEF Legal
  <2>2. CASE k \in S
    <3>1. cards'[k] = [cards[k] EXCEPT !.status = "failed"]
      BY <1>2, <2>2
    <3> QED
      BY <2>1, <2>2, <3>1 DEF Cards, Statuses
  <2>3. CASE k \notin S
    BY <1>2, <2>1, <2>3
  <2> QED
    BY <2>2, <2>3
<1>4. IsTable(cards') /\ DOMAIN cards' = DOMAIN cards
  BY <1>2 DEF IsTable
<1>5. Calm(cards, cards')
  BY <1>3, <1>4 DEF Calm
<1>6. dismissed' \subseteq Keys /\ applied' \in Seq(Corrections)
  BY KeysAre
<1> QED
  BY <1>3, <1>4, <1>5, <1>6, ChangedCards

LEMMA GroupStartStep ==
    ASSUME CardInv, GroupStart
    PROVE  CardInv'
<1>1. /\ UNCHANGED <<editorVars, nextCard, dismissed, applied, newsVars, commandVars,
                     resolving, batch, check, missed>>
      /\ group = NoGroup
  BY DEF GroupStart
<1>2. DocType' /\ NewsType' /\ CommandType'
  BY <1>1 DEF CardInv, TypeInv, DocType, NewsType, CommandType, LastCommand,
     editorVars, newsVars, commandVars
<1>3. PICK pid \in {cards[k].pid : k \in InSentence} :
        LET S == {k \in InSentence : cards[k].pid = pid}
            k == CHOOSE j \in S : TRUE IN
        /\ Cardinality(S) > 1
        /\ IF Plannable(S)
           THEN /\ group' = Command(S, pid, cards[k].hash, cards[k].text,
                                    [i \in {cards[j].issue : j \in S} |->
                                        cards[CHOOSE j \in S : cards[j].issue = i].sug],
                                    FALSE)
                /\ UNCHANGED cards
           ELSE group' = NoGroup /\ cards' = With(S, "failed")
  BY DEF GroupStart
<1>4. PICK S : S = {k \in InSentence : cards[k].pid = pid}
  OBVIOUS
<1>5. PICK k \in S : k = CHOOSE j \in S : TRUE
  BY <1>3, <1>4
<1>6. Legal(cards) /\ S \subseteq DOMAIN cards /\ DOMAIN cards \subseteq CardIds
  <2>1. nextCard - 1 <= MaxCards /\ MaxCards \in Nat
    BY BoundsAssumption DEF CardInv, TypeInv, CardType
  <2> QED
    BY <1>4, <2>1, LegalCards DEF CardInv, TypeInv, CardType, CardIds, InSentence
<1>7. Cardinality(S) > 1 /\ Cardinality(S) # 1
  <2>1. IsFiniteSet(CardIds)
    BY BoundsAssumption, FS_Interval DEF CardIds
  <2>2. Cardinality(S) \in Nat
    BY <1>6, <2>1, FS_Subset, FS_CardinalityType
  <2> QED
    BY <1>3, <1>4, <2>2
<1>8. CASE Plannable(S)
  <2>1. PICK fix : fix = [i \in {cards[j].issue : j \in S} |->
                             cards[CHOOSE j \in S : cards[j].issue = i].sug]
    OBVIOUS
  <2>2. group' = Command(S, pid, cards[k].hash, cards[k].text, fix, FALSE) /\ UNCHANGED cards
    BY <1>3, <1>4, <1>5, <1>8, <2>1
  <2>3. fix \in Fixes
    <3>1. PICK D : D = {cards[j].issue : j \in S}
      OBVIOUS
    <3>2. D \in SUBSET Issues
      BY <1>6, <3>1 DEF Legal, Cards
    <3>3. ASSUME NEW i \in D
          PROVE  fix[i] \in Suggestions
      <4>1. PICK j \in S : j = CHOOSE x \in S : cards[x].issue = i
        BY <3>1
      <4>2. fix[i] = cards[j].sug
        BY <2>1, <3>1, <4>1
      <4> QED
        BY <1>6, <4>2 DEF Legal, Cards
    <3>4. fix \in [D -> Suggestions]
      BY <2>1, <3>1, <3>3
    <3> QED
      BY <3>2, <3>4 DEF Fixes
  <2>4. pid \in Texts /\ cards[k].hash \in Texts /\ cards[k].text \in Texts /\ S \subseteq CardIds
    BY <1>4, <1>6 DEF Legal, Cards
  <2>5. group' \in CommandRecords /\ group'.cards = S /\ ~group'.auto
    BY <2>2, <2>3, <2>4 DEF Command, CommandRecords
  <2>6. PendingType'
    BY <1>1, <1>7, <2>5 DEF CardInv, TypeInv, PendingType
  <2>7. CardType' /\ CardTextHasItsIssue' /\ SpinnersMatch' /\ ApplyingIsAwaited'
    BY <1>1, <2>2, SameCards DEF cardVars, commandVars
  <2>8. \A j \in S : ~cards[j].restoring
    BY <1>4 DEF InSentence, Eligible
  <2>9. RestoredAreIdle'
    BY <1>1, <2>2, <2>5, <2>8 DEF CardInv, RestoredAreIdle
  <2> QED
    BY <1>2, <2>6, <2>7, <2>9 DEF CardInv, TypeInv
<1>9. CASE ~Plannable(S)
  <2>1. group' = NoGroup /\ cards' = With(S, "failed")
    BY <1>3, <1>4, <1>9
  <2>2. CardsStep /\ Calm(cards, cards')
    BY <1>1, <2>1, FailedCards
  <2> QED
    BY <1>1, <1>2, <2>1, <2>2, CalmStep DEF pendingVars
<1> QED
  BY <1>8, <1>9

LEMMA GroupVerifiedStep ==
    ASSUME CardInv, GroupVerified
    PROVE  CardInv'
<1>1. /\ group # NoGroup /\ group' = NoGroup /\ UNCHANGED <<resolving, batch, check, missed>>
  BY DEF GroupVerified
<1>2. PendingType'
  BY <1>1 DEF CardInv, TypeInv, PendingType
<1>3. CASE Send(group)
  <2>1. group \in CommandRecords /\ Cardinality(group.cards) # 1 /\ ~group.auto
    BY <1>1 DEF CardInv, TypeInv, PendingType
  <2>2. \A k \in group.cards \cap DOMAIN cards :
           /\ ~cards[k].restoring
           /\ Cardinality(group.cards) = 1 =>
                 cards[k].issue \in DOMAIN group.fix /\ group.fix[cards[k].issue] = cards[k].sug
    BY <2>1 DEF CardInv, RestoredAreIdle
  <2>3. /\ DocType' /\ CardType' /\ CardTextHasItsIssue' /\ NewsType' /\ CommandType'
        /\ SpinnersMatch' /\ ApplyingIsAwaited'
        /\ DOMAIN cards' = DOMAIN cards
        /\ \A k \in DOMAIN cards : /\ cards'[k].restoring = cards[k].restoring
                                   /\ cards[k].restoring => cards'[k] = cards[k]
    <3>1. PICK cmd : cmd = group
      OBVIOUS
    <3>2. cmd \in CommandRecords /\ Send(cmd) /\ ~cmd.auto
      BY <1>3, <2>1, <3>1
    <3>3. \A k \in cmd.cards \cap DOMAIN cards :
             /\ ~cards[k].restoring
             /\ Cardinality(cmd.cards) = 1 =>
                   cards[k].issue \in DOMAIN cmd.fix /\ cmd.fix[cards[k].issue] = cards[k].sug
      BY <2>2, <3>1
    <3> QED
      BY <1>1, <3>2, <3>3, SendIs
  <2>4. RestoredAreIdle'
    BY <1>1, <2>3 DEF CardInv, RestoredAreIdle, NoGroup
  <2> QED
    BY <1>2, <2>3, <2>4 DEF CardInv, TypeInv
<1>4. CASE /\ cards' = With(group.cards, "failed")
           /\ UNCHANGED <<editorVars, nextCard, dismissed, applied, newsVars, commandVars>>
  <2>1. CardsStep /\ Calm(cards, cards') /\ DOMAIN cards' = DOMAIN cards
    BY <1>4, FailedCards
  <2>2. CardType' /\ CardTextHasItsIssue'
    BY <2>1, CardsStepTypes DEF CardInv
  <2>3. DocType' /\ NewsType' /\ CommandType'
    BY <1>4 DEF CardInv, TypeInv, DocType, NewsType, CommandType, LastCommand,
       editorVars, newsVars, commandVars
  <2>4. SpinnersMatch' /\ ApplyingIsAwaited'
    BY <1>1, <1>4, <2>1, CalmSpinners, CalmAwaited DEF CardInv, commandVars
  <2>5. RestoredAreIdle'
    BY <1>1, <2>1 DEF CardInv, RestoredAreIdle, Calm, NoGroup
  <2> QED
    BY <1>2, <2>2, <2>3, <2>4, <2>5 DEF CardInv, TypeInv
<1> QED
  BY <1>3, <1>4 DEF GroupVerified

-----------------------------------------------------------------------------
(* The editor *)

LEMMA CommandIs ==
    ASSUME CardInv, NEW c \in DOMAIN cmds
    PROVE  c \in Commands /\ cmds[c] \in CommandRecords
<1>1. MaxCommands \in Nat /\ Len(cmds) \in Nat /\ Len(cmds) <= MaxCommands
  BY BoundsAssumption DEF CardInv, TypeInv, CommandType, LastCommand
<1>2. cmds \in Seq(CommandRecords)
  BY DEF CardInv, TypeInv, CommandType
<1> QED
  BY <1>1, <1>2 DEF Commands

LEMMA AnswerIs ==
    ASSUME CardInv, DocType', NEW c \in atHost, NEW r \in Results, Answer(c, r)
    PROVE  CardInv'
<1>1. c \in Commands /\ c \in DOMAIN cmds
  BY CommandIs DEF CardInv, TypeInv, CommandType
<1>2. /\ result' = [result EXCEPT ![c] = r]
      /\ atHost' = atHost \ {c}
      /\ events' \subseteq events \cup {c}
      /\ UNCHANGED <<cardVars, newsVars, cmds, registry, rpc, pendingVars>>
  BY DEF Answer
<1>3. r # NoResult
  BY DEF Results, Outcomes, NoResult, Result
<1>4. CommandType'
  <2>1. /\ result \in [Commands -> Results \cup {NoResult}]
        /\ \A d \in events : result[d] # NoResult
    BY DEF CardInv, TypeInv, CommandType
  <2>2. result' \in [Commands -> Results \cup {NoResult}] /\ \A d \in events' : result'[d] # NoResult
    <3>1. \A d \in Commands : result'[d] = IF d = c THEN r ELSE result[d]
      BY <1>2, <2>1
    <3>2. events \subseteq Commands
      BY CommandIs DEF CardInv, TypeInv, CommandType
    <3> QED
      BY <1>1, <1>2, <1>3, <2>1, <3>1, <3>2
  <2> QED
    BY <1>1, <1>2, <2>2 DEF CardInv, TypeInv, CommandType, LastCommand
<1>5. NewsType' /\ PendingType'
  BY <1>2 DEF CardInv, TypeInv, NewsType, PendingType, newsVars, pendingVars
<1>6. CardType' /\ CardTextHasItsIssue' /\ SpinnersMatch' /\ ApplyingIsAwaited' /\ RestoredAreIdle'
  BY <1>2, SameCards DEF pendingVars
<1> QED
  BY <1>4, <1>5, <1>6 DEF CardInv, TypeInv

LEMMA HostStep ==
    ASSUME CardInv, NEW c \in atHost, HostExecutes(c) \/ HostFails(c)
    PROVE  CardInv'
<1>1. cmds[c] \in CommandRecords
  BY CommandIs DEF CardInv, TypeInv, CommandType
<1>2. cmds[c].fix \in Fixes /\ doc \in Texts
  BY <1>1 DEF CommandRecords, CardInv, TypeInv, DocType
<1>3. editor' = editor /\ extras' \in 0 .. MaxExtras
  BY BoundsAssumption DEF HostExecutes, HostFails, Extra, CardInv, TypeInv, DocType
<1>4. doc' \in Texts /\ \E r \in Results : Answer(c, r)
  <2>1. CASE HostExecutes(c)
    <3>1. Apply(doc, cmds[c].fix) \in Texts
      BY <1>2, ApplyIs
    <3>2. doc' \in Texts
      BY <1>2, <2>1, <3>1 DEF HostExecutes
    <3>3. \E s \in Outcomes, h \in SUBSET Texts : Answer(c, Result(s, h))
      <4>1. /\ {} \in SUBSET Texts /\ {doc} \in SUBSET Texts
            /\ {Apply(doc, cmds[c].fix)} \in SUBSET Texts
            /\ {"SUCCESS", "FAILED", "STALE_REJECTED"} \subseteq Outcomes
        BY <1>2, <3>1 DEF Outcomes
      <4> QED
        BY <2>1, <4>1 DEF HostExecutes
    <3> QED
      BY <3>2, <3>3 DEF Result, Results
  <2>2. CASE HostFails(c)
    <3>1. CASE Answer(c, Result("FAILED", {})) /\ UNCHANGED doc
      BY <1>2, <3>1 DEF Result, Results, Outcomes
    <3>2. CASE Answer(c, Result("ROLLED_BACK", {doc})) /\ UNCHANGED doc
      BY <1>2, <3>2 DEF Result, Results, Outcomes
    <3>3. CASE /\ \E i \in Issues, S \in SUBSET DOMAIN cmds[c].fix \ {{}} :
                     doc' = [Apply(doc, [j \in S |-> cmds[c].fix[j]]) EXCEPT ![i] = "typed"]
               /\ Answer(c, Result("ROLLBACK_ABORTED", {doc'}))
      <4>1. PICK i \in Issues, S \in SUBSET DOMAIN cmds[c].fix :
              doc' = [Apply(doc, [j \in S |-> cmds[c].fix[j]]) EXCEPT ![i] = "typed"]
        BY <3>3
      <4>2. PICK D \in SUBSET Issues : cmds[c].fix \in [D -> Suggestions]
        BY <1>2 DEF Fixes
      <4>3. [j \in S |-> cmds[c].fix[j]] \in [S -> Suggestions] /\ S \in SUBSET Issues
        BY <4>2
      <4>4. [j \in S |-> cmds[c].fix[j]] \in Fixes
        BY <4>3 DEF Fixes
      <4>5. Apply(doc, [j \in S |-> cmds[c].fix[j]]) \in Texts
        BY <1>2, <4>4, ApplyIs
      <4>6. doc' \in Texts
        BY <4>1, <4>5 DEF Texts, Segments
      <4> QED
        BY <3>3, <4>6 DEF Result, Results, Outcomes
    <3> QED
      BY <2>2, <3>1, <3>2, <3>3 DEF HostFails
  <2> QED
    BY <2>1, <2>2
<1>5. DocType'
  BY <1>3, <1>4 DEF CardInv, TypeInv, DocType
<1> QED
  BY <1>4, <1>5, AnswerIs

-----------------------------------------------------------------------------
(* The answer in the dashboard *)

LEMMA ToldHashIs ==
    ASSUME NEW card \in Cards, NEW r \in Results
    PROVE  ToldHash(card, r) \in Texts
<1>1. CASE r.hash = {}
  BY <1>1 DEF ToldHash, Cards
<1>2. CASE r.hash # {}
  <2>1. PICK h \in r.hash : h = CHOOSE x \in r.hash : TRUE
    BY <1>2
  <2>2. h \in Texts
    BY DEF Results
  <2> QED
    BY <1>2, <2>1, <2>2 DEF ToldHash
<1> QED
  BY <1>1, <1>2

LEMMA SettledIs ==
    ASSUME NEW card \in Cards, NEW r \in Results, card.text[card.issue] = "original"
    PROVE  LET d == Settled(card, r) IN
           /\ d \in Cards /\ d.text[d.issue] = "original"
           /\ d.status # "applying" /\ d.restoring = card.restoring
<1>1. ToldHash(card, r) \in Texts
  BY ToldHashIs
<1>2. StatusAfter(r) \in {"rolled_back", "rollback_aborted", "failed"}
  BY DEF StatusAfter
<1> QED
  BY <1>1, <1>2 DEF Settled, Cards, Statuses

LEMMA RebasedIs ==
    ASSUME NEW card \in Cards, NEW cmd \in CommandRecords,
           card.text[card.issue] = "original", card.status = "pending"
    PROVE  LET d == Rebased(card, cmd) IN
           /\ d \in Cards /\ d.text[d.issue] = "original"
           /\ d.status # "applying" /\ d.restoring = card.restoring
<1>1. cmd.text \in Texts /\ cmd.fix \in Fixes /\ card.issue \in Issues
  BY DEF CommandRecords, Cards
<1>2. CASE PointsAt(card, cmd.text) /\ card.issue \notin DOMAIN cmd.fix
  <2>1. Expected(cmd) \in Texts /\ Expected(cmd)[card.issue] = "original"
    BY <1>1, <1>2, ApplyIs DEF Expected, PointsAt
  <2>2. Before(Expected(cmd), card.issue)
            \in UNION {[1 .. n -> Segments] : n \in 0 .. NumIssues - 1}
    BY <1>1, <2>1, BeforeIs
  <2>3. Rebased(card, cmd) = [card EXCEPT !.text = Expected(cmd), !.hash = Expected(cmd),
                                          !.before = Before(Expected(cmd), card.issue),
                                          !.stale = FALSE]
    BY <1>2 DEF Rebased
  <2> QED
    BY <2>1, <2>2, <2>3, ZenonT(60) DEF Cards
<1>3. CASE ~(PointsAt(card, cmd.text) /\ card.issue \notin DOMAIN cmd.fix)
  <2>1. Rebased(card, cmd) = [card EXCEPT !.status = "stale_conflict"]
    BY <1>3 DEF Rebased
  <2> QED
    BY <2>1 DEF Cards, Statuses
<1> QED
  BY <1>2, <1>3

\* What a success leaves: its cards are gone, the others still do not spin.
LEMMA AfterSuccessIs ==
    ASSUME CardInv, NEW cmd \in CommandRecords, NEW r
    PROVE  LET cs == AfterSuccess(cmd, r) IN
           /\ IsTable(cs) /\ DOMAIN cs = DOMAIN cards \ cmd.cards
           /\ \A k \in DOMAIN cs : cs[k] \in Cards /\ cs[k].text[cs[k].issue] = "original"
           /\ Calm(cards, cs)
<1>1. Legal(cards)
  BY LegalCards DEF CardInv
<1>2. PICK rest : rest = Without(cards, cmd.cards)
  OBVIOUS
<1>3. /\ DOMAIN rest = DOMAIN cards \ cmd.cards
      /\ \A k \in DOMAIN rest : rest[k] = cards[k]
  BY <1>2 DEF Without
<1>4. PICK cs : cs = AfterSuccess(cmd, r)
  OBVIOUS
<1>5. \/ cs = [k \in DOMAIN rest |-> IF k \in Siblings(rest, cmd) THEN Rebased(rest[k], cmd)
                                     ELSE rest[k]]
      \/ cs = [k \in DOMAIN rest |-> IF k \in Siblings(rest, cmd)
                                     THEN [rest[k] EXCEPT !.stale = TRUE] ELSE rest[k]]
  BY <1>2, <1>4 DEF AfterSuccess, Changed
<1>6. DOMAIN cs = DOMAIN rest /\ IsTable(cs)
  BY <1>5 DEF IsTable
<1>7. ASSUME NEW k \in DOMAIN rest
      PROVE  /\ cs[k] \in Cards /\ cs[k].text[cs[k].issue] = "original"
             /\ cs[k].restoring = cards[k].restoring
             /\ cs[k] = cards[k] \/ cs[k].status # "applying"
  <2>1. cards[k] \in Cards /\ cards[k].text[cards[k].issue] = "original" /\ rest[k] = cards[k]
    BY <1>1, <1>3 DEF Legal
  <2>2. CASE k \notin Siblings(rest, cmd)
    BY <1>5, <2>1, <2>2
  <2>3. CASE k \in Siblings(rest, cmd)
    <3>1. cards[k].status = "pending"
      BY <2>1, <2>3 DEF Siblings
    <3>2. CASE cs[k] = Rebased(cards[k], cmd)
      BY <2>1, <3>1, <3>2, RebasedIs
    <3>3. CASE cs[k] = [cards[k] EXCEPT !.stale = TRUE]
      BY <2>1, <3>1, <3>3 DEF Cards
    <3> QED
      BY <1>5, <2>1, <2>3, <3>2, <3>3
  <2> QED
    BY <2>2, <2>3
<1>8. Calm(cards, cs)
  BY <1>3, <1>6, <1>7 DEF Calm
<1> QED
  BY <1>3, <1>4, <1>6, <1>7, <1>8

LEMMA RecordedIs ==
    ASSUME CardInv, NEW c \in DOMAIN cmds, NEW held, held \subseteq DOMAIN cards, NEW new,
           IsTable(new), DOMAIN new = 1 .. Cardinality(held),
           \A n \in 1 .. Cardinality(held) : new[n] = Accepted(InOrder(held)[n], c)
    PROVE  /\ new \in Seq(Corrections) /\ applied \o new \in Seq(Corrections)
           /\ applied \in Seq(Corrections) /\ DOMAIN applied = 1 .. Len(applied)
           /\ DOMAIN (applied \o new) = 1 .. Len(applied) + Len(new)
           /\ \A n \in 1 .. Len(applied) : (applied \o new)[n] = applied[n]
           /\ \A n \in 1 .. Len(new) : (applied \o new)[Len(applied) + n] = new[n]
           /\ Len(new) = Cardinality(held) /\ \A n \in 1 .. Len(new) : InOrder(held)[n] \in held
<1>1. held \subseteq Int /\ IsFiniteSet(held) /\ Cardinality(held) \in Nat
  <2>1. nextCard - 1 \in Int /\ held \subseteq 1 .. nextCard - 1
    BY DEF CardInv, TypeInv, CardType
  <2>2. IsFiniteSet(1 .. nextCard - 1)
    BY <2>1, FS_Interval
  <2>3. IsFiniteSet(held) /\ held \subseteq Int
    BY <2>1, <2>2, FS_Subset
  <2> QED
    BY <2>3, FS_CardinalityType
<1>2. ASSUME NEW n \in 1 .. Cardinality(held)
      PROVE  \E k \in held : new[n] = Accepted(k, c) /\ new[n] \in Corrections
  <2>1. PICK k \in held : k = InOrder(held)[n]
    BY <1>1, InOrderIs
  <2>2. cards[k] \in Cards /\ c \in Commands
    BY CommandIs, LegalCards DEF CardInv, Legal
  <2> QED
    BY <2>1, <2>2 DEF Accepted, Corrections, Cards
<1>3. new \in Seq(Corrections) /\ Len(new) = Cardinality(held)
  <2>1. new \in [1 .. Cardinality(held) -> Corrections]
    BY <1>2 DEF IsTable
  <2> QED
    BY <1>1, <2>1
<1>4. applied \in Seq(Corrections)
  BY KeysAre
<1>5. Len(applied) \in Nat /\ Len(new) \in Nat /\ DOMAIN applied = 1 .. Len(applied)
  BY <1>3, <1>4, LenProperties
<1>6. /\ applied \o new \in Seq(Corrections)
      /\ Len(applied \o new) = Len(applied) + Len(new)
      /\ \A n \in 1 .. Len(applied) + Len(new) :
            (applied \o new)[n] = IF n <= Len(applied) THEN applied[n]
                                  ELSE new[n - Len(applied)]
  BY <1>3, <1>4, ConcatProperties
<1>7. DOMAIN (applied \o new) = 1 .. Len(applied) + Len(new)
  BY <1>6, LenProperties
<1>8. \A n \in 1 .. Len(applied) : (applied \o new)[n] = applied[n]
  BY <1>5, <1>6
<1>9. ASSUME NEW n \in 1 .. Len(new)
      PROVE  (applied \o new)[Len(applied) + n] = new[n]
  <2>1. PICK len \in Nat, more \in Nat : len = Len(applied) /\ more = Len(new)
    BY <1>5
  <2>2. n \in 1 .. more
    BY <2>1
  <2>3. len + n \in 1 .. len + more /\ ~(len + n <= len) /\ len + n - len = n
    BY <2>2
  <2>4. \A m \in 1 .. len + more :
           (applied \o new)[m] = IF m <= len THEN applied[m] ELSE new[m - len]
    BY <1>6, <2>1
  <2>5. PICK m \in 1 .. len + more : m = len + n /\ ~(m <= len) /\ m - len = n
    BY <2>3
  <2>6. (applied \o new)[m] = IF m <= len THEN applied[m] ELSE new[m - len]
    BY <2>4
  <2> QED
    BY <2>1, <2>5, <2>6, Zenon
<1>10. \A n \in 1 .. Len(new) : InOrder(held)[n] \in held
  BY <1>1, <1>3, InOrderIs
<1> QED
  BY <1>3, <1>4, <1>5, <1>6, <1>7, <1>8, <1>9, <1>10

LEMMA PayloadIs ==
    ASSUME CardInv, NEW k \in DOMAIN cards, NEW cmd, NEW r \in Results
    PROVE  Payload(k, cmd, r) \in [text: Texts, hash: Texts]
<1>1. cards[k] \in Cards
  BY LegalCards DEF CardInv, Legal
<1>2. CASE \E t \in known : Pid(t) = cmd.pid
  <2>1. PICK t \in known : t = CHOOSE x \in known : TRUE
    BY <1>2
  <2>2. t \in Texts
    BY DEF CardInv, TypeInv, NewsType
  <2> QED
    BY <1>2, <2>1, <2>2 DEF Payload
<1>3. CASE ~(\E t \in known : Pid(t) = cmd.pid)
  <2>1. ToldHash(cards[k], r) \in Texts /\ cards[k].text \in Texts
    BY <1>1, ToldHashIs DEF Cards
  <2> QED
    BY <1>3, <2>1 DEF Payload
<1> QED
  BY <1>2, <1>3

\* Whatever the answer, none of the command's cards is left spinning but for one
\* whose re-analysis is under way.
LEMMA ProcessIs ==
    ASSUME CardInv, NEW c \in DOMAIN cmds, NEW r \in Results, Process(c, r),
           nextCard' = nextCard, dismissed' = dismissed
    PROVE  /\ CardsStep /\ Calm(cards, cards')
           /\ registry' \subseteq registry
           /\ \A d \in registry : d # c => d \in registry'
           /\ resolving' \in [DOMAIN resolving' -> [text: Texts, hash: Texts]]
           /\ DOMAIN resolving \subseteq DOMAIN resolving' /\ DOMAIN resolving' \subseteq CardIds
           /\ c \in registry =>
                 \A k \in cmds[c].cards \cap DOMAIN cards' :
                    cards'[k].status = "applying" => k \in DOMAIN resolving'
<1>1. /\ Legal(cards) /\ Calm(cards, cards) /\ IsTable(cards)
      /\ dismissed' \subseteq Keys /\ applied \in Seq(Corrections)
  BY LegalCards, KeysAre DEF CardInv, Legal, IsTable
<1>2. cmds[c] \in CommandRecords
  BY CommandIs
<1>3. /\ resolving \in [DOMAIN resolving -> [text: Texts, hash: Texts]]
      /\ DOMAIN resolving \subseteq CardIds
  BY DEF CardInv, TypeInv, PendingType
<1>4. PICK held : held = cmds[c].cards \cap DOMAIN cards
  OBVIOUS
<1>5. ASSUME cards' = cards, applied' = applied
      PROVE  CardsStep /\ Calm(cards, cards')
  <2>1. \A k \in DOMAIN cards : cards[k] \in Cards /\ cards[k].text[cards[k].issue] = "original"
    BY <1>1 DEF Legal
  <2> QED
    BY <1>1, <1>5, <2>1, ChangedCards
<1>6. CASE ~Pending(c)
  BY <1>3, <1>5, <1>6 DEF Process, Pending
<1>7. CASE Pending(c)
  <2>1. registry' = registry \ {c}
    BY <1>7 DEF Process
  <2>2. CASE held = {} /\ UNCHANGED <<cards, applied, resolving>>
    BY <1>3, <1>4, <1>5, <2>1, <2>2
  <2>3. CASE /\ r.status = "STALE_REJECTED" /\ cmds[c].auto
             /\ \E k \in held : StartResolver(k, cmds[c], r)
             /\ UNCHANGED applied
    <3>1. PICK k \in held : StartResolver(k, cmds[c], r)
      BY <2>3
    <3>2. cmds[c].cards = {k} /\ k \in CardIds /\ k \in DOMAIN cards
      BY <1>2, <1>4, <2>3 DEF CardInv, TypeInv, CommandType, CommandRecords
    <3>3. CASE k \in DOMAIN resolving
      BY <1>3, <1>5, <2>1, <2>3, <3>1, <3>2, <3>3 DEF StartResolver
    <3>4. CASE k \notin DOMAIN resolving
      <4>1. PICK p : p = Payload(k, cmds[c], r)
        OBVIOUS
      <4>2. /\ resolving' = [j \in DOMAIN resolving \cup {k} |->
                                IF j = k THEN p ELSE resolving[j]]
            /\ cards' = [cards EXCEPT ![k].status = "stale_refreshing", ![k].stale = TRUE]
        BY <3>1, <3>4, <4>1 DEF StartResolver
      <4>3. p \in [text: Texts, hash: Texts]
        BY <3>2, <4>1, PayloadIs
      <4>4. /\ resolving' \in [DOMAIN resolving' -> [text: Texts, hash: Texts]]
            /\ DOMAIN resolving \subseteq DOMAIN resolving' /\ DOMAIN resolving' \subseteq CardIds
            /\ k \in DOMAIN resolving'
        BY <1>3, <3>2, <4>2, <4>3
      <4>5. IsTable(cards') /\ DOMAIN cards' = DOMAIN cards
        BY <1>1, <4>2 DEF Legal, IsTable
      <4>6. ASSUME NEW j \in DOMAIN cards
            PROVE  /\ cards'[j] \in Cards /\ cards'[j].text[cards'[j].issue] = "original"
                   /\ j # k => cards'[j] = cards[j]
                   /\ j = k => cards'[j].status = "stale_refreshing"
                   /\ cards'[j].restoring = cards[j].restoring
        <5>1. cards[j] \in Cards /\ cards[j].text[cards[j].issue] = "original"
          BY <1>1 DEF Legal
        <5>2. CASE j = k
          <6>1. cards'[j] = [cards[j] EXCEPT !.status = "stale_refreshing", !.stale = TRUE]
            BY <1>1, <4>2, <5>2 DEF Legal
          <6> QED
            BY <5>1, <5>2, <6>1 DEF Cards, Statuses
        <5>3. CASE j # k
          BY <1>1, <4>2, <5>1, <5>3 DEF Legal
        <5> QED
          BY <5>2, <5>3
      <4>7. Calm(cards, cards')
        BY <4>5, <4>6 DEF Calm
      <4>8. CardsStep
        BY <1>1, <2>3, <4>5, <4>6, ChangedCards
      <4> QED
        BY <2>1, <3>2, <4>4, <4>7, <4>8
    <3> QED
      BY <3>3, <3>4
  <2>4. CASE /\ cards' = AfterSuccess(cmds[c], r)
             /\ applied' = applied \o [n \in 1 .. Cardinality(held) |-> Accepted(InOrder(held)[n], c)]
             /\ UNCHANGED resolving
    <3>1. applied' \in Seq(Corrections)
      <4>1. PICK new : new = [n \in 1 .. Cardinality(held) |-> Accepted(InOrder(held)[n], c)]
        OBVIOUS
      <4>2. /\ held \subseteq DOMAIN cards
            /\ IsTable(new) /\ DOMAIN new = 1 .. Cardinality(held)
            /\ \A n \in 1 .. Cardinality(held) : new[n] = Accepted(InOrder(held)[n], c)
        BY <1>4, <4>1 DEF IsTable
      <4>3. applied \o new \in Seq(Corrections)
        BY <4>2, RecordedIs
      <4> QED
        BY <2>4, <4>1, <4>3
    <3>2. /\ IsTable(cards') /\ DOMAIN cards' = DOMAIN cards \ cmds[c].cards
          /\ \A k \in DOMAIN cards' : cards'[k] \in Cards /\ cards'[k].text[cards'[k].issue] = "original"
          /\ Calm(cards, cards')
      BY <1>2, <2>4, AfterSuccessIs
    <3>3. CardsStep
      BY <1>1, <3>1, <3>2, ChangedCards
    <3> QED
      BY <1>3, <2>1, <2>4, <3>2, <3>3
  <2>5. CASE /\ cards' = Changed(cards, held, LAMBDA d : Settled(d, r))
             /\ UNCHANGED <<applied, resolving>>
    <3>1. cards' = [k \in DOMAIN cards |-> IF k \in held THEN Settled(cards[k], r) ELSE cards[k]]
      BY <2>5 DEF Changed
    <3>2. ASSUME NEW k \in DOMAIN cards
          PROVE  /\ cards'[k] \in Cards /\ cards'[k].text[cards'[k].issue] = "original"
                 /\ k \in held => cards'[k].status # "applying"
                 /\ k \notin held => cards'[k] = cards[k]
                 /\ cards'[k].restoring = cards[k].restoring
      <4>1. cards[k] \in Cards /\ cards[k].text[cards[k].issue] = "original"
        BY <1>1 DEF Legal
      <4>2. CASE k \in held
        <5>1. cards'[k] = Settled(cards[k], r)
          BY <3>1, <4>2
        <5> QED
          BY <4>1, <4>2, <5>1, SettledIs
      <4>3. CASE k \notin held
        BY <3>1, <4>1, <4>3
      <4> QED
        BY <4>2, <4>3
    <3>3. IsTable(cards') /\ DOMAIN cards' = DOMAIN cards
      BY <3>1 DEF IsTable
    <3>4. Calm(cards, cards')
      BY <3>2, <3>3 DEF Calm
    <3>5. CardsStep
      BY <1>1, <2>5, <3>2, <3>3, ChangedCards
    <3> QED
      BY <1>3, <1>4, <2>1, <2>5, <3>2, <3>3, <3>4, <3>5
  <2> QED
    BY <1>4, <1>7, <2>2, <2>3, <2>4, <2>5 DEF Process
<1> QED
  BY <1>6, <1>7

LEMMA ProcessKeeps ==
    ASSUME CardInv, NEW c \in DOMAIN cmds, NEW r \in Results, Process(c, r),
           UNCHANGED <<nextCard, dismissed, cmds, result, group, check, missed>>,
           DocType', NewsType',
           atHost' \subseteq atHost, events' \subseteq events,
           rpc' \subseteq rpc, rpc \subseteq rpc' \cup {c},
           batch' # NoBatch => batch # NoBatch /\ batch'.todo \subseteq batch.todo
    PROVE  CardInv'
<1>1. /\ CardsStep /\ Calm(cards, cards')
      /\ registry' \subseteq registry
      /\ \A d \in registry : d # c => d \in registry'
      /\ resolving' \in [DOMAIN resolving' -> [text: Texts, hash: Texts]]
      /\ DOMAIN resolving \subseteq DOMAIN resolving' /\ DOMAIN resolving' \subseteq CardIds
      /\ c \in registry =>
            \A k \in cmds[c].cards \cap DOMAIN cards' :
               cards'[k].status = "applying" => k \in DOMAIN resolving'
  BY ProcessIs
<1>2. CardType' /\ CardTextHasItsIssue'
  BY <1>1, CardsStepTypes DEF CardInv
<1>3. CommandType' /\ PendingType'
  BY <1>1 DEF CardInv, TypeInv, CommandType, PendingType, LastCommand
<1>4. SpinnersMatch'
  BY <1>1, CalmSpinners DEF CardInv
<1>5. RestoredAreIdle'
  BY <1>1 DEF CardInv, RestoredAreIdle, Calm
<1>6. ApplyingIsAwaited'
  <2> SUFFICES ASSUME NEW k \in DOMAIN cards', ~cards'[k].restoring,
                      cards'[k].status = "applying", k \notin DOMAIN resolving'
               PROVE  \E d \in registry' : k \in cmds[d].cards /\ d \in rpc'
    BY DEF ApplyingIsAwaited, Visible
  <2>1. PICK d \in registry : k \in cmds[d].cards /\ d \in rpc
    BY <1>1 DEF CardInv, ApplyingIsAwaited, Visible, Calm
  <2>2. d # c
    BY <1>1, <2>1
  <2> QED
    BY <1>1, <2>1, <2>2
<1> QED
  BY <1>2, <1>3, <1>4, <1>5, <1>6 DEF CardInv, TypeInv

LEMMA ReturnKeeps ==
    ASSUME CardInv, DocType', NEW c \in rpc, NEW r \in Results, Return(c, r),
           atHost' \subseteq atHost
    PROVE  CardInv'
<1>1. c \in DOMAIN cmds /\ Process(c, r)
  BY DEF CardInv, TypeInv, CommandType, Return
<1>2. /\ UNCHANGED <<nextCard, dismissed, cmds, result, group, check, missed, events, known, reanalyse>>
      /\ rpc' = rpc \ {c}
  BY DEF Return, newsVars
<1>3. ASSUME batch' # NoBatch
      PROVE  batch # NoBatch /\ batch'.todo \subseteq batch.todo
  <2>1. CASE batch' = batch
    BY <1>3, <2>1
  <2>2. CASE batch' # batch
    <3>1. batch.phase = "waiting" /\ batch' = Rest(batch.todo)
      BY <2>2 DEF Return
    <3>2. batch # NoBatch
      BY <3>1 DEF NoBatch
    <3>3. batch'.todo = batch.todo
      BY <1>3, <3>1 DEF Rest
    <3> QED
      BY <3>2, <3>3
  <2> QED
    BY <2>1, <2>2
<1>4. NewsType'
  BY <1>2 DEF CardInv, TypeInv, NewsType
<1> QED
  BY <1>1, <1>2, <1>3, <1>4, ProcessKeeps

LEMMA RpcStep ==
    ASSUME CardInv, NEW c \in rpc, RpcReturns(c) \/ RpcTimesOut(c) \/ RpcFails(c)
    PROVE  CardInv'
<1>1. c \in DOMAIN cmds /\ c \in Commands /\ cmds[c] \in CommandRecords
  BY CommandIs DEF CardInv, TypeInv, CommandType
<1>2. doc' = doc
  BY DEF RpcReturns, RpcTimesOut, RpcFails, Return
<1>3. DocType'
  <2>1. CASE Extra
    BY <1>2, <2>1, ExtraDoc
  <2>2. CASE UNCHANGED <<editor, extras>>
    BY <1>2, <2>2 DEF CardInv, TypeInv, DocType
  <2> QED
    BY <2>1, <2>2 DEF RpcReturns, RpcTimesOut, RpcFails
<1>4. atHost' \subseteq atHost
  BY DEF RpcReturns, RpcTimesOut, RpcFails
<1>5. PICK r \in Results : Return(c, r)
  <2>1. CASE RpcReturns(c)
    <3>1. result[c] \in Results
      BY <1>1, <2>1 DEF RpcReturns, CardInv, TypeInv, CommandType
    <3> QED
      BY <2>1, <3>1 DEF RpcReturns
  <2>2. CASE RpcTimesOut(c)
    <3>1. Result("FAILED", {}) \in Results
      BY DEF Result, Results, Outcomes
    <3> QED
      BY <2>2, <3>1 DEF RpcTimesOut
  <2>3. CASE RpcFails(c)
    <3>1. Result("FAILED", {cmds[c].base}) \in Results
      BY <1>1 DEF Result, Results, Outcomes, CommandRecords
    <3> QED
      BY <2>3, <3>1 DEF RpcFails
  <2> QED
    BY <2>1, <2>2, <2>3
<1> QED
  BY <1>3, <1>4, <1>5, ReturnKeeps

LEMMA EventStep ==
    ASSUME CardInv, NEW c \in events, EventArrives(c)
    PROVE  CardInv'
<1>1. c \in DOMAIN cmds /\ c \in Commands /\ result[c] \in Results
  BY CommandIs DEF CardInv, TypeInv, CommandType
<1>2. /\ UNCHANGED <<nextCard, dismissed, cmds, result, group, check, missed, rpc, batch, atHost>>
      /\ events' = events \ {c} /\ Process(c, result[c])
      /\ UNCHANGED <<editor, doc, extras, known, reanalyse>>
  BY DEF EventArrives, editorVars, newsVars
<1>3. DocType' /\ NewsType'
  BY <1>2 DEF CardInv, TypeInv, DocType, NewsType
<1>4. batch' # NoBatch => batch # NoBatch /\ batch'.todo \subseteq batch.todo
  BY <1>2
<1>5. events' \subseteq events /\ rpc \subseteq rpc' \cup {c}
  BY <1>2
<1> QED
  BY <1>1, <1>2, <1>3, <1>4, <1>5, ProcessKeeps

-----------------------------------------------------------------------------
(* The resolver, the validation and a reload *)

LEMMA ResolverKeeps ==
    ASSUME CardInv, CardsStep, Calm(cards, cards'), NEW k,
           resolving' = Without(resolving, {k}),
           k \in DOMAIN cards' => cards'[k].status # "applying",
           UNCHANGED <<commandVars, batch, group, check, missed>>, DocType', NewsType'
    PROVE  CardInv'
<1>1. CardType' /\ CardTextHasItsIssue'
  BY CardsStepTypes DEF CardInv
<1>2. UNCHANGED <<cmds, registry, atHost, result, rpc, events, batch, group, check, missed>>
  BY DEF commandVars
<1>3. CommandType' /\ SpinnersMatch' /\ RestoredAreIdle'
  BY <1>2, CalmSpinners, CalmRestored DEF CardInv, TypeInv, CommandType, LastCommand
<1>4. /\ resolving' \in [DOMAIN resolving' -> [text: Texts, hash: Texts]]
      /\ DOMAIN resolving' = DOMAIN resolving \ {k}
  BY DEF CardInv, TypeInv, PendingType, Without
<1>5. PendingType'
  BY <1>2, <1>4 DEF CardInv, TypeInv, PendingType
<1>6. ApplyingIsAwaited'
  BY <1>2, <1>4 DEF CardInv, ApplyingIsAwaited, Calm, Visible
<1> QED
  BY <1>1, <1>3, <1>5, <1>6 DEF CardInv, TypeInv

LEMMA ResolverEndsStep ==
    ASSUME CardInv, NEW k \in DOMAIN resolving, ResolverEnds(k)
    PROVE  CardInv'
<1>1. PICK p \in [text: Texts, hash: Texts] : p = resolving[k]
  BY DEF CardInv, TypeInv, PendingType
<1>2. /\ resolving' = Without(resolving, {k})
      /\ UNCHANGED <<editorVars, applied, newsVars, commandVars, batch, group, check, missed>>
  BY DEF ResolverEnds
<1>3. DocType' /\ NewsType'
  BY <1>2 DEF CardInv, TypeInv, DocType, NewsType, editorVars, newsVars
<1>4. Legal(cards) /\ CardType /\ p.text \in Texts /\ p.hash \in Texts
  BY LegalCards DEF CardInv, TypeInv
<1>5. CASE /\ \E S \in SUBSET Originals(p.text) : \E i \in S :
                 AddCards(Changed(cards, {k}, LAMBDA c : Retargeted(c, i, p)),
                          [n \in 1 .. Cardinality(S) - 1 |->
                             NewCard(InOrder(S \ {i})[n], "suggested", p.text, p.hash, FALSE)])
           /\ UNCHANGED dismissed
  <2>0. PICK S \in SUBSET Originals(p.text) : \E i \in S :
          AddCards(Changed(cards, {k}, LAMBDA c : Retargeted(c, i, p)),
                   [n \in 1 .. Cardinality(S) - 1 |->
                      NewCard(InOrder(S \ {i})[n], "suggested", p.text, p.hash, FALSE)])
    BY <1>5
  <2>1. PICK i \in S :
          AddCards(Changed(cards, {k}, LAMBDA c : Retargeted(c, i, p)),
                   [n \in 1 .. Cardinality(S) - 1 |->
                      NewCard(InOrder(S \ {i})[n], "suggested", p.text, p.hash, FALSE)])
    BY <2>0
  <2>2. PICK ds : ds = [j \in DOMAIN cards |-> IF j = k THEN Retargeted(cards[j], i, p)
                                               ELSE cards[j]]
    OBVIOUS
  <2>3. PICK new : new = [n \in 1 .. Cardinality(S) - 1 |->
                            NewCard(InOrder(S \ {i})[n], "suggested", p.text, p.hash, FALSE)]
    OBVIOUS
  <2>4. AddCards(ds, new)
    <3>1. ds = Changed(cards, {k}, LAMBDA c : Retargeted(c, i, p))
      BY <2>2 DEF Changed
    <3> QED
      BY <2>1, <2>3, <3>1
  <2>5. i \in Issues /\ p.text[i] = "original" /\ S \subseteq Issues
    BY DEF Originals
  <2>6. ASSUME NEW j \in DOMAIN cards
        PROVE  /\ ds[j] \in Cards /\ ds[j].text[ds[j].issue] = "original"
               /\ j = k => ds[j].status = "pending"
               /\ j # k => ds[j] = cards[j]
               /\ ds[j].restoring = cards[j].restoring
    <3>1. cards[j] \in Cards /\ cards[j].text[cards[j].issue] = "original"
      BY <1>4 DEF Legal
    <3>2. CASE j = k
      <4>1. ds[j] = Retargeted(cards[j], i, p)
        BY <2>2, <3>2
      <4> QED
        BY <1>4, <2>5, <3>1, <3>2, <4>1, ZenonT(60) DEF Retargeted, Cards, Statuses, Suggestions
    <3>3. CASE j # k
      BY <2>2, <3>1, <3>3
    <3> QED
      BY <3>2, <3>3
  <2>7. Legal(ds) /\ Calm(cards, ds) /\ DOMAIN ds = DOMAIN cards
    BY <2>2, <2>6 DEF Legal, Calm
  <2>8. /\ IsFiniteSet(S \ {i}) /\ Cardinality(S \ {i}) = Cardinality(S) - 1
        /\ Cardinality(S) - 1 \in Nat /\ S \ {i} \subseteq Int
    <3>1. IsFiniteSet(Issues)
      BY NumIssuesAssumption, FS_Interval DEF Issues
    <3>2. IsFiniteSet(S)
      BY <2>5, <3>1, FS_Subset
    <3>3. IsFiniteSet(S \ {i}) /\ Cardinality(S \ {i}) = Cardinality(S) - 1
      BY <3>2, FS_RemoveElement
    <3>4. Cardinality(S \ {i}) \in Nat
      BY <3>3, FS_CardinalityType
    <3> QED
      BY <2>5, <3>3, <3>4 DEF Issues
  <2>9. ASSUME NEW n \in 1 .. Cardinality(S) - 1
        PROVE  Fresh(new[n])
    <3>1. n \in 1 .. Cardinality(S \ {i})
      BY <2>8
    <3>2. PICK j \in S \ {i} : j = InOrder(S \ {i})[n]
      BY <2>8, <3>1, InOrderIs
    <3>3. j \in Issues /\ p.text[j] = "original"
      BY DEF Originals
    <3>4. PICK t \in Texts, h \in Texts : t = p.text /\ h = p.hash
      BY <1>4
    <3>5. /\ j \in Issues /\ t \in Texts /\ h \in Texts /\ t[j] = "original"
          /\ "suggested" \in Suggestions /\ FALSE \in BOOLEAN
      BY <3>3, <3>4 DEF Suggestions
    <3>6. LET c == NewCard(j, "suggested", t, h, FALSE) IN
          c \in Cards /\ c.text[c.issue] = "original" /\ c.status = "pending" /\ ~c.restoring
      <4>1. PICK s \in Suggestions, b \in BOOLEAN : s = "suggested" /\ b = FALSE
        BY <3>5
      <4>2. LET c == NewCard(j, s, t, h, b) IN
            c \in Cards /\ c.text[c.issue] = "original" /\ c.status = "pending" /\ ~c.restoring
        BY <3>5, NewCardIs
      <4> QED
        BY <4>1, <4>2
    <3>7. new[n] = NewCard(j, "suggested", t, h, FALSE)
      BY <2>3, <3>2, <3>4
    <3> QED
      BY <3>6, <3>7 DEF Fresh
  <2>10. dismissed' \subseteq Keys /\ applied' \in Seq(Corrections)
    BY <1>2, <1>5, KeysAre
  <2>11. PICK len \in Nat : len = Cardinality(S) - 1
    BY <2>8
  <2>12. DOMAIN new = 1 .. len /\ \A n \in 1 .. len : Fresh(new[n])
    BY <2>3, <2>9, <2>11
  <2>13. CardsStep /\ Calm(cards, cards')
    BY <1>4, <2>4, <2>7, <2>10, <2>12, AddCalm
  <2>14. \A j \in DOMAIN ds : cards'[j] = ds[j]
    <3>1. nextCard \in 1 .. MaxCards + 1
      BY <1>4 DEF CardType
    <3> QED
      BY <2>4, <2>12, <3>1, AddCardsIs
  <2>15. k \in DOMAIN cards' => cards'[k].status # "applying"
    BY <2>6, <2>7, <2>13, <2>14 DEF Calm
  <2> QED
    BY <1>2, <1>3, <2>13, <2>15, ResolverKeeps
<1>6. CASE DropDismissed({k} \cap DOMAIN cards) /\ UNCHANGED nextCard
  <2>1. CardsStep /\ Calm(cards, cards')
    <3>1. {k} \cap DOMAIN cards \in SUBSET DOMAIN cards
      OBVIOUS
    <3> QED
      BY <1>2, <1>6, <3>1, DropDismissedIs
  <2>2. k \notin DOMAIN cards'
    BY <1>6 DEF DropDismissed, Without
  <2> QED
    BY <1>2, <1>3, <2>1, <2>2, ResolverKeeps
<1> QED
  BY <1>1, <1>5, <1>6 DEF ResolverEnds, Changed

LEMMA ResolverFailsStep ==
    ASSUME CardInv, NEW k \in DOMAIN resolving, ResolverFails(k)
    PROVE  CardInv'
<1>1. /\ resolving' = Without(resolving, {k})
      /\ UNCHANGED <<doc, nextCard, dismissed, applied, newsVars, commandVars,
                     batch, group, check, missed>>
      /\ cards' = [j \in DOMAIN cards |->
                      IF j = k THEN [cards[j] EXCEPT !.status = "failed", !.stale = FALSE]
                      ELSE cards[j]]
  BY DEF ResolverFails, Changed
<1>2. DocType' /\ NewsType'
  BY <1>1, ExtraDoc DEF ResolverFails, CardInv, TypeInv, NewsType, newsVars
<1>3. ASSUME NEW j \in DOMAIN cards
      PROVE  /\ cards'[j] \in Cards /\ cards'[j].text[cards'[j].issue] = "original"
             /\ j = k => cards'[j].status = "failed"
             /\ j # k => cards'[j] = cards[j]
             /\ cards'[j].restoring = cards[j].restoring
  <2>1. cards[j] \in Cards /\ cards[j].text[cards[j].issue] = "original"
    BY LegalCards DEF CardInv, Legal
  <2>2. CASE j = k
    <3>1. cards'[j] = [cards[j] EXCEPT !.status = "failed", !.stale = FALSE]
      BY <1>1, <2>2
    <3> QED
      BY <2>1, <2>2, <3>1 DEF Cards, Statuses
  <2>3. CASE j # k
    BY <1>1, <2>1, <2>3
  <2> QED
    BY <2>2, <2>3
<1>4. IsTable(cards') /\ DOMAIN cards' = DOMAIN cards
  BY <1>1 DEF IsTable
<1>5. Calm(cards, cards')
  BY <1>3, <1>4 DEF Calm
<1>6. CardsStep
  BY <1>1, <1>3, <1>4, KeysAre, ChangedCards
<1>7. k \in DOMAIN cards' => cards'[k].status # "applying"
  BY <1>3, <1>4
<1> QED
  BY <1>1, <1>2, <1>5, <1>6, <1>7, ResolverKeeps

LEMMA CheckEndsStep ==
    ASSUME CardInv, CheckEnds
    PROVE  CardInv'
<1>1. /\ check # NoCheck /\ check' = NoCheck
      /\ UNCHANGED <<editorVars, nextCard, dismissed, applied, known, commandVars,
                     resolving, batch, group>>
  BY DEF CheckEnds
<1>2. /\ DOMAIN check.cards \subseteq CardIds /\ check.seen \in Texts /\ missed \subseteq CardIds
  BY <1>1 DEF CardInv, TypeInv, PendingType
<1>3. PICK obsolete, marked :
        /\ cards' = Without(marked, obsolete)
        /\ DOMAIN marked = DOMAIN cards
        /\ \A k \in DOMAIN cards :
              \/ marked[k] = [cards[k] EXCEPT !.stale = FALSE, !.restoring = FALSE]
                 /\ k \in DOMAIN check.cards
              \/ marked[k] = [cards[k] EXCEPT !.stale = TRUE]
              \/ marked[k] = cards[k]
  <2> DEFINE Mark(k, c) == CASE Confirmed(k) -> [c EXCEPT !.stale = FALSE, !.restoring = FALSE]
                             [] OTHER -> [c EXCEPT !.stale = TRUE]
             all == [k \in DOMAIN cards |-> IF k \in DOMAIN check.cards THEN Mark(k, cards[k])
                                            ELSE cards[k]]
  <2>1. cards' = Without(all, {k \in DOMAIN check.cards : Absent(k) /\ k \in missed})
    BY DEF CheckEnds
  <2>2. \A k \in DOMAIN cards :
           \/ all[k] = [cards[k] EXCEPT !.stale = FALSE, !.restoring = FALSE]
              /\ k \in DOMAIN check.cards
           \/ all[k] = [cards[k] EXCEPT !.stale = TRUE]
           \/ all[k] = cards[k]
    OBVIOUS
  <2>3. DOMAIN all = DOMAIN cards
    OBVIOUS
  <2> HIDE DEF all
  <2> QED
    BY <2>1, <2>2, <2>3
<1>4. DOMAIN cards' \subseteq DOMAIN cards /\ IsTable(cards') /\ \A k \in DOMAIN cards' : cards'[k] = marked[k]
  BY <1>3 DEF Without, IsTable
<1>5. ASSUME NEW k \in DOMAIN cards
      PROVE  /\ marked[k] \in Cards /\ marked[k].text[marked[k].issue] = "original"
             /\ marked[k].status = cards[k].status
             /\ marked[k].issue = cards[k].issue /\ marked[k].sug = cards[k].sug
             /\ marked[k].restoring => cards[k].restoring
             /\ marked[k].status = "applying" => marked[k].restoring = cards[k].restoring
  <2>1. cards[k] \in Cards /\ cards[k].text[cards[k].issue] = "original"
    BY LegalCards DEF CardInv, Legal
  <2>2. CASE /\ marked[k] = [cards[k] EXCEPT !.stale = FALSE, !.restoring = FALSE]
             /\ k \in DOMAIN check.cards
    <3>1. cards[k].status = "applying" => cards[k].restoring = FALSE
      BY <2>1, <2>2 DEF CardInv, RestoredAreIdle, Cards
    <3> QED
      BY <2>1, <2>2, <3>1 DEF Cards
  <2>3. CASE marked[k] = [cards[k] EXCEPT !.stale = TRUE]
    BY <2>1, <2>3 DEF Cards
  <2>4. CASE marked[k] = cards[k]
    BY <2>1, <2>4
  <2> QED
    BY <1>3, <2>2, <2>3, <2>4
<1>6. Calm(cards, cards')
  BY <1>4, <1>5 DEF Calm
<1>7. CardsStep
  <2>1. /\ nextCard' = nextCard /\ dismissed' \subseteq Keys /\ applied' \in Seq(Corrections)
    BY <1>1, KeysAre
  <2>2. \A k \in DOMAIN cards' : cards'[k] \in Cards /\ cards'[k].text[cards'[k].issue] = "original"
    BY <1>4, <1>5
  <2> QED
    BY <1>4, <2>1, <2>2, ChangedCards
<1>8. CardType' /\ CardTextHasItsIssue'
  BY <1>7, CardsStepTypes DEF CardInv
<1>9. DocType' /\ NewsType' /\ CommandType'
  <2>1. reanalyse' \subseteq reanalyse \cup {check.seen}
    BY DEF CheckEnds
  <2> QED
    BY <1>1, <1>2, <2>1 DEF CardInv, TypeInv, DocType, NewsType, CommandType, LastCommand,
       editorVars, commandVars
<1>10. PendingType'
  <2>1. missed' \subseteq CardIds
    BY <1>2 DEF CheckEnds
  <2> QED
    BY <1>1, <2>1 DEF CardInv, TypeInv, PendingType
<1>11. ApplyingIsAwaited' /\ SpinnersMatch'
  BY <1>1, <1>6, CalmAwaited, CalmSpinners DEF CardInv, commandVars
<1>12. RestoredAreIdle'
  <2>1. DOMAIN check'.cards = {}
    BY <1>1 DEF NoCheck
  <2> QED
    BY <1>1, <1>6, <2>1 DEF CardInv, RestoredAreIdle, Calm
<1> QED
  BY <1>8, <1>9, <1>10, <1>11, <1>12 DEF CardInv, TypeInv

LEMMA ReloadStep ==
    ASSUME CardInv, Reload
    PROVE  CardInv'
<1>1. /\ cards' = [k \in DOMAIN cards |-> [cards[k] EXCEPT !.restoring = TRUE, !.stale = TRUE]]
      /\ registry' = {} /\ rpc' = {} /\ events' = {} /\ known' = {} /\ reanalyse' = {}
      /\ resolving' = << >> /\ batch' = NoBatch /\ group' = NoGroup /\ check' = NoCheck
      /\ missed' = {}
      /\ UNCHANGED <<doc, nextCard, dismissed, applied, cmds, atHost, result>>
  BY DEF Reload
<1>2. ASSUME NEW k \in DOMAIN cards
      PROVE  /\ cards'[k] \in Cards /\ cards'[k].text[cards'[k].issue] = "original"
             /\ cards'[k].restoring /\ cards'[k].status = cards[k].status
             /\ cards'[k].issue = cards[k].issue /\ cards'[k].sug = cards[k].sug
  <2>1. cards[k] \in Cards /\ cards[k].text[cards[k].issue] = "original"
    BY LegalCards DEF CardInv, Legal
  <2>2. cards'[k] = [cards[k] EXCEPT !.restoring = TRUE, !.stale = TRUE]
    BY <1>1
  <2> QED
    BY <2>1, <2>2 DEF Cards
<1>3. IsTable(cards') /\ DOMAIN cards' = DOMAIN cards
  BY <1>1 DEF IsTable
<1>4. CardsStep
  BY <1>1, <1>2, <1>3, KeysAre, ChangedCards
<1>5. CardType' /\ CardTextHasItsIssue'
  BY <1>4, CardsStepTypes DEF CardInv
<1>6. DocType' /\ NewsType'
  BY <1>1, ExtraDoc DEF Reload, NewsType
<1>7. CommandType' /\ PendingType'
  <2>1. resolving' \in [DOMAIN resolving' -> [text: Texts, hash: Texts]] /\ DOMAIN resolving' = {}
    <3>1. DOMAIN << >> = {}
      OBVIOUS
    <3>2. << >> = [k \in {} |-> k]
      OBVIOUS
    <3> QED
      BY <1>1, <3>1, <3>2
  <2> QED
    BY <1>1, <2>1 DEF CardInv, TypeInv, CommandType, PendingType, LastCommand
<1>8. ApplyingIsAwaited'
  BY <1>2, <1>3 DEF ApplyingIsAwaited, Visible
<1>9. SpinnersMatch'
  <2>1. SpinnersMatch /\ cmds' = cmds
    BY <1>1 DEF CardInv
  <2> QED
    BY <1>2, <1>3, <2>1 DEF SpinnersMatch, SentOnce
<1>10. RestoredAreIdle'
  <2>1. check'.cards = << >> /\ group'.cards = {}
    BY <1>1 DEF NoCheck, NoGroup
  <2>2. DOMAIN << >> = {}
    OBVIOUS
  <2> QED
    BY <1>1, <2>1, <2>2 DEF RestoredAreIdle
<1> QED
  BY <1>5, <1>6, <1>7, <1>8, <1>9, <1>10 DEF CardInv, TypeInv

-----------------------------------------------------------------------------
(* The theorems *)

LEMMA CardInit ==
    ASSUME Init
    PROVE  CardInv
<1>1. DOMAIN << >> = {} /\ << >> = [k \in {} |-> k]
  OBVIOUS
<1>2. DocType
  <2>1. Untouched \in Texts
    BY DEF Untouched, Texts, Segments
  <2> QED
    BY <2>1, BoundsAssumption DEF Init, DocType
<1>3. DOMAIN cards = {} /\ cards \in [DOMAIN cards -> Cards]
  BY <1>1 DEF Init
<1>4. CardType
  <2>1. nextCard \in 1 .. MaxCards + 1
    BY BoundsAssumption DEF Init
  <2>2. applied \in Seq(Corrections) /\ dismissed \subseteq Keys
    BY DEF Init
  <2> QED
    BY <1>3, <2>1, <2>2 DEF CardType
<1>5. NewsType
  BY DEF Init, NewsType
<1>6. CommandType
  <2>1. cmds \in Seq(CommandRecords) /\ Len(cmds) = 0 /\ DOMAIN cmds = {}
    BY <1>1 DEF Init
  <2>2. result \in [Commands -> Results \cup {NoResult}]
    BY DEF Init
  <2> QED
    BY <2>1, <2>2, BoundsAssumption DEF Init, CommandType, LastCommand
<1>7. PendingType
  <2>1. DOMAIN resolving = {} /\ resolving \in [DOMAIN resolving -> [text: Texts, hash: Texts]]
    BY <1>1 DEF Init
  <2> QED
    BY <2>1 DEF Init, PendingType
<1>8. CardTextHasItsIssue /\ ApplyingIsAwaited /\ RestoredAreIdle /\ SpinnersMatch
  BY <1>3 DEF CardTextHasItsIssue, ApplyingIsAwaited, RestoredAreIdle, SpinnersMatch, Visible
<1> QED
  BY <1>2, <1>4, <1>5, <1>6, <1>7, <1>8 DEF CardInv, TypeInv

LEMMA CardStutter ==
    ASSUME CardInv, UNCHANGED vars
    PROVE  CardInv'
<1>1. CardType' /\ CardTextHasItsIssue' /\ SpinnersMatch' /\ ApplyingIsAwaited' /\ RestoredAreIdle'
  BY SameCards DEF vars, commandVars, pendingVars
<1>2. DocType' /\ NewsType' /\ CommandType' /\ PendingType'
  BY DEF CardInv, TypeInv, DocType, NewsType, CommandType, PendingType, LastCommand,
     vars, editorVars, newsVars, commandVars, pendingVars
<1> QED
  BY <1>1, <1>2 DEF CardInv, TypeInv

LEMMA CardNext ==
    ASSUME CardInv, [Next]_vars
    PROVE  CardInv'
<1>1. CASE Telemetry
  BY <1>1, TelemetryStep
<1>2. CASE ReportTelemetry \/ ReportReanalysis
  BY <1>2, ReportStep
<1>3. CASE UserEdits
  BY <1>3, UserEditsStep
<1>4. CASE ChooseSuggestion
  BY <1>4, ChooseSuggestionStep
<1>5. CASE DismissCard \/ DismissAll
  BY <1>5, DismissStep
<1>6. CASE ResetQaCards
  BY <1>6, ResetStep
<1>7. CASE LocateFails
  BY <1>7, LocateFailsStep
<1>8. CASE Accept
  BY <1>8, AcceptStep
<1>9. CASE BatchStart \/ BatchVerified
  BY <1>9, BatchStep
<1>10. CASE BatchNext
  BY <1>10, BatchNextStep
<1>11. CASE GroupStart
  BY <1>11, GroupStartStep
<1>12. CASE GroupVerified
  BY <1>12, GroupVerifiedStep
<1>13. CASE \E c \in atHost : HostExecutes(c) \/ HostFails(c)
  BY <1>13, HostStep
<1>14. CASE \E c \in rpc : RpcReturns(c) \/ RpcTimesOut(c) \/ RpcFails(c)
  BY <1>14, RpcStep
<1>15. CASE \E c \in events : EventArrives(c)
  BY <1>15, EventStep
<1>16. CASE \E k \in DOMAIN resolving : ResolverEnds(k) \/ ResolverFails(k)
  BY <1>16, ResolverEndsStep, ResolverFailsStep
<1>17. CASE CheckStarts
  BY <1>17, CheckStartsStep
<1>18. CASE CheckEnds
  BY <1>18, CheckEndsStep
<1>19. CASE Reload
  BY <1>19, ReloadStep
<1>20. CASE UNCHANGED vars
  BY <1>20, CardStutter
<1> QED
  BY <1>1, <1>2, <1>3, <1>4, <1>5, <1>6, <1>7, <1>8, <1>9, <1>10, <1>11, <1>12, <1>13,
     <1>14, <1>15, <1>16, <1>17, <1>18, <1>19, <1>20 DEF Next

\* CardInv is inductive: what a card carries, and how the cards, the registered
\* commands, their awaiting callers and the re-analyses belong together.
THEOREM CardsInductive == Spec => []CardInv
<1>1. Init => CardInv
  BY CardInit
<1>2. CardInv /\ [Next]_vars => CardInv'
  BY CardNext
<1> QED
  BY <1>1, <1>2, PTL DEF Spec

LEMMA TypesFollow ==
    ASSUME CardInv
    PROVE  TypeOK
<1>1. doc \in Texts /\ editor \in Editors /\ extras \in 0 .. MaxExtras
  BY DEF CardInv, TypeInv, DocType
<1>2. DOMAIN cards \subseteq CardIds /\ \A k \in DOMAIN cards : cards[k] \in Cards
  <2>1. nextCard - 1 <= MaxCards /\ MaxCards \in Nat
    BY BoundsAssumption DEF CardInv, TypeInv, CardType
  <2> QED
    BY <2>1 DEF CardInv, TypeInv, CardType, CardIds
<1>3. /\ nextCard \in 1 .. MaxCards + 1
      /\ dismissed \subseteq [issue: Issues, sug: Suggestions]
      /\ \A n \in DOMAIN applied : applied[n] \in [issue: Issues, sug: Suggestions, cmd: Commands]
  <2>1. nextCard \in 1 .. MaxCards + 1 /\ dismissed \subseteq Keys /\ applied \in Seq(Corrections)
    BY DEF CardInv, TypeInv, CardType
  <2>2. \A n \in DOMAIN applied : applied[n] \in Corrections
    BY <2>1
  <2> QED
    BY <2>1, <2>2 DEF Keys, Corrections
<1>4. known \subseteq Texts /\ Cardinality(known) <= 1 /\ reanalyse \subseteq Texts
  <2>1. Cardinality({}) = 0 /\ \A t \in Texts : Cardinality({t}) = 1
    BY FS_EmptySet, FS_Singleton
  <2>2. Cardinality(known) = 0 \/ Cardinality(known) = 1
    BY <2>1 DEF CardInv, TypeInv, NewsType
  <2> QED
    BY <2>2 DEF CardInv, TypeInv, NewsType
<1>5. /\ LastCommand <= MaxCommands
      /\ {registry, atHost, rpc, events} \subseteq SUBSET (1 .. LastCommand)
  <2>1. DOMAIN cmds = 1 .. LastCommand
    BY LenProperties DEF CardInv, TypeInv, CommandType, LastCommand
  <2> QED
    BY <2>1 DEF CardInv, TypeInv, CommandType
<1>6. \A c \in Commands : result[c] = NoResult \/ result[c].status \in Outcomes
  BY DEF CardInv, TypeInv, CommandType, Results
<1>7. DOMAIN resolving \subseteq CardIds /\ missed \subseteq CardIds
  BY DEF CardInv, TypeInv, PendingType
<1> QED
  BY <1>1, <1>2, <1>3, <1>4, <1>5, <1>6, <1>7 DEF TypeOK

\* A command writes only over the originals of its hunks.
LEMMA TypedWordsStayStep ==
    ASSUME CardInv, Next, ~UserEdits, NEW i \in Issues, doc[i] = "typed"
    PROVE  doc'[i] = "typed"
<1>1. CASE doc' = doc
  BY <1>1
<1>2. CASE \E c \in atHost : HostExecutes(c) \/ HostFails(c)
  <2>1. PICK c \in atHost : HostExecutes(c) \/ HostFails(c)
    BY <1>2
  <2>2. cmds[c].fix \in Fixes /\ doc \in Texts
    BY CommandIs DEF CommandRecords, CardInv, TypeInv, CommandType, DocType
  <2>3. PICK D \in SUBSET Issues : cmds[c].fix \in [D -> Suggestions]
    BY <2>2 DEF Fixes
  <2>4. CASE Fits(cmds[c]) /\ doc' = Apply(doc, cmds[c].fix)
    <3>1. i \notin DOMAIN cmds[c].fix
      BY <2>4 DEF Fits
    <3> QED
      BY <2>2, <2>4, <3>1, ApplyIs
  <2>5. CASE /\ Fits(cmds[c])
             /\ \E j \in Issues, S \in SUBSET DOMAIN cmds[c].fix \ {{}} :
                   doc' = [Apply(doc, [n \in S |-> cmds[c].fix[n]]) EXCEPT ![j] = "typed"]
    <3>1. PICK j \in Issues, S \in SUBSET DOMAIN cmds[c].fix :
            doc' = [Apply(doc, [n \in S |-> cmds[c].fix[n]]) EXCEPT ![j] = "typed"]
      BY <2>5
    <3>2. i \notin S
      BY <2>5 DEF Fits
    <3>3. [n \in S |-> cmds[c].fix[n]] \in [S -> Suggestions] /\ S \in SUBSET Issues
      BY <2>3
    <3>4. PICK fix \in Fixes : fix = [n \in S |-> cmds[c].fix[n]] /\ DOMAIN fix = S
      BY <3>3 DEF Fixes
    <3>5. Apply(doc, fix) \in Texts /\ Apply(doc, fix)[i] = "typed"
      BY <2>2, <3>2, <3>4, ApplyIs
    <3> QED
      BY <3>1, <3>4, <3>5 DEF Texts
  <2> QED
    BY <1>1, <2>1, <2>4, <2>5 DEF HostExecutes, HostFails
<1>3. CASE \E c \in rpc : RpcReturns(c) \/ RpcTimesOut(c) \/ RpcFails(c)
  <2>1. doc' = doc
    BY <1>3 DEF RpcReturns, RpcTimesOut, RpcFails, Return
  <2> QED
    BY <2>1
<1>4. CASE \E c \in events : EventArrives(c)
  <2>1. doc' = doc
    BY <1>4 DEF EventArrives, editorVars
  <2> QED
    BY <2>1
<1>5. CASE \E k \in DOMAIN resolving : ResolverEnds(k) \/ ResolverFails(k)
  <2>1. doc' = doc
    BY <1>5 DEF ResolverEnds, ResolverFails, editorVars
  <2> QED
    BY <2>1
<1>6. CASE Accept \/ BatchNext
  <2>1. doc' = doc
    BY <1>6 DEF Accept, BatchNext, AcceptCard, Send, editorVars
  <2> QED
    BY <2>1
<1>7. CASE GroupVerified
  <2>1. doc' = doc
    BY <1>7 DEF GroupVerified, Send, editorVars
  <2> QED
    BY <2>1
<1>8. CASE Telemetry \/ ReportTelemetry \/ ReportReanalysis \/ BatchStart \/ BatchVerified
            \/ GroupStart \/ CheckEnds
  <2>1. doc' = doc
    BY <1>8 DEF Telemetry, ReportTelemetry, ReportReanalysis, BatchStart, BatchVerified,
       GroupStart, CheckEnds, editorVars
  <2> QED
    BY <2>1
<1>9. CASE ChooseSuggestion \/ DismissCard \/ DismissAll \/ ResetQaCards \/ LocateFails
            \/ CheckStarts \/ Reload
  <2>1. doc' = doc
    BY <1>9 DEF ChooseSuggestion, DismissCard, DismissAll, ResetQaCards, LocateFails,
       CheckStarts, Reload
  <2> QED
    BY <2>1
<1> QED
  BY <1>2, <1>3, <1>4, <1>5, <1>6, <1>7, <1>8, <1>9 DEF Next

\* No command replaces words the user typed, whatever card texts, hashes and
\* offsets went into it.
THEOREM TypedWordsAreKept == Spec => TypedWordsStay
<1>1. CardInv /\ [Next]_vars =>
        [UserEdits \/ \A i \in Issues : doc[i] = "typed" => doc'[i] = "typed"]_vars
  BY TypedWordsStayStep
<1> QED
  BY <1>1, CardsInductive, PTL DEF Spec, TypedWordsStay

\* Only a success adds to the history, and it adds what its command's cards show.
LEMMA HistoryGrows ==
    ASSUME CardInv, Next, applied' # applied, NEW n \in DOMAIN applied' \ DOMAIN applied
    PROVE  \E c \in DOMAIN cmds, k \in DOMAIN cards :
              /\ result[c].status = "SUCCESS" /\ k \in cmds[c].cards
              /\ applied'[n] = Accepted(k, c)
<1>0. PICK c \in DOMAIN cmds : \E r : Process(c, r) /\ (r.status = "SUCCESS" => r = result[c])
  <2>1. CASE \E c \in rpc : RpcReturns(c) \/ RpcTimesOut(c) \/ RpcFails(c)
    <3>1. PICK c \in rpc : RpcReturns(c) \/ RpcTimesOut(c) \/ RpcFails(c)
      BY <2>1
    <3>2. \E r : Process(c, r) /\ (r.status = "SUCCESS" => r = result[c])
      BY <3>1 DEF RpcReturns, RpcTimesOut, RpcFails, Return, Result
    <3>3. c \in DOMAIN cmds
      BY DEF CardInv, TypeInv, CommandType
    <3> QED
      BY <3>2, <3>3
  <2>2. CASE \E c \in events : EventArrives(c)
    <3>1. PICK c \in events : Process(c, result[c])
      BY <2>2 DEF EventArrives
    <3>2. c \in DOMAIN cmds
      BY DEF CardInv, TypeInv, CommandType
    <3> QED
      BY <3>1, <3>2
  <2>3. CASE ResetQaCards
    <3>1. DOMAIN applied' = {}
      <4>1. applied' = << >> /\ DOMAIN << >> = {}
        BY <2>3 DEF ResetQaCards
      <4> QED
        BY <4>1
    <3> QED
      BY <3>1
  <2>4. CASE Accept \/ BatchNext \/ GroupVerified
    <3>1. applied' = applied
      BY <2>4 DEF Accept, BatchNext, GroupVerified, AcceptCard, Send, cardVars
    <3> QED
      BY <3>1
  <2>5. CASE \E c \in atHost : HostExecutes(c) \/ HostFails(c)
    <3>1. applied' = applied
      BY <2>5 DEF HostExecutes, HostFails, Answer, cardVars
    <3> QED
      BY <3>1
  <2>6. CASE \E k \in DOMAIN resolving : ResolverEnds(k) \/ ResolverFails(k)
    <3>1. applied' = applied
      BY <2>6 DEF ResolverEnds, ResolverFails
    <3> QED
      BY <3>1
  <2>7. CASE Telemetry \/ ReportTelemetry \/ ReportReanalysis \/ BatchStart \/ BatchVerified
              \/ GroupStart \/ CheckStarts \/ CheckEnds \/ Reload \/ UserEdits
              \/ ChooseSuggestion \/ DismissCard \/ DismissAll \/ LocateFails
    <3>1. applied' = applied
      BY <2>7 DEF Telemetry, ReportTelemetry, ReportReanalysis, BatchStart, BatchVerified,
         GroupStart, CheckStarts, CheckEnds, Reload, UserEdits, ChooseSuggestion,
         DismissCard, DismissAll, LocateFails, cardVars
    <3> QED
      BY <3>1
  <2> QED
    BY <2>1, <2>2, <2>3, <2>4, <2>5, <2>6, <2>7 DEF Next
<1>1. PICK r : Process(c, r) /\ (r.status = "SUCCESS" => r = result[c])
  BY <1>0
<1>2. PICK held : held = cmds[c].cards \cap DOMAIN cards
  OBVIOUS
<1>3. PICK new : new = [m \in 1 .. Cardinality(held) |-> Accepted(InOrder(held)[m], c)]
  OBVIOUS
<1>4. r.status = "SUCCESS" /\ applied' = applied \o new
  BY <1>1, <1>2, <1>3 DEF Process
<1>5. /\ new \in Seq(Corrections) /\ DOMAIN applied = 1 .. Len(applied)
      /\ applied \in Seq(Corrections)
      /\ DOMAIN applied' = 1 .. Len(applied) + Len(new)
      /\ \A m \in 1 .. Len(new) : applied'[Len(applied) + m] = new[m]
      /\ \A m \in 1 .. Len(new) : \E k \in held : new[m] = Accepted(k, c)
  <2>1. /\ held \subseteq DOMAIN cards
        /\ IsTable(new) /\ DOMAIN new = 1 .. Cardinality(held)
        /\ \A m \in 1 .. Cardinality(held) : new[m] = Accepted(InOrder(held)[m], c)
    BY <1>2, <1>3 DEF IsTable
  <2>2. c \in DOMAIN cmds /\ CardInv
    OBVIOUS
  <2>3. /\ new \in Seq(Corrections) /\ applied \o new \in Seq(Corrections)
        /\ applied \in Seq(Corrections) /\ DOMAIN applied = 1 .. Len(applied)
        /\ DOMAIN (applied \o new) = 1 .. Len(applied) + Len(new)
        /\ \A j \in 1 .. Len(applied) : (applied \o new)[j] = applied[j]
        /\ \A j \in 1 .. Len(new) : (applied \o new)[Len(applied) + j] = new[j]
        /\ Len(new) = Cardinality(held) /\ \A j \in 1 .. Len(new) : InOrder(held)[j] \in held
    BY <2>1, <2>2, RecordedIs
  <2>4. \A j \in 1 .. Len(new) : \E k \in held : new[j] = Accepted(k, c)
    BY <2>1, <2>3
  <2> QED
    BY <1>4, <2>3, <2>4
<1>6. PICK m \in 1 .. Len(new) : n = Len(applied) + m
  <2>1. PICK len \in Nat, more \in Nat : len = Len(applied) /\ more = Len(new)
    BY <1>5, LenProperties
  <2>2. n \in 1 .. len + more /\ n \notin 1 .. len
    BY <1>5, <2>1
  <2>3. n - len \in 1 .. more /\ n = len + (n - len)
    BY <2>2
  <2> QED
    BY <2>1, <2>3
<1>7. PICK k \in held : new[m] = Accepted(k, c)
  BY <1>5
<1>8. applied'[n] = Accepted(k, c)
  BY <1>5, <1>6, <1>7
<1> QED
  BY <1>1, <1>2, <1>4, <1>7, <1>8

\* A card sent once and by itself goes into the history with the words its command
\* wrote, although it is copied when the answer comes.
THEOREM HistoryIsWritten == Spec => RecordedAsWritten
<1>1. ASSUME CardInv, Next, NEW n \in DOMAIN applied' \ DOMAIN applied,
             SentOnce(applied'[n].cmd),
             \A k \in cmds[applied'[n].cmd].cards : cards[k].status = "applying"
      PROVE  Written(applied'[n])
  <2>1. applied' # applied
    BY <1>1
  <2>2. PICK c \in DOMAIN cmds, k \in DOMAIN cards :
          /\ result[c].status = "SUCCESS" /\ k \in cmds[c].cards
          /\ applied'[n] = Accepted(k, c)
    BY <1>1, <2>1, HistoryGrows
  <2>3. /\ applied'[n].cmd = c /\ applied'[n].issue = cards[k].issue
        /\ applied'[n].sug = cards[k].sug
    BY <2>2 DEF Accepted
  <2>4. cards[k].issue \in DOMAIN cmds[c].fix /\ cmds[c].fix[cards[k].issue] = cards[k].sug
    BY <1>1, <2>2, <2>3 DEF CardInv, SpinnersMatch
  <2> QED
    BY <2>2, <2>3, <2>4 DEF Written
<1>2. CardInv /\ [Next]_vars =>
        [\A n \in DOMAIN applied' \ DOMAIN applied :
            LET c == applied'[n].cmd IN
            /\ SentOnce(c)
            /\ \A k \in cmds[c].cards : cards[k].status = "applying"
            => Written(applied'[n])]_vars
  BY <1>1
<1> QED
  BY <1>2, CardsInductive, PTL DEF Spec, RecordedAsWritten

-----------------------------------------------------------------------------
(* Cards that describe the paragraph.  Nothing outside the dashboard's own    *)
(* commands has happened, all of them succeed, and the successes are handled  *)
(* in the order of the commands; such a past has had no other one before.     *)

Taken(c) == \E n \in DOMAIN applied : applied[n].cmd = c
Done(c) == result[c].status = "SUCCESS"
OnTrack ==
    \A c \in DOMAIN cmds : Taken(c) \/ (c \in registry /\ (c \in atHost \/ Done(c)))
TakenInOrder ==
    \A m, n \in DOMAIN applied : m < n => applied[m].cmd <= applied[n].cmd
Undisturbed == extras = 0 /\ OnTrack /\ TakenInOrder

\* A text t that a paragraph whose text is d may have had before: what was
\* corrected since is original in it.  A command makes one that has never been.
Older(t, d) == \A i \in Issues : t[i] # d[i] => t[i] = "original"
OldPid(p, d, e) == IF e = "word" THEN Older(p, d) ELSE p = Untouched
OldCard(card, d, e) ==
    /\ card.text = card.hash /\ Older(card.hash, d) /\ OldPid(card.pid, d, e)
    /\ e = "word" /\ card.pid = d => card.hash = d
OldCommand(cmd, d, e) ==
    /\ cmd.text = cmd.base /\ Older(cmd.base, d) /\ OldPid(cmd.pid, d, e)
    /\ DOMAIN cmd.fix # {}

NothingElse == check = NoCheck /\ reanalyse = {} /\ resolving = << >>
CardsAreOld == \A k \in DOMAIN cards : OldCard(cards[k], doc, editor)
CommandsAreOld ==
    /\ \A c \in DOMAIN cmds : OldCommand(cmds[c], doc, editor)
    /\ group # NoGroup => OldCommand(group, doc, editor)
SuccessesAreOld ==
    \A c \in Commands : Done(c) =>
        /\ c \in DOMAIN cmds \ atHost
        /\ editor = "word" => cmds[c].pid # doc
        /\ \A h \in result[c].hash : Older(h, doc)

\* The command that wrote the paragraph as it is; commands on the same text go
\* to the editor in the order they were made.
Latest(c) == Done(c) /\ \A d \in DOMAIN cmds : Done(d) => d <= c
LatestIsTrue ==
    /\ \A c \in DOMAIN cmds : Latest(c) => result[c].hash = {doc}
    /\ \A c \in DOMAIN cmds, d \in atHost : Done(c) /\ cmds[d].base = doc => c < d
TakenAreDone == \A n \in DOMAIN applied : Done(applied[n].cmd) /\ applied[n].cmd \notin registry

\* Once every success was handled, a waiting card that the last one named is right.
AllHeard == \A c \in DOMAIN cmds : Done(c) => Taken(c)
Addressed(p) == editor = "word" => \E c \in DOMAIN cmds : Latest(c) /\ p = cmds[c].pid
OffersAreCurrent ==
    AllHeard => \A k \in DOMAIN cards :
        cards[k].status = "pending" /\ ~cards[k].stale /\ Addressed(cards[k].pid)
        => cards[k].hash = doc

HistoryInv ==
    /\ NothingElse /\ CardsAreOld /\ CommandsAreOld /\ SuccessesAreOld /\ LatestIsTrue
    /\ TakenAreDone /\ OffersAreCurrent

CurrentInv == Undisturbed => HistoryInv

\* What a command does to old texts: they stay old, and none of them is the new one.
LEMMA OlderIs ==
    ASSUME NEW d \in Texts, NEW new, NEW fix \in Fixes, DOMAIN fix # {},
           new = Apply(d, fix), \A i \in DOMAIN fix : d[i] = "original",
           NEW t, Older(t, d)
    PROVE  Older(t, new) /\ t # new
<1>1. \A i \in Issues : new[i] = IF i \in DOMAIN fix THEN fix[i] ELSE d[i]
  BY ApplyIs
<1>2. PICK D \in SUBSET Issues : fix \in [D -> Suggestions]
  BY DEF Fixes
<1>3. \A i \in DOMAIN fix : i \in Issues /\ fix[i] # "original"
  BY <1>2 DEF Suggestions
<1>4. \A i \in DOMAIN fix : t[i] = "original"
  BY <1>3 DEF Older
<1>5. t # new
  BY <1>1, <1>3, <1>4
<1>6. Older(t, new)
  BY <1>1, <1>4 DEF Older
<1> QED
  BY <1>5, <1>6

LEMMA OldCardStays ==
    ASSUME NEW d \in Texts, NEW new, NEW fix \in Fixes, DOMAIN fix # {},
           new = Apply(d, fix), \A i \in DOMAIN fix : d[i] = "original",
           NEW card, NEW e, OldCard(card, d, e)
    PROVE  OldCard(card, new, e)
<1>1. Older(card.hash, d) /\ (e = "word" => Older(card.pid, d))
  BY DEF OldCard, OldPid
<1>2. \A t : Older(t, d) => Older(t, new) /\ t # new
  BY OlderIs
<1> QED
  BY <1>1, <1>2 DEF OldCard, OldPid

LEMMA OldCommandStays ==
    ASSUME NEW d \in Texts, NEW new, NEW fix \in Fixes, DOMAIN fix # {},
           new = Apply(d, fix), \A i \in DOMAIN fix : d[i] = "original",
           NEW cmd, NEW e, OldCommand(cmd, d, e)
    PROVE  /\ OldCommand(cmd, new, e) /\ cmd.base # new
           /\ e = "word" => cmd.pid # new
<1>1. Older(cmd.base, d) /\ (e = "word" => Older(cmd.pid, d))
  BY DEF OldCommand, OldPid
<1>2. \A t : Older(t, d) => Older(t, new) /\ t # new
  BY OlderIs
<1> QED
  BY <1>1, <1>2 DEF OldCommand, OldPid

\* A card that was just given the paragraph as it is.
Current(card, d, e) ==
    card.text = d /\ card.hash = d /\ card.pid = (IF e = "word" THEN d ELSE Untouched)

\* A card that says nothing new, and does not offer itself anew.
Kept(card, old) ==
    /\ card.text = old.text /\ card.hash = old.hash /\ card.pid = old.pid
    /\ card.status = "pending" /\ ~card.stale => old.status = "pending" /\ ~old.stale

LEMMA NewCardIsCurrent ==
    ASSUME NEW i, NEW s, NEW r, NEW d
    PROVE  Current(NewCard(i, s, d, d, r), d, editor)
BY DEF Current, NewCard, Pid, ContentIds

LEMMA CurrentIsOld ==
    ASSUME NEW card, NEW d, NEW e, Current(card, d, e)
    PROVE  OldCard(card, d, e)
BY DEF Current, OldCard, OldPid, Older

LEMMA KeptIsOld ==
    ASSUME NEW card, NEW old, NEW d, NEW e, Kept(card, old), OldCard(old, d, e)
    PROVE  OldCard(card, d, e)
BY DEF Kept, OldCard, OldPid, Older

\* Steps in which only cards change, and what waits for a snapshot.
LEMMA CardsOnly ==
    ASSUME HistoryInv,
           UNCHANGED <<editor, doc, applied, reanalyse, cmds, registry, atHost, result,
                       resolving, check>>,
           \A k \in DOMAIN cards' : \/ Current(cards'[k], doc, editor)
                                    \/ k \in DOMAIN cards /\ Kept(cards'[k], cards[k]),
           group' # NoGroup => OldCommand(group', doc, editor)
    PROVE  HistoryInv'
<1>1. NothingElse' /\ SuccessesAreOld' /\ LatestIsTrue' /\ TakenAreDone'
  BY DEF HistoryInv, NothingElse, SuccessesAreOld, LatestIsTrue, TakenAreDone, Latest, Done
<1>2. CardsAreOld'
  <2>1. \A k \in DOMAIN cards' : OldCard(cards'[k], doc, editor)
    BY CurrentIsOld, KeptIsOld DEF HistoryInv, CardsAreOld
  <2> QED
    BY <2>1 DEF CardsAreOld
<1>3. CommandsAreOld'
  BY DEF HistoryInv, CommandsAreOld
<1>4. OffersAreCurrent'
  <2> SUFFICES ASSUME AllHeard', NEW k \in DOMAIN cards', cards'[k].status = "pending",
                      ~cards'[k].stale, NEW p, p = cards'[k].pid, Addressed(p)'
               PROVE  cards'[k].hash = doc
    BY DEF OffersAreCurrent, Addressed, Latest, Done
  <2>1. AllHeard /\ Addressed(p)
    BY DEF AllHeard, Addressed, Latest, Done, Taken
  <2>2. CASE Current(cards'[k], doc, editor)
    BY <2>2 DEF Current
  <2>3. CASE k \in DOMAIN cards /\ Kept(cards'[k], cards[k])
    BY <2>1, <2>3 DEF Kept, HistoryInv, OffersAreCurrent
  <2> QED
    BY <2>2, <2>3
<1> QED
  BY <1>1, <1>2, <1>3, <1>4 DEF HistoryInv

LEMMA AddKept ==
    ASSUME CardType, NEW cs, NEW new, NEW len \in Nat, DOMAIN new = 1 .. len,
           AddCards(cs, new), \A n \in 1 .. len : Current(new[n], doc, editor),
           \A k \in DOMAIN cs : \/ Current(cs[k], doc, editor)
                                \/ k \in DOMAIN cards /\ Kept(cs[k], cards[k])
    PROVE  \A k \in DOMAIN cards' : \/ Current(cards'[k], doc, editor)
                                    \/ k \in DOMAIN cards /\ Kept(cards'[k], cards[k])
<1>1. nextCard \in 1 .. MaxCards + 1
  BY DEF CardType
<1>2. DOMAIN new = 1 .. len /\ AddCards(cs, new)
  OBVIOUS
<1>3. /\ \A k \in DOMAIN cs : cards'[k] = cs[k]
      /\ \A k \in DOMAIN cards' \ DOMAIN cs : \E n \in DOMAIN new : cards'[k] = new[n]
  BY <1>1, <1>2, AddCardsIs, ZenonT(60)
<1> QED
  BY <1>3

LEMMA TelemetryHistory ==
    ASSUME CardInv, HistoryInv, Telemetry
    PROVE  HistoryInv'
<1>1. CardType
  BY DEF CardInv, TypeInv
<1>2. PICK gone, again, last :
        AddCards(Without(cards, gone),
                 IF again = {} THEN << >>
                 ELSE << NewCard(last.issue, last.sug, doc, doc, TRUE) >>)
  BY DEF Telemetry
<1>3. PICK cs : cs = Without(cards, gone)
  OBVIOUS
<1>4. PICK new : new = IF again = {} THEN << >>
                       ELSE << NewCard(last.issue, last.sug, doc, doc, TRUE) >>
  OBVIOUS
<1>5. \E len \in Nat : DOMAIN new = 1 .. len /\ \A n \in 1 .. len : Current(new[n], doc, editor)
  <2>1. CASE again = {}
    <3>1. DOMAIN new = 1 .. 0
      BY <1>4, <2>1
    <3> QED
      BY <3>1
  <2>2. CASE again # {}
    <3>1. PICK c : c = NewCard(last.issue, last.sug, doc, doc, TRUE)
      OBVIOUS
    <3>2. Current(c, doc, editor)
      BY <3>1, NewCardIsCurrent
    <3>3. new = << c >>
      BY <1>4, <2>2, <3>1
    <3>4. DOMAIN new = 1 .. 1 /\ new[1] = c
      BY <3>3
    <3> QED
      BY <3>2, <3>4
  <2> QED
    BY <2>1, <2>2
<1>6. PICK len \in Nat : DOMAIN new = 1 .. len /\ \A n \in 1 .. len : Current(new[n], doc, editor)
  BY <1>5
<1>7. \A k \in DOMAIN cs : k \in DOMAIN cards /\ Kept(cs[k], cards[k])
  BY <1>3 DEF Without, Kept
<1>8. AddCards(cs, new)
  BY <1>2, <1>3, <1>4
<1>9. \A k \in DOMAIN cards' : \/ Current(cards'[k], doc, editor)
                               \/ k \in DOMAIN cards /\ Kept(cards'[k], cards[k])
  BY <1>1, <1>6, <1>7, <1>8, AddKept
<1>10. UNCHANGED <<editor, doc, applied, reanalyse, cmds, registry, atHost, result,
                   resolving, check, group>>
  BY DEF Telemetry, editorVars, commandVars, pendingVars
<1>11. group' # NoGroup => OldCommand(group', doc, editor)
  BY <1>10 DEF HistoryInv, CommandsAreOld
<1> QED
  BY <1>9, <1>10, <1>11, CardsOnly

LEMMA ReportHistory ==
    ASSUME CardInv, HistoryInv, ReportTelemetry
    PROVE  HistoryInv'
<1>1. CardType /\ doc \in Texts
  BY DEF CardInv, TypeInv, DocType
<1>2. PICK S \in SUBSET Originals(doc) : AddReport(doc, S)
  BY DEF ReportTelemetry
<1>3. PICK issues, keys, drop :
        LET fresh == {k \in DOMAIN cards : Refreshed(cards[k], doc, keys)}
            Refresh(c) == [c EXCEPT !.text = doc, !.hash = doc, !.stale = FALSE]
        IN  /\ issues \subseteq S
            /\ AddCards(Without(Changed(cards, fresh, Refresh), drop),
                        [n \in 1 .. Cardinality(issues) |->
                            NewCard(InOrder(issues)[n], "suggested", doc, doc, FALSE)])
  BY <1>2 DEF AddReport
<1>4. PICK cs : cs = Without([k \in DOMAIN cards |->
                                IF Refreshed(cards[k], doc, keys)
                                THEN [cards[k] EXCEPT !.text = doc, !.hash = doc, !.stale = FALSE]
                                ELSE cards[k]], drop)
  OBVIOUS
<1>5. PICK new : new = [n \in 1 .. Cardinality(issues) |->
                           NewCard(InOrder(issues)[n], "suggested", doc, doc, FALSE)]
  OBVIOUS
<1>6. AddCards(cs, new)
  BY <1>3, <1>4, <1>5 DEF Changed
<1>7. PICK len \in Nat : len = Cardinality(issues)
  <2>1. issues \subseteq 1 .. NumIssues
    BY <1>3 DEF Originals, Issues
  <2>2. IsFiniteSet(1 .. NumIssues)
    BY NumIssuesAssumption, FS_Interval
  <2>3. IsFiniteSet(issues)
    BY <2>1, <2>2, FS_Subset
  <2> QED
    BY <2>3, FS_CardinalityType
<1>8. DOMAIN new = 1 .. len /\ \A n \in 1 .. len : Current(new[n], doc, editor)
  <2>1. \A i, s, r : Current(NewCard(i, s, doc, doc, r), doc, editor)
    BY NewCardIsCurrent
  <2> QED
    BY <1>5, <1>7, <2>1
<1>9. ASSUME NEW k \in DOMAIN cs
      PROVE  Current(cs[k], doc, editor) \/ (k \in DOMAIN cards /\ Kept(cs[k], cards[k]))
  <2>1. k \in DOMAIN cards /\ cards[k] \in Cards
    BY <1>1, <1>4 DEF Without, CardType
  <2>2. CASE Refreshed(cards[k], doc, keys)
    <3>1. cs[k] = [cards[k] EXCEPT !.text = doc, !.hash = doc, !.stale = FALSE]
      BY <1>4, <2>1, <2>2 DEF Without
    <3>2. cards[k].pid = Pid(doc)
      BY <2>2 DEF Refreshed
    <3> QED
      BY <2>1, <3>1, <3>2 DEF Current, Cards, Pid, ContentIds
  <2>3. CASE ~Refreshed(cards[k], doc, keys)
    <3>1. cs[k] = cards[k]
      BY <1>4, <2>1, <2>3 DEF Without
    <3> QED
      BY <2>1, <3>1 DEF Kept
  <2> QED
    BY <2>2, <2>3
<1>10. \A k \in DOMAIN cards' : \/ Current(cards'[k], doc, editor)
                                \/ k \in DOMAIN cards /\ Kept(cards'[k], cards[k])
  BY <1>1, <1>6, <1>8, <1>9, AddKept
<1>11. UNCHANGED <<editor, doc, applied, reanalyse, cmds, registry, atHost, result,
                   resolving, check, group>>
  BY DEF ReportTelemetry, editorVars, newsVars, commandVars, pendingVars
<1>12. group' # NoGroup => OldCommand(group', doc, editor)
  BY <1>11 DEF HistoryInv, CommandsAreOld
<1> QED
  BY <1>10, <1>11, <1>12, CardsOnly

\* A card is marked or left as it is.
LEMMA MarkedIsKept ==
    ASSUME CardInv, NEW S, NEW status, status # "pending", cards' = With(S, status)
    PROVE  \A k \in DOMAIN cards' : k \in DOMAIN cards /\ Kept(cards'[k], cards[k])
<1>1. cards' = [k \in DOMAIN cards |-> IF k \in S THEN [cards[k] EXCEPT !.status = status]
                                       ELSE cards[k]]
  BY DEF With, Changed
<1>2. \A k \in DOMAIN cards : cards[k] \in Cards
  BY LegalCards DEF CardInv, Legal
<1> QED
  BY <1>1, <1>2 DEF Kept, Cards

LEMMA SendHistory ==
    ASSUME CardInv, HistoryInv, NEW cmd, Send(cmd), OldCommand(cmd, doc, editor),
           UNCHANGED <<resolving, check>>, group' \in {group, NoGroup}
    PROVE  HistoryInv'
<1>1. PICK len \in Nat :
        /\ len = Len(cmds) /\ DOMAIN cmds = 1 .. len /\ DOMAIN cmds' = 1 .. len + 1
        /\ \A c \in DOMAIN cmds : cmds'[c] = cmds[c]
        /\ cmds'[len + 1] = cmd
  <2>1. cmds \in Seq(CommandRecords)
    BY DEF CardInv, TypeInv, CommandType
  <2>2. cmds' = Append(cmds, cmd)
    BY DEF Send
  <2>3. PICK len \in Nat : len = Len(cmds)
    BY <2>1, LenProperties
  <2>4. cmds \in Seq(CommandRecords \cup {cmd})
    BY <2>1
  <2> QED
    BY <2>2, <2>3, <2>4, AppendProperties
<1>2. /\ cards' = With(cmd.cards, "applying")
      /\ registry' = registry \cup {len + 1} /\ atHost' = atHost \cup {len + 1}
      /\ UNCHANGED <<editor, doc, extras, applied, reanalyse, result>>
  BY <1>1 DEF Send, LastCommand, editorVars, newsVars
<1>3. len + 1 \notin DOMAIN cmds /\ DOMAIN cmds' = DOMAIN cmds \cup {len + 1}
  BY <1>1
<1>4. \A c \in Commands : Done(c) => c \in DOMAIN cmds /\ c # len + 1
  BY <1>3 DEF HistoryInv, SuccessesAreOld
<1>5. \A c \in DOMAIN cmds' : c \in Commands
  <2>1. len + 1 <= MaxCommands
    BY <1>1, BoundsAssumption DEF Send, LastCommand
  <2> QED
    BY <1>1, <2>1, BoundsAssumption DEF Commands
<1>6. \A c \in DOMAIN cmds' : Done(c) => c \in DOMAIN cmds
  BY <1>4, <1>5
<1>7. NothingElse' /\ CommandsAreOld' /\ SuccessesAreOld'
  <2>1. NothingElse'
    BY <1>2 DEF HistoryInv, NothingElse
  <2>2. CommandsAreOld'
    <3>1. \A c \in DOMAIN cmds' : OldCommand(cmds'[c], doc, editor)
      BY <1>1, <1>3 DEF HistoryInv, CommandsAreOld
    <3>2. group' # NoGroup => OldCommand(group', doc, editor)
      BY DEF HistoryInv, CommandsAreOld
    <3> QED
      BY <1>2, <3>1, <3>2 DEF CommandsAreOld
  <2>3. SuccessesAreOld'
    <3>1. ASSUME NEW c \in Commands, Done(c)
          PROVE  /\ c \in DOMAIN cmds' \ atHost'
                 /\ editor = "word" => cmds'[c].pid # doc
                 /\ \A h \in result[c].hash : Older(h, doc)
      <4>1. /\ c \in DOMAIN cmds \ atHost /\ (editor = "word" => cmds[c].pid # doc)
            /\ \A h \in result[c].hash : Older(h, doc)
        BY <3>1 DEF HistoryInv, SuccessesAreOld
      <4> QED
        BY <1>1, <1>2, <1>3, <1>4, <4>1
    <3> QED
      BY <1>2, <3>1 DEF SuccessesAreOld, Done
  <2> QED
    BY <2>1, <2>2, <2>3
<1>8. LatestIsTrue'
  <2>1. ASSUME NEW c \in DOMAIN cmds', Latest(c)'
        PROVE  result'[c].hash = {doc'}
    <3>1. c \in DOMAIN cmds /\ Latest(c)
      BY <1>2, <1>3, <1>6, <2>1 DEF Latest, Done
    <3> QED
      BY <1>2, <3>1 DEF HistoryInv, LatestIsTrue
  <2>2. ASSUME NEW c \in DOMAIN cmds', NEW d \in atHost', Done(c), cmds'[d].base = doc
        PROVE  c < d
    <3>1. c \in DOMAIN cmds
      BY <1>6, <2>2
    <3>2. CASE d \in atHost
      <4>1. d \in DOMAIN cmds
        BY <3>2 DEF CardInv, TypeInv, CommandType
      <4> QED
        BY <1>1, <2>2, <3>1, <3>2, <4>1 DEF HistoryInv, LatestIsTrue
    <3>3. CASE d = len + 1
      BY <1>1, <3>1, <3>3
    <3> QED
      BY <1>2, <3>2, <3>3
  <2>3. \A c \in DOMAIN cmds' : Latest(c)' => result'[c].hash = {doc'}
    BY <2>1
  <2>4. \A c \in DOMAIN cmds', d \in atHost' : Done(c)' /\ cmds'[d].base = doc' => c < d
    BY <1>2, <2>2 DEF Done
  <2> QED
    BY <2>3, <2>4 DEF LatestIsTrue, Latest, Done
<1>9. TakenAreDone'
  <2>1. ASSUME NEW n \in DOMAIN applied
        PROVE  Done(applied[n].cmd) /\ applied[n].cmd \notin registry'
    <3>1. Done(applied[n].cmd) /\ applied[n].cmd \notin registry
      BY DEF HistoryInv, TakenAreDone
    <3>2. applied[n].cmd \in Commands
      <4>1. applied \in Seq(Corrections)
        BY KeysAre
      <4>2. applied[n] \in Corrections
        BY <4>1
      <4> QED
        BY <4>2 DEF Corrections
    <3> QED
      BY <1>2, <1>4, <3>1, <3>2
  <2> QED
    BY <1>2, <2>1 DEF TakenAreDone, Done
<1>10. \A k \in DOMAIN cards' : k \in DOMAIN cards /\ Kept(cards'[k], cards[k])
  BY <1>2, MarkedIsKept
<1>11. CardsAreOld'
  <2>1. \A k \in DOMAIN cards' : OldCard(cards'[k], doc, editor)
    BY <1>10, KeptIsOld DEF HistoryInv, CardsAreOld
  <2> QED
    BY <1>2, <2>1 DEF CardsAreOld
<1>12. OffersAreCurrent'
  <2> SUFFICES ASSUME AllHeard', NEW k \in DOMAIN cards', cards'[k].status = "pending",
                      ~cards'[k].stale, NEW p, p = cards'[k].pid, Addressed(p)'
               PROVE  cards'[k].hash = doc'
    BY DEF OffersAreCurrent, Addressed, Latest, Done
  <2>1. AllHeard
    BY <1>2, <1>3 DEF AllHeard, Done, Taken
  <2>2. Addressed(p)
    <3>1. CASE editor = "word"
      <4>1. PICK c \in DOMAIN cmds' : Latest(c)' /\ p = cmds'[c].pid
        BY <1>2, <3>1 DEF Addressed
      <4>2. c \in DOMAIN cmds /\ Latest(c) /\ p = cmds[c].pid
        BY <1>1, <1>2, <1>3, <1>6, <4>1 DEF Latest, Done
      <4> QED
        BY <4>2 DEF Addressed
    <3> QED
      BY <3>1 DEF Addressed
  <2> QED
    BY <1>2, <1>10, <2>1, <2>2 DEF Kept, HistoryInv, OffersAreCurrent
<1> QED
  BY <1>7, <1>8, <1>9, <1>11, <1>12 DEF HistoryInv

LEMMA AcceptHistory ==
    ASSUME CardInv, HistoryInv, NEW k \in DOMAIN cards, NEW auto \in BOOLEAN,
           AcceptCard(k, auto), UNCHANGED <<resolving, check, group>>
    PROVE  HistoryInv'
<1>1. PICK cmd : cmd = Command({k}, cards[k].pid, cards[k].hash, cards[k].text,
                               [i \in {cards[k].issue} |-> cards[k].sug], auto)
  OBVIOUS
<1>2. Send(cmd)
  BY <1>1 DEF AcceptCard
<1>3. OldCard(cards[k], doc, editor)
  BY DEF HistoryInv, CardsAreOld
<1>4. cmd.text = cards[k].text /\ cmd.base = cards[k].hash /\ cmd.pid = cards[k].pid
  BY <1>1 DEF Command
<1>5. DOMAIN cmd.fix # {}
  BY <1>1 DEF Command
<1>6. OldCommand(cmd, doc, editor)
  BY <1>3, <1>4, <1>5 DEF OldCard, OldCommand
<1> QED
  BY <1>2, <1>6, SendHistory

LEMMA BatchHistory ==
    ASSUME CardInv, HistoryInv, BatchStart \/ BatchVerified \/ BatchNext
    PROVE  HistoryInv'
<1>1. CASE \E k \in DOMAIN cards : AcceptCard(k, FALSE) /\ UNCHANGED <<resolving, check, group>>
  <2>1. PICK k \in DOMAIN cards : AcceptCard(k, FALSE)
    BY <1>1
  <2>2. PICK auto \in BOOLEAN : auto = FALSE
    OBVIOUS
  <2>3. AcceptCard(k, auto)
    BY <2>1, <2>2
  <2> QED
    BY <1>1, <2>3, AcceptHistory
<1>2. CASE UNCHANGED <<editorVars, cardVars, newsVars, commandVars, resolving, group, check>>
  <2>1. \A k \in DOMAIN cards' : k \in DOMAIN cards /\ Kept(cards'[k], cards[k])
    BY <1>2 DEF Kept, cardVars
  <2>2. UNCHANGED <<editor, doc, applied, reanalyse, cmds, registry, atHost, result,
                    resolving, check, group>>
    BY <1>2 DEF editorVars, cardVars, newsVars, commandVars
  <2>3. group' # NoGroup => OldCommand(group', doc, editor)
    BY <2>2 DEF HistoryInv, CommandsAreOld
  <2> QED
    BY <2>1, <2>2, <2>3, CardsOnly
<1> QED
  BY <1>1, <1>2 DEF BatchStart, BatchVerified, BatchNext

LEMMA GroupHistory ==
    ASSUME CardInv, HistoryInv, GroupStart \/ GroupVerified
    PROVE  HistoryInv'
<1>1. CASE GroupStart
  <2>1. UNCHANGED <<editor, doc, applied, reanalyse, cmds, registry, atHost, result,
                    resolving, check>>
    BY <1>1 DEF GroupStart, editorVars, newsVars, commandVars
  <2>2. PICK pid \in {cards[k].pid : k \in InSentence} :
          LET S == {k \in InSentence : cards[k].pid = pid}
              k == CHOOSE j \in S : TRUE IN
          IF Plannable(S)
          THEN /\ group' = Command(S, pid, cards[k].hash, cards[k].text,
                                   [i \in {cards[j].issue : j \in S} |->
                                       cards[CHOOSE j \in S : cards[j].issue = i].sug],
                                   FALSE)
               /\ UNCHANGED cards
          ELSE group' = NoGroup /\ cards' = With(S, "failed")
    BY <1>1 DEF GroupStart
  <2>3. PICK S : S = {k \in InSentence : cards[k].pid = pid}
    OBVIOUS
  <2>4. PICK k \in S : k = CHOOSE j \in S : TRUE
    BY <2>2, <2>3
  <2>5. k \in DOMAIN cards /\ cards[k].pid = pid
    BY <2>3, <2>4 DEF InSentence
  <2>6. PICK fix : fix = [i \in {cards[j].issue : j \in S} |->
                             cards[CHOOSE j \in S : cards[j].issue = i].sug]
    OBVIOUS
  <2>7. \/ group' = Command(S, pid, cards[k].hash, cards[k].text, fix, FALSE) /\ cards' = cards
        \/ group' = NoGroup /\ cards' = With(S, "failed")
    <3>1. CASE Plannable(S)
      BY <2>2, <2>3, <2>4, <2>6, <3>1
    <3>2. CASE ~Plannable(S)
      BY <2>2, <2>3, <3>2
    <3> QED
      BY <3>1, <3>2
  <2>8. group' # NoGroup => OldCommand(group', doc, editor)
    <3>1. OldCard(cards[k], doc, editor)
      BY <2>5 DEF HistoryInv, CardsAreOld
    <3>2. DOMAIN fix # {}
      BY <2>4, <2>6
    <3> QED
      BY <2>5, <2>7, <3>1, <3>2 DEF Command, OldCard, OldCommand
  <2>9. \A j \in DOMAIN cards' : j \in DOMAIN cards /\ Kept(cards'[j], cards[j])
    <3>1. CASE cards' = cards
      BY <3>1 DEF Kept
    <3>2. CASE cards' = With(S, "failed")
      <4>1. PICK status : status = "failed"
        OBVIOUS
      <4>2. status # "pending" /\ cards' = With(S, status)
        BY <3>2, <4>1
      <4> QED
        BY <4>2, MarkedIsKept
    <3> QED
      BY <2>7, <3>1, <3>2
  <2> QED
    BY <2>1, <2>8, <2>9, CardsOnly
<1>2. CASE GroupVerified
  <2>1. group # NoGroup /\ group' = NoGroup /\ UNCHANGED <<resolving, check>>
    BY <1>2 DEF GroupVerified
  <2>2. CASE Send(group)
    <3>1. PICK cmd : cmd = group
      OBVIOUS
    <3>2. Send(cmd) /\ OldCommand(cmd, doc, editor)
      BY <2>1, <2>2, <3>1 DEF HistoryInv, CommandsAreOld
    <3> QED
      BY <2>1, <3>2, SendHistory
  <2>3. CASE /\ cards' = With(group.cards, "failed")
             /\ UNCHANGED <<editorVars, nextCard, dismissed, applied, newsVars, commandVars>>
    <3>1. PICK status, S : status = "failed" /\ S = group.cards
      OBVIOUS
    <3>2. status # "pending" /\ cards' = With(S, status)
      BY <2>3, <3>1
    <3>3. \A j \in DOMAIN cards' : j \in DOMAIN cards /\ Kept(cards'[j], cards[j])
      BY <3>2, MarkedIsKept
    <3>4. UNCHANGED <<editor, doc, applied, reanalyse, cmds, registry, atHost, result,
                      resolving, check>>
      BY <2>1, <2>3 DEF editorVars, newsVars, commandVars
    <3> QED
      BY <2>1, <3>3, <3>4, CardsOnly
  <2> QED
    BY <1>2, <2>2, <2>3 DEF GroupVerified
<1> QED
  BY <1>1, <1>2

\* The editor takes the command: any other answer would leave the track.
LEMMA HostHistory ==
    ASSUME CardInv, HistoryInv, NEW c \in atHost, HostExecutes(c), OnTrack'
    PROVE  HistoryInv'
<1>1. /\ c \in DOMAIN cmds /\ c \in Commands /\ cmds[c] \in CommandRecords /\ doc \in Texts
      /\ result \in [Commands -> Results \cup {NoResult}]
  <2>1. c \in DOMAIN cmds
    BY DEF CardInv, TypeInv, CommandType
  <2> QED
    BY <2>1, CommandIs DEF CardInv, TypeInv, CommandType, DocType
<1>2. /\ atHost' = atHost \ {c}
      /\ UNCHANGED <<editor, extras, cards, nextCard, dismissed, applied, reanalyse, cmds,
                     registry, group, check, resolving>>
  BY DEF HostExecutes, Answer, cardVars, newsVars, pendingVars
<1>3. ~Taken(c)
  BY <1>1 DEF HistoryInv, TakenAreDone, SuccessesAreOld, Taken
<1>4. result'[c].status = "SUCCESS"
  BY <1>1, <1>2, <1>3 DEF OnTrack, Taken, Done
<1>5. PICK fix \in Fixes : fix = cmds[c].fix
  BY <1>1 DEF CommandRecords
<1>6. /\ doc' = Apply(doc, fix) /\ cmds[c].base = doc
      /\ \A i \in DOMAIN fix : doc[i] = "original"
      /\ result' = [result EXCEPT ![c] = Result("SUCCESS", {doc'})]
  <2>1. ASSUME NEW s, NEW h, Answer(c, Result(s, h))
        PROVE  s = "SUCCESS"
    BY <1>1, <1>4, <2>1 DEF Answer, Result
  <2>2. /\ doc' = Apply(doc, fix) /\ BaseMatches(cmds[c]) /\ Fits(cmds[c])
        /\ \E s : Answer(c, Result(s, {Apply(doc, fix)}))
    BY <1>5, <2>1 DEF HostExecutes
  <2>3. PICK s : Answer(c, Result(s, {doc'})) /\ s = "SUCCESS"
    BY <2>1, <2>2
  <2>4. result' = [result EXCEPT ![c] = Result("SUCCESS", {doc'})]
    BY <2>3 DEF Answer
  <2> QED
    BY <1>5, <2>2, <2>4 DEF BaseMatches, Fits
<1>7. OldCommand(cmds[c], doc, editor) /\ DOMAIN fix # {}
  BY <1>1, <1>5 DEF HistoryInv, CommandsAreOld, OldCommand
<1>8. /\ \A t : Older(t, doc) => Older(t, doc')
      /\ \A card : OldCard(card, doc, editor) => OldCard(card, doc', editor)
      /\ \A cmd : OldCommand(cmd, doc, editor) =>
            /\ OldCommand(cmd, doc', editor) /\ cmd.base # doc'
            /\ editor = "word" => cmd.pid # doc'
  <2>1. PICK new : new = doc'
    OBVIOUS
  <2>2. new = Apply(doc, fix) /\ DOMAIN fix # {} /\ \A i \in DOMAIN fix : doc[i] = "original"
    BY <1>6, <1>7, <2>1
  <2>3. /\ \A t : Older(t, doc) => Older(t, new)
        /\ \A card, e : OldCard(card, doc, e) => OldCard(card, new, e)
        /\ \A cmd, e : OldCommand(cmd, doc, e) =>
              /\ OldCommand(cmd, new, e) /\ cmd.base # new
              /\ e = "word" => cmd.pid # new
    BY <1>1, <1>5, <2>2, OlderIs, OldCardStays, OldCommandStays
  <2> QED
    BY <2>1, <2>3
<1>9. \A d \in Commands : /\ result'[d].status = "SUCCESS" <=> Done(d) \/ d = c
                          /\ d # c => result'[d] = result[d]
                          /\ d = c => result'[d].hash = {doc'}
  BY <1>1, <1>4, <1>6 DEF Done, Result
<1>10. \A d \in DOMAIN cmds : d \in Commands /\ OldCommand(cmds[d], doc, editor)
  BY CommandIs DEF HistoryInv, CommandsAreOld
<1>11. NothingElse' /\ CardsAreOld' /\ CommandsAreOld'
  <2>1. \A k \in DOMAIN cards : OldCard(cards[k], doc', editor)
    BY <1>8 DEF HistoryInv, CardsAreOld
  <2>2. \A d \in DOMAIN cmds : OldCommand(cmds[d], doc', editor)
    BY <1>8, <1>10
  <2>3. group # NoGroup => OldCommand(group, doc', editor)
    BY <1>8 DEF HistoryInv, CommandsAreOld
  <2> QED
    BY <1>2, <2>1, <2>2, <2>3 DEF HistoryInv, NothingElse, CardsAreOld, CommandsAreOld
<1>12. SuccessesAreOld'
  <2>1. ASSUME NEW d \in Commands, result'[d].status = "SUCCESS"
        PROVE  /\ d \in DOMAIN cmds \ atHost'
               /\ editor = "word" => cmds[d].pid # doc'
               /\ \A h \in result'[d].hash : Older(h, doc')
    <3>1. CASE d = c
      <4>1. Older(doc', doc')
        BY DEF Older
      <4> QED
        BY <1>1, <1>2, <1>8, <1>9, <1>10, <3>1, <4>1
    <3>2. CASE d # c
      <4>1. Done(d) /\ result'[d] = result[d]
        BY <1>9, <2>1, <3>2
      <4>2. d \in DOMAIN cmds \ atHost /\ \A h \in result[d].hash : Older(h, doc)
        BY <4>1 DEF HistoryInv, SuccessesAreOld
      <4> QED
        BY <1>2, <1>8, <1>10, <4>1, <4>2
    <3> QED
      BY <3>1, <3>2
  <2> QED
    BY <1>2, <2>1 DEF SuccessesAreOld, Done
<1>13. LatestIsTrue'
  <2>1. ASSUME NEW d \in DOMAIN cmds, Latest(d)'
        PROVE  result'[d].hash = {doc'}
    <3>1. CASE d = c
      BY <1>1, <1>9, <3>1
    <3>2. CASE d # c
      <4>1. Done(d) /\ c <= d
        BY <1>1, <1>2, <1>4, <1>9, <1>10, <2>1, <3>2 DEF Latest, Done
      <4>2. d < c
        BY <1>6, <4>1 DEF HistoryInv, LatestIsTrue
      <4>3. c \in Int /\ d \in Int
        BY <1>1, <1>10 DEF Commands
      <4> QED
        BY <4>1, <4>2, <4>3
    <3> QED
      BY <3>1, <3>2
  <2>2. \A d \in atHost' : cmds[d].base # doc'
    <3>1. atHost' \subseteq DOMAIN cmds
      BY <1>2 DEF CardInv, TypeInv, CommandType
    <3> QED
      BY <1>8, <1>10, <3>1
  <2> QED
    BY <1>2, <2>1, <2>2 DEF LatestIsTrue, Latest, Done
<1>14. TakenAreDone'
  <2>1. ASSUME NEW n \in DOMAIN applied
        PROVE  result'[applied[n].cmd].status = "SUCCESS" /\ applied[n].cmd \notin registry
    <3>1. Done(applied[n].cmd) /\ applied[n].cmd \notin registry
      BY DEF HistoryInv, TakenAreDone
    <3>2. applied[n].cmd \in Commands
      <4>1. applied \in Seq(Corrections)
        BY KeysAre
      <4>2. applied[n] \in Corrections
        BY <4>1
      <4> QED
        BY <4>2 DEF Corrections
    <3> QED
      BY <1>9, <3>1, <3>2
  <2> QED
    BY <1>2, <2>1 DEF TakenAreDone, Done
<1>15. OffersAreCurrent'
  <2>1. ~AllHeard'
    BY <1>1, <1>2, <1>3, <1>4 DEF AllHeard, Done, Taken
  <2> QED
    BY <2>1 DEF OffersAreCurrent
<1> QED
  BY <1>11, <1>12, <1>13, <1>14, <1>15 DEF HistoryInv

\* What becomes of a card when another one's command has succeeded.
LEMMA SiblingIs ==
    ASSUME CardInv, NEW cmd \in CommandRecords, NEW r, cards' = AfterSuccess(cmd, r),
           NEW k \in DOMAIN cards'
    PROVE  /\ k \in DOMAIN cards /\ cards[k] \in Cards
           /\ \/ /\ cards'[k] = cards[k]
                 /\ cards[k].status = "pending" => cards[k].pid # cmd.pid
              \/ /\ cards'[k].pid = cmd.pid /\ Kept(cards'[k], cards[k])
                 /\ cards'[k].status = "pending" => cards'[k].stale
              \/ /\ cards'[k].pid = cmd.pid /\ r.hash = {Expected(cmd)}
                 /\ cards'[k].text = Expected(cmd) /\ cards'[k].hash = Expected(cmd)
<1>1. PICK rest : rest = Without(cards, cmd.cards)
  OBVIOUS
<1>2. /\ DOMAIN rest = DOMAIN cards \ cmd.cards
      /\ \A j \in DOMAIN rest : rest[j] = cards[j]
  BY <1>1 DEF Without
<1>3. \/ /\ r.hash = {Expected(cmd)}
         /\ cards' = [j \in DOMAIN rest |-> IF j \in Siblings(rest, cmd)
                                            THEN Rebased(rest[j], cmd) ELSE rest[j]]
      \/ cards' = [j \in DOMAIN rest |-> IF j \in Siblings(rest, cmd)
                                         THEN [rest[j] EXCEPT !.stale = TRUE] ELSE rest[j]]
  BY <1>1 DEF AfterSuccess, Changed
<1>4. k \in DOMAIN rest /\ k \in DOMAIN cards /\ cards[k] \in Cards /\ rest[k] = cards[k]
  BY <1>2, <1>3, LegalCards DEF CardInv, Legal
<1>5. CASE k \notin Siblings(rest, cmd)
  BY <1>3, <1>4, <1>5 DEF Siblings
<1>6. CASE k \in Siblings(rest, cmd)
  <2>1. cards[k].pid = cmd.pid
    BY <1>4, <1>6 DEF Siblings
  <2>2. CASE r.hash = {Expected(cmd)} /\ cards'[k] = Rebased(cards[k], cmd)
    <3>1. CASE PointsAt(cards[k], cmd.text) /\ cards[k].issue \notin DOMAIN cmd.fix
      BY <1>4, <2>1, <2>2, <3>1 DEF Rebased, Cards
    <3>2. CASE ~(PointsAt(cards[k], cmd.text) /\ cards[k].issue \notin DOMAIN cmd.fix)
      BY <1>4, <2>1, <2>2, <3>2 DEF Rebased, Cards, Kept
    <3> QED
      BY <3>1, <3>2
  <2>3. CASE cards'[k] = [cards[k] EXCEPT !.stale = TRUE]
    BY <1>4, <2>1, <2>3 DEF Cards, Kept
  <2> QED
    BY <1>3, <1>4, <1>6, <2>2, <2>3
<1> QED
  BY <1>4, <1>5, <1>6

\* What a success does, and what it adds to the history.
LEMMA HistoryIs ==
    ASSUME CardInv, NEW c \in DOMAIN cmds, NEW r, Process(c, r), applied' # applied
    PROVE  /\ c \in registry /\ registry' = registry \ {c}
           /\ r.status = "SUCCESS" /\ cards' = AfterSuccess(cmds[c], r)
           /\ resolving' = resolving
           /\ \E len, more \in Nat :
                /\ DOMAIN applied = 1 .. len /\ DOMAIN applied' = 1 .. len + more
                /\ \A n \in 1 .. len : applied'[n] = applied[n]
                /\ \A n \in 1 .. more : applied'[len + n].cmd = c
                /\ \A n \in DOMAIN applied' :
                      applied'[n].cmd = c \/ (n \in DOMAIN applied /\ applied'[n] = applied[n])
<1>1. PICK held : held = cmds[c].cards \cap DOMAIN cards
  OBVIOUS
<1>2. PICK new : new = [n \in 1 .. Cardinality(held) |-> Accepted(InOrder(held)[n], c)]
  OBVIOUS
<1>3. /\ c \in registry /\ registry' = registry \ {c}
      /\ r.status = "SUCCESS" /\ cards' = AfterSuccess(cmds[c], r)
      /\ applied' = applied \o new /\ resolving' = resolving
  BY <1>1, <1>2 DEF Process, Pending
<1>4. PICK len \in Nat, more \in Nat :
        /\ DOMAIN applied = 1 .. len /\ DOMAIN applied' = 1 .. len + more
        /\ \A n \in 1 .. len : applied'[n] = applied[n]
        /\ \A n \in 1 .. more : applied'[len + n].cmd = c
  <2>1. /\ held \subseteq DOMAIN cards
        /\ IsTable(new) /\ DOMAIN new = 1 .. Cardinality(held)
        /\ \A m \in 1 .. Cardinality(held) : new[m] = Accepted(InOrder(held)[m], c)
    BY <1>1, <1>2 DEF IsTable
  <2>2. /\ new \in Seq(Corrections) /\ applied \o new \in Seq(Corrections)
        /\ applied \in Seq(Corrections) /\ DOMAIN applied = 1 .. Len(applied)
        /\ DOMAIN (applied \o new) = 1 .. Len(applied) + Len(new)
        /\ \A j \in 1 .. Len(applied) : (applied \o new)[j] = applied[j]
        /\ \A j \in 1 .. Len(new) : (applied \o new)[Len(applied) + j] = new[j]
        /\ Len(new) = Cardinality(held) /\ \A j \in 1 .. Len(new) : InOrder(held)[j] \in held
    <3>1. c \in DOMAIN cmds /\ CardInv
      OBVIOUS
    <3> QED
      BY <2>1, <3>1, RecordedIs
  <2>3. \A j \in 1 .. Len(new) : new[j].cmd = c
    BY <2>1, <2>2 DEF Accepted
  <2>4. Len(applied) \in Nat /\ Len(new) \in Nat
    BY <2>2, LenProperties
  <2> QED
    BY <1>3, <2>2, <2>3, <2>4
<1>5. ASSUME NEW n \in DOMAIN applied'
      PROVE  applied'[n].cmd = c \/ (n \in DOMAIN applied /\ applied'[n] = applied[n])
  <2>1. CASE n \in 1 .. len
    BY <1>4, <2>1
  <2>2. CASE n \notin 1 .. len
    <3>1. n - len \in 1 .. more /\ n = len + (n - len)
      BY <1>4, <2>2
    <3>2. PICK m \in 1 .. more : n = len + m
      BY <3>1
    <3> QED
      BY <1>4, <3>2
  <2> QED
    BY <2>1, <2>2
<1> QED
  BY <1>3, <1>4, <1>5

\* An answer is handled: on the track it is a success that was not handled before.
LEMMA ProcessHistory ==
    ASSUME CardInv, HistoryInv, NEW c \in DOMAIN cmds, NEW r, Process(c, r),
           r.status = "SUCCESS" => r = result[c],
           UNCHANGED <<editor, doc, reanalyse, cmds, atHost, result, group, check>>,
           OnTrack', TakenInOrder'
    PROVE  HistoryInv'
<1>1. CASE ~Pending(c)
  <2>1. UNCHANGED <<registry, cards, applied, resolving>>
    BY <1>1 DEF Process
  <2>2. \A k \in DOMAIN cards' : k \in DOMAIN cards /\ Kept(cards'[k], cards[k])
    BY <2>1 DEF Kept
  <2>3. group' # NoGroup => OldCommand(group', doc, editor)
    BY DEF HistoryInv, CommandsAreOld
  <2> QED
    BY <2>1, <2>2, <2>3, CardsOnly
<1>2. CASE Pending(c)
  <2>1. registry' = registry \ {c} /\ c \in registry
    BY <1>2 DEF Process, Pending
  <2>2. Taken(c)' /\ ~Taken(c)
    BY <2>1 DEF OnTrack, HistoryInv, TakenAreDone, Taken
  <2>3. /\ r = result[c] /\ Done(c) /\ cards' = AfterSuccess(cmds[c], result[c])
        /\ resolving' = resolving
        /\ \E len, more \in Nat :
              /\ DOMAIN applied = 1 .. len /\ DOMAIN applied' = 1 .. len + more
              /\ \A n \in 1 .. len : applied'[n] = applied[n]
              /\ \A n \in 1 .. more : applied'[len + n].cmd = c
              /\ \A n \in DOMAIN applied' :
                    applied'[n].cmd = c \/ (n \in DOMAIN applied /\ applied'[n] = applied[n])
    <3>1. applied' # applied
      BY <2>2 DEF Taken
    <3> QED
      BY <3>1, HistoryIs DEF Done
  <2>4. PICK len \in Nat, more \in Nat :
          /\ DOMAIN applied = 1 .. len /\ DOMAIN applied' = 1 .. len + more
          /\ \A n \in 1 .. len : applied'[n] = applied[n]
          /\ \A n \in 1 .. more : applied'[len + n].cmd = c
          /\ \A n \in DOMAIN applied' :
                applied'[n].cmd = c \/ (n \in DOMAIN applied /\ applied'[n] = applied[n])
    BY <2>3
  <2>5. c \in Commands /\ cmds[c] \in CommandRecords
    BY CommandIs
  <2>6. \A n \in DOMAIN applied' : applied'[n].cmd <= c
    <3>1. PICK n \in DOMAIN applied' : applied'[n].cmd = c /\ n \notin 1 .. len
      BY <2>2, <2>4 DEF Taken
    <3>2. more # 0 /\ more \in 1 .. more /\ len + more \in 1 .. len + more
      BY <2>4, <3>1
    <3>3. PICK last : last = len + more /\ last \in 1 .. len + more /\ applied'[last].cmd = c
      BY <2>4, <3>2
    <3>4. \A m \in 1 .. len + more : m = last \/ m < last
      BY <3>3
    <3>5. c <= c
      BY <2>5 DEF Commands
    <3> QED
      BY <2>4, <3>3, <3>4, <3>5 DEF TakenInOrder
  <2>7. AllHeard' => Latest(c)
    BY <2>3, <2>6 DEF AllHeard, Taken, Latest, Done
  <2>8. NothingElse' /\ CommandsAreOld' /\ SuccessesAreOld' /\ LatestIsTrue'
    BY <2>3 DEF HistoryInv, NothingElse, CommandsAreOld, SuccessesAreOld, LatestIsTrue, Latest, Done
  <2>9. TakenAreDone'
    <3>1. \A n \in DOMAIN applied' : Done(applied'[n].cmd) /\ applied'[n].cmd \notin registry'
      BY <2>1, <2>3, <2>4 DEF HistoryInv, TakenAreDone
    <3> QED
      BY <3>1 DEF TakenAreDone, Done
  <2>10. PICK cmd : cmd = cmds[c]
    OBVIOUS
  <2>11. \A k \in DOMAIN cards' :
            /\ k \in DOMAIN cards /\ cards[k] \in Cards
            /\ \/ /\ cards'[k] = cards[k]
                  /\ cards[k].status = "pending" => cards[k].pid # cmd.pid
               \/ /\ cards'[k].pid = cmd.pid /\ Kept(cards'[k], cards[k])
                  /\ cards'[k].status = "pending" => cards'[k].stale
               \/ /\ cards'[k].pid = cmd.pid /\ result[c].hash = {Expected(cmd)}
                  /\ cards'[k].text = Expected(cmd) /\ cards'[k].hash = Expected(cmd)
    <3>1. cmd \in CommandRecords /\ cards' = AfterSuccess(cmd, result[c])
      BY <2>3, <2>5, <2>10
    <3> QED
      BY <3>1, SiblingIs
  <2>12. /\ OldPid(cmd.pid, doc, editor) /\ (editor = "word" => cmd.pid # doc)
         /\ \A h \in result[c].hash : Older(h, doc)
    BY <2>3, <2>5, <2>10 DEF HistoryInv, CommandsAreOld, OldCommand, SuccessesAreOld
  <2>13. CardsAreOld'
    <3>1. ASSUME NEW k \in DOMAIN cards'
          PROVE  OldCard(cards'[k], doc, editor)
      <4>1. OldCard(cards[k], doc, editor)
        BY <2>11 DEF HistoryInv, CardsAreOld
      <4>2. CASE Kept(cards'[k], cards[k])
        BY <4>1, <4>2, KeptIsOld
      <4>3. CASE cards'[k] = cards[k]
        BY <4>1, <4>3
      <4>4. CASE /\ cards'[k].pid = cmd.pid /\ result[c].hash = {Expected(cmd)}
                 /\ cards'[k].text = Expected(cmd) /\ cards'[k].hash = Expected(cmd)
        BY <2>12, <4>4 DEF OldCard
      <4> QED
        BY <2>11, <4>2, <4>3, <4>4
    <3> QED
      BY <3>1 DEF CardsAreOld
  <2>14. OffersAreCurrent'
    <3> SUFFICES ASSUME AllHeard', NEW k \in DOMAIN cards', cards'[k].status = "pending",
                        ~cards'[k].stale, NEW p, p = cards'[k].pid, Addressed(p)'
                 PROVE  cards'[k].hash = doc
      BY DEF OffersAreCurrent, Addressed, Latest, Done
    <3>1. Latest(c) /\ result[c].hash = {doc}
      BY <2>7 DEF HistoryInv, LatestIsTrue
    <3>2. p = cmd.pid
      <4>1. CASE editor = "word"
        <5>1. PICK d \in DOMAIN cmds : Latest(d) /\ p = cmds[d].pid
          BY <4>1 DEF Addressed, Latest, Done
        <5>2. d \in Int /\ c \in Int /\ c <= d /\ d <= c
          BY <2>5, <3>1, <5>1, CommandIs DEF Latest, Commands
        <5>3. c = d
          BY <5>2
        <5> QED
          BY <2>10, <5>1, <5>3
      <4>2. CASE editor # "word"
        <5>1. OldPid(p, doc, editor)
          BY <2>13 DEF CardsAreOld, OldCard
        <5> QED
          BY <2>12, <4>2, <5>1 DEF OldPid
      <4> QED
        BY <4>1, <4>2
    <3> QED
      BY <2>11, <3>1, <3>2
  <2> QED
    BY <2>8, <2>9, <2>13, <2>14 DEF HistoryInv
<1> QED
  BY <1>1, <1>2

\* What is undisturbed after a step was so before it: first for the steps that add
\* nothing to the history.
LEMMA StillOnTrack ==
    ASSUME Undisturbed', UNCHANGED <<extras, applied>>,
           \A c \in DOMAIN cmds :
              /\ c \in DOMAIN cmds'
              /\ c \in registry' => c \in registry
              /\ c \in atHost' => c \in atHost
              /\ result'[c] # result[c] => c \in atHost
    PROVE  Undisturbed
<1>1. OnTrack
  BY DEF Undisturbed, OnTrack, Taken, Done
<1> QED
  BY <1>1 DEF Undisturbed, TakenInOrder

LEMMA SendUndisturbed ==
    ASSUME CardInv, NEW cmd, Send(cmd), Undisturbed'
    PROVE  Undisturbed
<1>1. PICK len \in Nat :
        len = Len(cmds) /\ DOMAIN cmds = 1 .. len /\ DOMAIN cmds' = 1 .. len + 1
  <2>1. cmds \in Seq(CommandRecords)
    BY DEF CardInv, TypeInv, CommandType
  <2>2. cmds' = Append(cmds, cmd)
    BY DEF Send
  <2>3. PICK len \in Nat : len = Len(cmds)
    BY <2>1, LenProperties
  <2>4. cmds \in Seq(CommandRecords \cup {cmd})
    BY <2>1
  <2> QED
    BY <2>2, <2>3, <2>4, AppendProperties
<1>2. /\ registry' = registry \cup {len + 1} /\ atHost' = atHost \cup {len + 1}
      /\ UNCHANGED <<extras, applied, result>>
  BY <1>1 DEF Send, LastCommand, editorVars
<1>3. len + 1 \notin DOMAIN cmds /\ DOMAIN cmds \subseteq DOMAIN cmds'
  BY <1>1
<1> QED
  BY <1>2, <1>3, StillOnTrack

LEMMA ProcessUndisturbed ==
    ASSUME CardInv, NEW c \in DOMAIN cmds, NEW r, Process(c, r),
           r.status = "SUCCESS" => r = result[c],
           UNCHANGED <<extras, cmds, atHost, result>>, Undisturbed'
    PROVE  Undisturbed
<1>1. CASE applied' = applied
  <2>1. registry' \subseteq registry
    BY DEF Process
  <2> QED
    BY <1>1, <2>1, StillOnTrack
<1>2. CASE applied' # applied
  <2>1. /\ c \in registry /\ Done(c) /\ registry' = registry \ {c}
        /\ \E len, more \in Nat :
              /\ DOMAIN applied = 1 .. len /\ DOMAIN applied' = 1 .. len + more
              /\ \A n \in 1 .. len : applied'[n] = applied[n]
              /\ \A n \in 1 .. more : applied'[len + n].cmd = c
              /\ \A n \in DOMAIN applied' :
                    applied'[n].cmd = c \/ (n \in DOMAIN applied /\ applied'[n] = applied[n])
    BY <1>2, HistoryIs DEF Done
  <2>2. PICK len \in Nat, more \in Nat :
          /\ DOMAIN applied = 1 .. len /\ DOMAIN applied' = 1 .. len + more
          /\ \A n \in 1 .. len : applied'[n] = applied[n]
          /\ \A n \in DOMAIN applied' :
                applied'[n].cmd = c \/ (n \in DOMAIN applied /\ applied'[n] = applied[n])
    BY <2>1
  <2>3. OnTrack
    <3>1. ASSUME NEW d \in DOMAIN cmds
          PROVE  Taken(d) \/ (d \in registry /\ (d \in atHost \/ Done(d)))
      <4>1. CASE d = c
        BY <2>1, <4>1
      <4>2. CASE d # c /\ \E n \in DOMAIN applied' : applied'[n].cmd = d
        BY <2>2, <4>2 DEF Taken
      <4>3. CASE ~ \E n \in DOMAIN applied' : applied'[n].cmd = d
        BY <2>1, <4>3 DEF Undisturbed, OnTrack, Taken, Done
      <4> QED
        BY <4>1, <4>2, <4>3
    <3> QED
      BY <3>1 DEF OnTrack
  <2>4. TakenInOrder
    BY <2>2 DEF Undisturbed, TakenInOrder
  <2> QED
    BY <2>3, <2>4 DEF Undisturbed
<1> QED
  BY <1>1, <1>2

\* The steps that nothing outside the dashboard's own commands takes part in.
Undisturbing ==
    \/ Telemetry \/ ReportTelemetry \/ ReportReanalysis \/ Accept
    \/ BatchStart \/ BatchVerified \/ BatchNext \/ GroupStart \/ GroupVerified
    \/ \E c \in atHost : HostExecutes(c)
    \/ \E c \in rpc : RpcReturns(c) \/ RpcTimesOut(c)
    \/ \E c \in events : EventArrives(c)
    \/ \E k \in DOMAIN resolving : ResolverEnds(k)
    \/ CheckEnds

LEMMA ExtraCounts ==
    ASSUME CardInv, Next, extras' = 0
    PROVE  Undisturbing
<1>1. ~Extra
  BY DEF Extra, CardInv, TypeInv, DocType
<1> QED
  BY <1>1 DEF Next, Undisturbing, UserEdits, ChooseSuggestion, DismissCard, DismissAll,
     ResetQaCards, LocateFails, HostFails, RpcFails, ResolverFails, CheckStarts, Reload

\* The handling of an answer, whichever way it came.
LEMMA AnswerHistory ==
    ASSUME CardInv, CurrentInv, Undisturbed',
           \/ \E c \in rpc : RpcReturns(c) \/ RpcTimesOut(c)
           \/ \E c \in events : EventArrives(c)
    PROVE  HistoryInv'
<1>1. PICK c \in DOMAIN cmds : \E r :
        /\ Process(c, r) /\ (r.status = "SUCCESS" => r = result[c])
        /\ UNCHANGED <<editor, doc, extras, reanalyse, cmds, atHost, result, group, check>>
  <2>1. rpc \subseteq DOMAIN cmds /\ events \subseteq DOMAIN cmds
    BY DEF CardInv, TypeInv, CommandType
  <2>2. CASE \E c \in rpc : RpcReturns(c) \/ RpcTimesOut(c)
    <3>1. PICK c \in rpc : RpcReturns(c) \/ RpcTimesOut(c)
      BY <2>2
    <3>2. UNCHANGED <<editor, doc, extras, reanalyse, cmds, atHost, result, group, check>>
      BY <3>1 DEF RpcReturns, RpcTimesOut, Return, newsVars
    <3>3. \E r : Process(c, r) /\ (r.status = "SUCCESS" => r = result[c])
      BY <3>1 DEF RpcReturns, RpcTimesOut, Return, Result
    <3> QED
      BY <2>1, <3>2, <3>3
  <2>3. CASE \E c \in events : EventArrives(c)
    <3>1. PICK c \in events : EventArrives(c)
      BY <2>3
    <3>2. /\ UNCHANGED <<editor, doc, extras, reanalyse, cmds, atHost, result, group, check>>
          /\ Process(c, result[c])
      BY <3>1 DEF EventArrives, editorVars, newsVars
    <3> QED
      BY <2>1, <3>2
  <2> QED
    BY <2>2, <2>3
<1>2. PICK r :
        /\ Process(c, r) /\ (r.status = "SUCCESS" => r = result[c])
        /\ UNCHANGED <<editor, doc, extras, reanalyse, cmds, atHost, result, group, check>>
  BY <1>1
<1>3. Undisturbed
  BY <1>2, ProcessUndisturbed
<1>4. HistoryInv /\ OnTrack' /\ TakenInOrder'
  BY <1>3 DEF CurrentInv, Undisturbed
<1> QED
  BY <1>2, <1>4, ProcessHistory

LEMMA CurrentStep ==
    ASSUME CardInv, CurrentInv, [Next]_vars
    PROVE  CurrentInv'
<1> SUFFICES ASSUME Undisturbed'
             PROVE  HistoryInv'
  BY DEF CurrentInv
<1>1. CASE UNCHANGED vars
  <2>1. UNCHANGED <<editor, doc, extras, cards, applied, reanalyse, cmds, registry, atHost,
                    result, resolving, check, group>>
    BY <1>1 DEF vars, editorVars, cardVars, newsVars, commandVars, pendingVars
  <2>2. Undisturbed
    BY <2>1 DEF Undisturbed, OnTrack, TakenInOrder, Taken, Done
  <2>3. \A k \in DOMAIN cards' : k \in DOMAIN cards /\ Kept(cards'[k], cards[k])
    BY <2>1 DEF Kept
  <2>4. HistoryInv /\ (group' # NoGroup => OldCommand(group', doc, editor))
    BY <2>1, <2>2 DEF CurrentInv, HistoryInv, CommandsAreOld
  <2> QED
    BY <2>1, <2>3, <2>4, CardsOnly
<1>2. CASE Next
  <2>1. Undisturbing
    BY <1>2, ExtraCounts DEF Undisturbed
  <2>2. ASSUME UNCHANGED <<extras, applied, cmds, registry, atHost, result>>
        PROVE  HistoryInv
    <3>1. Undisturbed
      BY <2>2 DEF Undisturbed, OnTrack, TakenInOrder, Taken, Done
    <3> QED
      BY <3>1 DEF CurrentInv
  <2>3. CASE Telemetry
    <3>1. UNCHANGED <<extras, applied, cmds, registry, atHost, result>>
      BY <2>3 DEF Telemetry, editorVars, commandVars
    <3> QED
      BY <2>2, <2>3, <3>1, TelemetryHistory
  <2>4. CASE ReportTelemetry
    <3>1. UNCHANGED <<extras, applied, cmds, registry, atHost, result>>
      BY <2>4 DEF ReportTelemetry, editorVars, commandVars
    <3> QED
      BY <2>2, <2>4, <3>1, ReportHistory
  <2>5. CASE ReportReanalysis
    <3>1. UNCHANGED <<extras, applied, cmds, registry, atHost, result>> /\ reanalyse # {}
      BY <2>5 DEF ReportReanalysis, editorVars, commandVars
    <3> QED
      BY <2>2, <3>1 DEF HistoryInv, NothingElse
  <2>6. CASE \E k \in DOMAIN resolving : ResolverEnds(k)
    <3>1. UNCHANGED <<extras, applied, cmds, registry, atHost, result>>
      BY <2>6 DEF ResolverEnds, editorVars, commandVars
    <3>2. resolving = << >> /\ DOMAIN << >> = {}
      BY <2>2, <3>1 DEF HistoryInv, NothingElse
    <3> QED
      BY <2>6, <3>2
  <2>7. CASE CheckEnds
    <3>1. UNCHANGED <<extras, applied, cmds, registry, atHost, result>> /\ check # NoCheck
      BY <2>7 DEF CheckEnds, editorVars, commandVars
    <3> QED
      BY <2>2, <3>1 DEF HistoryInv, NothingElse
  <2>8. CASE Accept
    <3>1. PICK k \in DOMAIN cards, auto \in BOOLEAN : AcceptCard(k, auto)
      BY <2>8 DEF Accept
    <3>2. UNCHANGED <<resolving, check, group>>
      BY <2>8 DEF Accept, pendingVars
    <3>3. Undisturbed
      BY <3>1, SendUndisturbed DEF AcceptCard
    <3> QED
      BY <3>1, <3>2, <3>3, AcceptHistory DEF CurrentInv
  <2>9. CASE BatchStart \/ BatchVerified \/ BatchNext
    <3>1. \/ \E k \in DOMAIN cards : AcceptCard(k, FALSE)
          \/ UNCHANGED <<extras, applied, cmds, registry, atHost, result>>
      BY <2>9 DEF BatchStart, BatchVerified, BatchNext, editorVars, cardVars, commandVars
    <3>2. CASE \E k \in DOMAIN cards : AcceptCard(k, FALSE)
      <4>1. Undisturbed
        BY <3>2, SendUndisturbed DEF AcceptCard
      <4> QED
        BY <2>9, <4>1, BatchHistory DEF CurrentInv
    <3>3. CASE UNCHANGED <<extras, applied, cmds, registry, atHost, result>>
      BY <2>2, <2>9, <3>3, BatchHistory
    <3> QED
      BY <3>1, <3>2, <3>3
  <2>10. CASE GroupStart \/ GroupVerified
    <3>1. \/ Send(group)
          \/ UNCHANGED <<extras, applied, cmds, registry, atHost, result>>
      BY <2>10 DEF GroupStart, GroupVerified, editorVars, commandVars
    <3>2. CASE Send(group)
      <4>1. PICK cmd : cmd = group
        OBVIOUS
      <4>2. Send(cmd)
        BY <3>2, <4>1
      <4>3. Undisturbed
        BY <4>2, SendUndisturbed
      <4> QED
        BY <2>10, <4>3, GroupHistory DEF CurrentInv
    <3>3. CASE UNCHANGED <<extras, applied, cmds, registry, atHost, result>>
      BY <2>2, <2>10, <3>3, GroupHistory
    <3> QED
      BY <3>1, <3>2, <3>3
  <2>11. CASE \E c \in atHost : HostExecutes(c)
    <3>1. PICK c \in atHost : HostExecutes(c)
      BY <2>11
    <3>2. /\ UNCHANGED <<extras, applied, cmds, registry>>
          /\ atHost' = atHost \ {c} /\ \E r : result' = [result EXCEPT ![c] = r]
      BY <3>1 DEF HostExecutes, Answer, cardVars
    <3>3. \A d \in DOMAIN cmds : result'[d] # result[d] => d \in atHost
      BY <3>2
    <3>4. Undisturbed
      BY <3>2, <3>3, StillOnTrack
    <3>5. OnTrack'
      BY DEF Undisturbed
    <3> QED
      BY <3>1, <3>4, <3>5, HostHistory DEF CurrentInv
  <2>12. CASE \/ \E c \in rpc : RpcReturns(c) \/ RpcTimesOut(c)
              \/ \E c \in events : EventArrives(c)
    BY <2>12, AnswerHistory
  <2> QED
    BY <2>1, <2>3, <2>4, <2>5, <2>6, <2>7, <2>8, <2>9, <2>10, <2>11, <2>12 DEF Undisturbing
<1> QED
  BY <1>1, <1>2

LEMMA CurrentInit ==
    ASSUME Init
    PROVE  CurrentInv
<1>1. /\ check = NoCheck /\ reanalyse = {} /\ resolving = << >> /\ group = NoGroup
      /\ cards = << >> /\ cmds = << >> /\ applied = << >> /\ atHost = {}
      /\ result = [c \in Commands |-> NoResult]
  BY DEF Init
<1>2. DOMAIN << >> = {}
  OBVIOUS
<1>3. \A c \in Commands : ~Done(c)
  BY <1>1 DEF Done, NoResult, Result
<1> QED
  BY <1>1, <1>2, <1>3 DEF CurrentInv, HistoryInv, NothingElse, CardsAreOld, CommandsAreOld,
     SuccessesAreOld, LatestIsTrue, TakenAreDone, OffersAreCurrent

LEMMA OffersFollow ==
    ASSUME CardInv, CurrentInv
    PROVE  OfferedIsCurrent
<1> SUFFICES ASSUME AllTaken, NEW k \in DOMAIN cards, Acceptable(k),
                    cards[k].status = "pending", Named(k)
             PROVE  cards[k].text = doc /\ cards[k].hash = doc
  BY DEF OfferedIsCurrent
<1>1. Undisturbed /\ AllHeard
  BY DEF AllTaken, Undisturbed, OnTrack, TakenInOrder, AllHeard, Taken
<1>2. HistoryInv
  BY <1>1 DEF CurrentInv
<1>3. OldCard(cards[k], doc, editor) /\ ~cards[k].stale
  BY <1>2 DEF HistoryInv, CardsAreOld, Acceptable, Idle
<1>4. cards[k].hash = doc
  <2>1. CASE editor = "word" /\ cards[k].pid = doc
    BY <1>3, <2>1 DEF OldCard
  <2>2. CASE Addressed(cards[k].pid)
    BY <1>1, <1>2, <1>3, <2>2 DEF HistoryInv, OffersAreCurrent
  <2>3. ASSUME LastCommand > 0, cards[k].pid = cmds[LastCommand].pid
        PROVE  Addressed(cards[k].pid)
    <3>1. PICK last \in Nat : last = Len(cmds) /\ DOMAIN cmds = 1 .. last /\ last > 0
      BY <2>3 DEF LastCommand, CardInv, TypeInv, CommandType
    <3>2. last \in DOMAIN cmds /\ cards[k].pid = cmds[last].pid
      BY <2>3, <3>1 DEF LastCommand
    <3>3. Done(last)
      BY <1>2, <3>2 DEF AllTaken, HistoryInv, TakenAreDone
    <3>4. Latest(last)
      BY <3>1, <3>3 DEF Latest
    <3> QED
      BY <3>2, <3>4 DEF Addressed
  <2>4. CASE editor # "word"
    BY <2>2, <2>4 DEF Addressed
  <2> QED
    BY <2>1, <2>2, <2>3, <2>4 DEF Named, Found, Pid, ContentIds
<1> QED
  BY <1>3, <1>4 DEF OldCard

\* What the cards show is true: a spinner is waited for, a card's text has its
\* original, and after a past in which only the dashboard's own commands changed
\* the paragraph, and all of them succeeded in order, what is offered is the
\* paragraph as it is.
THEOREM CardsStayTrue == Spec => []CardsAreTrue
<1>1. Spec => []CurrentInv
  <2>1. Init => CurrentInv
    BY CurrentInit
  <2>2. CardInv /\ CurrentInv /\ [Next]_vars => CurrentInv'
    BY CurrentStep
  <2> QED
    BY <2>1, <2>2, CardsInductive, PTL DEF Spec
<1>2. CardInv /\ CurrentInv => OfferedIsCurrent
  BY OffersFollow
<1>3. CardInv => TypeOK /\ ApplyingIsAwaited /\ CardTextHasItsIssue
  BY TypesFollow DEF CardInv
<1>4. CardInv /\ CurrentInv => CardsAreTrue
  BY <1>2, <1>3 DEF CardsAreTrue
<1> QED
  BY <1>1, <1>4, CardsInductive, PTL
=============================================================================
