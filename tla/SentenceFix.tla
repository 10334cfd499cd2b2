------------------------------ MODULE SentenceFix ------------------------------
(***************************************************************************)
(* All the fixes of one sentence as one command.  A paragraph of text runs,*)
(* links and footnote anchors; the planner turns cards into hunks against  *)
(* its plain text, and the hunks are applied one after the other, the last *)
(* in the text first, to the plain text and to the rich paragraph.         *)
(* (src/src/utils/sentenceReplacement.ts, src/shared/engine/.)             *)
(***************************************************************************)
EXTENDS DiffEngine

\* A footnote stands in the plain text as its anchor.
Element(type, t) == [type |-> type, text |-> t]
GetPlainText(elements) == Q!FlattenSeq([n \in DOMAIN elements |-> elements[n].text])

CONSTANTS
    Characters,      \* what a text is made of
    Paragraphs,      \* the paragraphs to begin with, each a sequence of elements
    Inputs(_)        \* the groups of cards offered for a text: [segment, cards]

Text == Seq(Characters)

ASSUME ParagraphsAssumption == Paragraphs \subseteq Seq([type : STRING, text : Text])

\* Only a card whose original is not empty is given offsets
\* (populate_unambiguous_offset).
ASSUME InputsAssumption ==
    \A elements \in Paragraphs : \A input \in Inputs(GetPlainText(elements)) :
        /\ input.cards \in Seq([old : Text, new : Text, start : Int, end : Int])
        /\ \A n \in DOMAIN input.cards :
            input.cards[n].old = <<>> => /\ input.cards[n].start = Unplaced
                                        /\ input.cards[n].end = Unplaced

VARIABLES
    rich,            \* the paragraph's elements
    text,            \* the plain text the hunks are applied to
    base,            \* the paragraph the command was planned against
    group,           \* the cards of the command
    plan,            \* what the planner returned
    todo,            \* the hunks still to be applied, in their order
    count            \* hunks that did not fit, and rich ones that failed or were skipped

vars == <<rich, text, base, group, plan, todo, count>>

ElementOffsets(elements) ==
    [n \in DOMAIN elements |->
        LET start == Len(GetPlainText(SubSeq(elements, 1, n - 1)))
        IN  [start |-> start, end |-> start + Len(elements[n].text)]]

\* The element a hunk starts in takes the whole of it: a footnote keeps its
\* anchor and the hunk is passed over, another element whose own text differs
\* counts as drift, and a hunk at the very end finds no element.
\* mutant: a footnote's anchor is replaced like any text
ApplyToElements_FootnoteToo(elements, h) ==
    LET at == ElementOffsets(elements)
        hit == {n \in DOMAIN elements : at[n].start <= h.start /\ h.start < at[n].end}
        n == Least(hit)
        own == [h EXCEPT !.start = @ - at[n].start, !.end = @ - at[n].start]
    IN  IF hit = {} \/ own.end > Len(elements[n].text)
        THEN [elements |-> elements, outcome |-> "drift"]
        ELSE [elements |-> [elements EXCEPT ![n].text = Spliced(@, own.start, own.end, own.new)],
              outcome |-> "applied"]
ApplyToElements(elements, h) ==
    LET at == ElementOffsets(elements)
        hit == {n \in DOMAIN elements : at[n].start <= h.start /\ h.start < at[n].end}
        n == Least(hit)
        own == [h EXCEPT !.start = @ - at[n].start, !.end = @ - at[n].start]
        fits == own.end <= Len(elements[n].text) /\ Fits(elements[n].text, own)
    IN  IF hit = {} THEN [elements |-> elements, outcome |-> "drift"]
        ELSE IF elements[n].type = "footnote" THEN [elements |-> elements, outcome |-> "skipped"]
        ELSE IF ~fits THEN [elements |-> elements, outcome |-> "drift"]
        ELSE [elements |-> [elements EXCEPT ![n].text = Spliced(@, own.start, own.end, own.new)],
              outcome |-> "applied"]

NoGroup == [segment |-> 0, cards |-> <<>>]

Init ==
    /\ rich \in Paragraphs
    /\ text = GetPlainText(rich)
    /\ base = rich
    /\ group = NoGroup
    /\ plan = NoPlan
    /\ todo = <<>>
    /\ count = [drift |-> 0, rich |-> 0, skipped |-> 0]

Plan ==
    /\ group = NoGroup
    /\ \E input \in Inputs(text) :
        LET p == PlanSentenceGroupReplacement(text, input.segment, input.cards)
        IN  group' = input /\ plan' = p /\ todo' = p.hunks
    /\ UNCHANGED <<rich, text, base, count>>

ApplyNext ==
    /\ todo # <<>>
    /\ LET r == ApplyHunk([text |-> text, drift |-> count.drift], Head(todo))
           e == ApplyToElements(rich, Head(todo))
       IN  /\ text' = r.text
           /\ rich' = e.elements
           /\ count' = [drift |-> r.drift,
                        rich |-> count.rich + (IF e.outcome = "drift" THEN 1 ELSE 0),
                        skipped |-> count.skipped + (IF e.outcome = "skipped" THEN 1 ELSE 0)]
    /\ todo' = Tail(todo)
    /\ UNCHANGED <<base, group, plan>>

Next == Plan \/ ApplyNext

Spec == Init /\ [][Next]_vars
--------------------------------------------------------------------------------
Original == GetPlainText(base)
Sentence == SplitIntoSentences(Original)[group.segment]
Done == plan.ok /\ todo = <<>>

\* Every way to place the cards in the sentence: each at its offsets, or
\* wherever its text occurs.
Placements ==
    {f \in [DOMAIN group.cards -> Sentence.start .. Sentence.end] :
        \A n \in DOMAIN group.cards :
            LET c == group.cards[n]
            IN  /\ f[n] + Len(c.old) <= Sentence.end
                /\ Slice(Original, f[n], f[n] + Len(c.old)) = c.old
                /\ c.start # Unplaced \/ c.end # Unplaced =>
                       f[n] = c.start /\ f[n] + Len(c.old) = c.end}

\* The paragraph written out character by character, each card's new text
\* where its old one began and its old characters left out.
Written(f) ==
    LET begins(i) == {n \in DOMAIN group.cards : f[n] = i}
        covered(i) == \E n \in DOMAIN group.cards : f[n] <= i /\ i < f[n] + Len(group.cards[n].old)
    IN  Q!FlattenSeq([j \in 1 .. Len(Original) |->
            (IF begins(j - 1) = {} THEN <<>> ELSE group.cards[Least(begins(j - 1))].new)
            \o (IF covered(j - 1) THEN <<>> ELSE <<Original[j]>>)])

\* Applying the later hunks never moves an earlier one: at every turn of the
\* loop each hunk still to come finds its old text at its place, so none is
\* skipped as drift (replaceReverse, sortHunksReverse).
NoDrift == count.drift = 0 /\ \A n \in DOMAIN todo : Fits(text, todo[n])

Apart(f, gap) ==
    \A m, n \in DOMAIN group.cards :
        m # n => \/ f[m] + Len(group.cards[m].old) + gap <= f[n]
                 \/ f[n] + Len(group.cards[n].old) + gap <= f[m]

\* A command that was planned delivers exactly the fixes of its cards: the
\* text is the paragraph with each card's text put for its original, inside
\* the sentence, and everything else untouched; and cards that have one place
\* each are refused only if two overlap or touch: both may then insert at the
\* place where they touch, in the wrong order (planSentenceGroupReplacement).
EveryFixOnce ==
    /\ Done => \E f \in Placements : Apart(f, 0) /\ text = Written(f)
    /\ group.segment \in DOMAIN SplitIntoSentences(Original) /\ ~plan.ok =>
            ~\E f \in Placements : Placements = {f} /\ Apart(f, 1)

\* Every hunk hits its text, and together they make each fix once.
FixesAreExact == NoDrift /\ EveryFixOnce

\* The diff touches as few words as any edit script could: what it deletes
\* and inserts is what a longest common subsequence leaves over
\* (diffTokenSequences).
CommonWords(A, B) ==
    LET longest[p \in (0 .. Len(A)) \X (0 .. Len(B))] ==
            IF p[1] = 0 \/ p[2] = 0 THEN 0
            ELSE IF A[p[1]].text = B[p[2]].text THEN longest[<<p[1] - 1, p[2] - 1>>] + 1
            ELSE Greatest({longest[<<p[1] - 1, p[2]>>], longest[<<p[1], p[2] - 1>>]})
    IN  longest[<<Len(A), Len(B)>>]

FewestWords ==
    todo = plan.hunks => \A n \in DOMAIN group.cards :
        LET A == Tokenize(group.cards[n].old)
            B == Tokenize(group.cards[n].new)
            edits(script) == Cardinality({i \in DOMAIN script : script[i].op # "EQUAL"})
        IN  With(DiffTokenSequences(A, B), edits) = Len(A) + Len(B) - 2 * CommonWords(A, B)

\* Where no hunk was passed over at a footnote or refused by an element, the
\* rich paragraph reads as the plain text does, and the footnotes are all
\* still there whatever was applied (applyHunks).
RichFollowsPlain ==
    /\ count.skipped = 0 /\ count.rich = 0 => GetPlainText(rich) = text
    /\ \A n \in DOMAIN base : base[n].type = "footnote" => rich[n] = base[n]
================================================================================
