------------------------------ MODULE DiffEngine ------------------------------
(***************************************************************************)
(* The pure text functions of the dashboard: the token diff that turns two *)
(* texts into hunks, the validation and application of hunks, the sentence *)
(* splitter, and the planners that turn cards or translation memory        *)
(* matches into one command (src/shared/engine/diff_engine.ts and          *)
(* src/src/utils).  A text is a sequence of characters; offsets count from *)
(* zero and an end is exclusive, as in the code.                           *)
(***************************************************************************)
EXTENDS Integers, Sequences, FiniteSets

Q == INSTANCE SequencesExt

\* An operator applied to a value that is computed once.
With(x, f(_)) ==
    LET once == [v \in {x} |-> f(v)]
    IN  once[CHOOSE v \in DOMAIN once : TRUE]

Space(c) == c \in {" ", "\n"}
Slice(t, from, to) == SubSeq(t, from + 1, to)
Spliced(t, from, to, new) == Slice(t, 0, from) \o new \o Slice(t, to, Len(t))
Least(S) == CHOOSE x \in S : \A y \in S : x <= y
Greatest(S) == CHOOSE x \in S : \A y \in S : x >= y
Ascending(S) ==
    [n \in 1 .. Cardinality(S) |-> CHOOSE x \in S : Cardinality({y \in S : y < x}) = n - 1]

\* A token is a word with the white space after it; white space at the very
\* start is a token of its own.
Tokenize(t) ==
    LET cut == Ascending({i \in 0 .. Len(t) - 1 :
                             i = 0 \/ (Space(t[i]) /\ ~Space(t[i + 1]))})
        end(n) == IF n < Len(cut) THEN cut[n + 1] ELSE Len(t)
    IN  [n \in 1 .. Len(cut) |->
            [start |-> cut[n], end |-> end(n), text |-> Slice(t, cut[n], end(n))]]

Hunk(start, end, old, new) == [start |-> start, end |-> end, old |-> old, new |-> new]

\* The furthest point of one diagonal of Myers' search: one step from a
\* neighbouring diagonal, then along the tokens that agree.
Reach(v, k) == IF k \in DOMAIN v THEN v[k] ELSE -1
ComesDown(v, d, k) == k = -d \/ (k # d /\ Reach(v, k - 1) < Reach(v, k + 1))
From(v, k) == IF Reach(v, k) = -1 THEN 0 ELSE Reach(v, k)

\* mutant: a run of equal tokens is followed for one token only
Furthest_OneStep(A, B, v, d, k) ==
    LET x == IF ComesDown(v, d, k) THEN From(v, k + 1) ELSE From(v, k - 1) + 1
        y == x - k
    IN  IF x < Len(A) /\ y < Len(B) THEN IF A[x + 1].text = B[y + 1].text THEN x + 1 ELSE x ELSE x
Furthest(A, B, v, d, k) ==
    LET x == IF ComesDown(v, d, k) THEN From(v, k + 1) ELSE From(v, k - 1) + 1
        y == x - k
        agree(n) == \A i \in 1 .. n : /\ x + i <= Len(A) /\ y + i <= Len(B)
                                      /\ A[x + i].text = B[y + i].text
    IN  x + Greatest({n \in 0 .. Len(A) : agree(n)})

\* The rounds of the search, each with one more edit, until one reaches both
\* ends: what every diagonal had reached before each of them and at the end.
Diagonals(d) == {k \in -d .. d : (k + d) % 2 = 0}
Ends(A, B, v) == {k \in DOMAIN v : v[k] >= Len(A) /\ v[k] - k >= Len(B)}
Round(A, B, v, d) ==
    [k \in DOMAIN v \union Diagonals(d) |->
        IF k \in Diagonals(d) THEN Furthest(A, B, v, d, k) ELSE v[k]]
Searched(A, B, vs, d) ==
    IF d > 0 /\ Ends(A, B, vs[Len(vs)]) # {} THEN vs ELSE Append(vs, Round(A, B, vs[Len(vs)], d))
Rounds(A, B) ==
    LET upTo[n \in 0 .. Len(A) + Len(B) + 1] ==
            IF n = 0 THEN <<[k \in {1} |-> 0]>>
            ELSE With(upTo[n - 1], LAMBDA vs : Searched(A, B, vs, n - 1))
    IN  upTo[Len(A) + Len(B) + 1]

\* The way back through the rounds gives the edit script: from the point a
\* round ended at, over the tokens that agree and its one edit, to the point
\* it started from.
Equals(x, y, count) == [i \in 1 .. count |-> [op |-> "EQUAL", a |-> x + i, b |-> y + i]]
StepBack(v, d, at) ==
    LET down == ComesDown(v, d, at.k)
        k == IF down THEN at.k + 1 ELSE at.k - 1
        x == From(v, k)
        y == x - k
        stepX == IF down THEN x ELSE x + 1
        stepY == IF down THEN y + 1 ELSE y
        edit == IF down THEN [op |-> "INSERT", a |-> x, b |-> y + 1]
                        ELSE [op |-> "DELETE", a |-> x + 1, b |-> y]
        run == Least({at.x - stepX, at.y - stepY})
    IN  [x |-> x, y |-> y, k |-> k, ops |-> <<edit>> \o Equals(stepX, stepY, run) \o at.ops]
EditScript(A, B, rounds) ==
    LET last == Len(rounds) - 2
        end == [x |-> Len(A), y |-> Len(B), k |-> Least(Ends(A, B, rounds[last + 2])), ops |-> <<>>]
        upTo[n \in 0 .. last] ==
            IF n = 0 THEN end
            ELSE With(upTo[n - 1], LAMBDA at : StepBack(rounds[last + 2 - n], last + 1 - n, at))
    IN  With(upTo[last], LAMBDA at : Equals(0, 0, Least({at.x, at.y})) \o at.ops)

DiffTokenSequences(A, B) == With(Rounds(A, B), LAMBDA rounds : EditScript(A, B, rounds))

\* A run of edits becomes one hunk; an insertion is anchored at the token
\* that follows it, or at the end of the text.
PushHunk(h) == [done |-> h.done \o h.open, open |-> <<>>, cursor |-> h.cursor]
TakeOp(A, B, length, h, o) ==
    LET anchor == IF h.cursor < Len(A) THEN A[h.cursor + 1].start ELSE length
    IN  IF o.op = "EQUAL" THEN [PushHunk(h) EXCEPT !.cursor = o.a]
        ELSE IF o.op = "DELETE"
        THEN LET t == A[o.a]
                 cur == IF h.open = <<>> THEN Hunk(t.start, t.end, <<>>, <<>>) ELSE h.open[1]
             IN  [h EXCEPT !.cursor = o.a, !.open =
                    <<Hunk(IF cur.old = <<>> THEN t.start ELSE cur.start, t.end,
                           cur.old \o t.text, cur.new)>>]
        ELSE LET cur == IF h.open = <<>> THEN Hunk(anchor, anchor, <<>>, <<>>) ELSE h.open[1]
             IN  [h EXCEPT !.open = <<[cur EXCEPT !.new = @ \o B[o.b].text]>>]
BuildHunks(ops, A, B, length) ==
    LET upTo[n \in 0 .. Len(ops)] ==
            IF n = 0 THEN [done |-> <<>>, open |-> <<>>, cursor |-> 0]
            ELSE With(upTo[n - 1], LAMBDA h : TakeOp(A, B, length, h, ops[n]))
    IN  PushHunk(upTo[Len(ops)]).done

\* White space that both sides of a hunk share at their ends is left alone;
\* a hunk of which nothing is left is dropped.
TrimHunkWhitespace(h) ==
    LET shared(a, b) == Greatest({n \in 0 .. Least({Len(a), Len(b)}) :
                            \A i \in 1 .. n : Space(a[i]) /\ a[i] = b[i]})
        lead == shared(h.old, h.new)
        old == Slice(h.old, lead, Len(h.old))
        new == Slice(h.new, lead, Len(h.new))
        tail == shared(Q!Reverse(old), Q!Reverse(new))
    IN  Hunk(h.start + lead, h.end - tail,
             Slice(old, 0, Len(old) - tail), Slice(new, 0, Len(new) - tail))

ExtractDiffHunks(original, suggested) ==
    IF original = suggested THEN <<>>
    ELSE IF original = <<>> \/ suggested = <<>>
    THEN <<Hunk(0, Len(original), original, suggested)>>
    ELSE With(<<Tokenize(original), Tokenize(suggested)>>, LAMBDA both :
            With(BuildHunks(DiffTokenSequences(both[1], both[2]), both[1], both[2], Len(original)),
                 LAMBDA raw : Q!FlattenSeq([n \in DOMAIN raw |->
                     LET h == TrimHunkWhitespace(raw[n])
                     IN  IF h.old = <<>> /\ h.new = <<>> THEN <<>> ELSE <<h>>])))

\* Both sorts are stable: a hunk comes after those that are before it, and
\* after those listed earlier that are neither before nor behind it.
Sorted(hunks, before) ==
    LET place == [j \in DOMAIN hunks |-> Cardinality(
            {i \in DOMAIN hunks : i \in before[j] \/ (j \notin before[i] /\ i < j)}) + 1]
    IN  [n \in DOMAIN hunks |-> hunks[CHOOSE j \in DOMAIN hunks : place[j] = n]]
Ahead(g, h) == g.start < h.start \/ (g.start = h.start /\ g.end < h.end)
SortHunksForward(hunks) ==
    Sorted(hunks, [j \in DOMAIN hunks |-> {i \in DOMAIN hunks : Ahead(hunks[i], hunks[j])}])
SortHunksReverse(hunks) ==
    Sorted(hunks, [j \in DOMAIN hunks |-> {i \in DOMAIN hunks : Ahead(hunks[j], hunks[i])}])

InBounds(t, h) == 0 <= h.start /\ h.start <= h.end /\ h.end <= Len(t)
Fits(t, h) == InBounds(t, h) /\ Slice(t, h.start, h.end) = h.old
Disjoint(hunks) ==
    LET s == SortHunksForward(hunks)
    IN  \A n \in 1 .. Len(s) - 1 : s[n].end <= s[n + 1].start

ValidateHunks(t, hunks) == (\A n \in DOMAIN hunks : Fits(t, hunks[n])) /\ Disjoint(hunks)

\* One turn of the loop that applies hunks: one that does not fit the text
\* of that moment is counted as drift and skipped.
ApplyHunk(r, h) ==
    IF Fits(r.text, h) THEN [r EXCEPT !.text = Spliced(@, h.start, h.end, h.new)]
                       ELSE [r EXCEPT !.drift = @ + 1]

Replaced(t, hunks) ==
    LET upTo[n \in 0 .. Len(hunks)] ==
            IF n = 0 THEN [text |-> t, drift |-> 0]
            ELSE With(upTo[n - 1], LAMBDA r : ApplyHunk(r, hunks[n]))
    IN  upTo[Len(hunks)]
ReplaceReverse(t, hunks) == Replaced(t, SortHunksReverse(hunks))
ReplaceForward(t, hunks) == Replaced(t, SortHunksForward(hunks))

\* Sentences end at a line break, or after a full stop that white space or
\* the end of the text follows; their outer white space is not theirs.
SplitIntoSentences(t) ==
    LET soft(i) == t[i + 1] = "." /\ (i + 1 = Len(t) \/ Space(t[i + 2]))
        breaks == {i \in 0 .. Len(t) - 1 : t[i + 1] = "\n" \/ soft(i)}
        end(from) == LET next == {i \in breaks : i >= from}
                     IN  IF next = {} THEN Len(t)
                         ELSE IF t[Least(next) + 1] = "\n" THEN Least(next) ELSE Least(next) + 1
        words(from) == {i \in from .. end(from) - 1 : ~Space(t[i + 1])}
        begin == Ascending({i \in {0} \union {b + 1 : b \in breaks} : words(i) # {}})
        span(from) == [start |-> Least(words(from)), end |-> Greatest(words(from)) + 1]
    IN  [n \in 1 .. Len(begin) |-> span(begin[n])]

NoPlan == [ok |-> FALSE, hunks |-> <<>>, expected |-> <<>>]

Lifted(hunks, by) ==
    [n \in DOMAIN hunks |-> [hunks[n] EXCEPT !.start = @ + by, !.end = @ + by]]

\* The hunks of ranges that replace `old' by `new', found inside each range
\* and lifted to the paragraph; the command is sent only if they do exactly
\* what replacing the ranges does.
\* mutant: overlapping ranges are not refused and the result is not previewed
PlanRanges_Unchecked(t, ranges) ==
    LET lifted(r) == Lifted(ExtractDiffHunks(r.old, r.new), r.start)
        sorted == SortHunksForward(ranges)
    IN  [ok |-> TRUE, expected |-> ReplaceReverse(t, sorted).text,
         hunks |-> SortHunksReverse(Q!FlattenSeq([n \in DOMAIN ranges |-> lifted(sorted[n])]))]
PlanRanges(t, ranges) ==
    LET lifted(r) == Lifted(ExtractDiffHunks(r.old, r.new), r.start)
        sorted == SortHunksForward(ranges)
        hunks == SortHunksReverse(Q!FlattenSeq([n \in DOMAIN ranges |-> lifted(sorted[n])]))
        expected == ReplaceReverse(t, sorted).text
        preview == ReplaceReverse(t, hunks)
    IN  IF /\ \A n \in 1 .. Len(sorted) - 1 : sorted[n].end <= sorted[n + 1].start
           /\ ValidateHunks(t, hunks)
           /\ preview.drift = 0
           /\ preview.text = expected
        THEN [ok |-> TRUE, hunks |-> hunks, expected |-> expected]
        ELSE NoPlan

\* Where a card's text stands: at its offsets if it has them, else at the one
\* place found by a search that steps over each find.
Unplaced == -1
CardPlaces(t, sentence, card) ==
    LET length == Len(card.old)
        finds == {i \in sentence.start .. sentence.end - length : Slice(t, i, i + length) = card.old}
        step == IF length = 0 THEN 1 ELSE length
    IN  IF card.start # Unplaced \/ card.end # Unplaced
        THEN IF /\ card.start # Unplaced /\ card.end # Unplaced
                /\ sentence.start <= card.start /\ card.start <= card.end
                /\ card.end <= sentence.end
                /\ Slice(t, card.start, card.end) = card.old
             THEN {card.start} ELSE {}
        ELSE IF finds # {} /\ ~\E i \in finds : i >= Least(finds) + step
             THEN {Least(finds)} ELSE {}

PlanSentenceGroupReplacement(t, segment, cards) ==
    LET sentence == SplitIntoSentences(t)[segment]
        places(n) == CardPlaces(t, sentence, cards[n])
    IN  IF segment \notin DOMAIN SplitIntoSentences(t) \/ \E n \in DOMAIN cards : places(n) = {}
        THEN NoPlan
        ELSE PlanRanges(t, [n \in DOMAIN cards |->
                LET at == Least(places(n))
                IN  Hunk(at, at + Len(cards[n].old), cards[n].old, cards[n].new)])

\* All the exact matches of a paragraph in one command; each must still be
\* where it was observed.
PlanTmAutoApplyReplacement(t, items) ==
    IF \E n \in DOMAIN items : ~Fits(t, items[n]) THEN NoPlan ELSE PlanRanges(t, items)

Checked(t, hunks, expected) ==
    LET preview == ReplaceReverse(t, hunks)
    IN  IF ValidateHunks(t, hunks) /\ preview.drift = 0 /\ preview.text = expected
        THEN [ok |-> TRUE, hunks |-> hunks, expected |-> expected]
        ELSE NoPlan

\* Undoing a batch diffs the whole checkpoint against the text before it.
PlanBatchRevert(current, before) ==
    Checked(current, SortHunksReverse(ExtractDiffHunks(current, before)), before)

\* Undoing one item: its place in the applied text is its old place moved by
\* what the items to its left that are still applied changed in length.
PostStart(left, item) ==
    item.start + Q!FoldLeft(LAMBDA sum, i : sum + Len(i.new) - Len(i.old), 0, left)

\* mutant: the translation is undone at the first place where it stands
PlanItemRevert_First(live, left, item) ==
    LET finds == {i \in 0 .. Len(live) - Len(item.new) : Slice(live, i, i + Len(item.new)) = item.new}
        at == Least(finds)
        hunks == Lifted(ExtractDiffHunks(item.new, item.old), at)
    IN  IF finds = {} THEN NoPlan
        ELSE Checked(live, SortHunksReverse(hunks), Spliced(live, at, at + Len(item.new), item.old))
PlanItemRevert(live, left, item) ==
    LET at == PostStart(left, item)
        to == at + Len(item.new)
        hunks == Lifted(ExtractDiffHunks(item.new, item.old), at)
    IN  IF at < 0 \/ to > Len(live) \/ Slice(live, at, to) # item.new THEN NoPlan
        ELSE Checked(live, SortHunksReverse(hunks), Spliced(live, at, to, item.old))
===============================================================================
