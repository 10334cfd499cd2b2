------------------------------- MODULE TmMatcher -------------------------------
(***************************************************************************)
(* The dashboard's translation memory search and what it derives for the   *)
(* paragraph shown: fuzzy search by edit distance behind an index of       *)
(* 3-grams, exact search, and which sentences may be replaced by their one *)
(* exact translation (src/src/utils/tmMatcher.ts,                          *)
(* src/src/utils/tmAutoApplyObservation.ts).  Scores are in per mille,     *)
(* thresholds in per cent; an entry has an id, a source and a target.      *)
(***************************************************************************)
EXTENDS DiffEngine

LOCAL INSTANCE TLC

CONSTANT PoolLimit           \* how many entries of the index are compared at most
ASSUME PoolLimitAssumption == PoolLimit \in Nat \ {0}

Small == [A |-> "a", B |-> "b", C |-> "c"]
Lower(c) == IF c \in DOMAIN Small THEN Small[c] ELSE c

Trim(t) ==
    LET words == {i \in DOMAIN t : ~Space(t[i])}
    IN  IF words = {} THEN <<>> ELSE SubSeq(t, Least(words), Greatest(words))

\* Lower case, runs of white space as one space, none at the ends.
NormalizeText(t) ==
    LET add(r, c) == IF ~Space(c) THEN Append(r, Lower(c))
                     ELSE IF r = <<>> \/ r[Len(r)] = " " THEN r ELSE Append(r, " ")
    IN  Trim(Q!FoldLeft(add, <<>>, t))

Size(a, b) == Greatest({Len(a), Len(b)})
TooFar == -1

\* One row of the edit distance table, from the row before it.
NextRow(row, short, c, j) ==
    Q!FoldLeft(LAMBDA r, i : Append(r, Least({row[i + 1] + 1, r[i] + 1,
                                              row[i] + (IF short[i] = c THEN 0 ELSE 1)})),
               <<j>>, [i \in DOMAIN short |-> i])

\* The edit distance, or TooFar as soon as a whole row is above the bound.
\* mutant: the search is given up when a row reaches the bound
ComputeLevenshteinWithCutoff_Early(s, t, most) ==
    LET short == IF Len(s) > Len(t) THEN t ELSE s
        long == IF Len(s) > Len(t) THEN s ELSE t
        step(r, j) == LET row == NextRow(r.row, short, long[j], j)
                      IN  IF r.over THEN r
                          ELSE [row |-> row, over |-> \A i \in DOMAIN row : row[i] >= most]
        last == Q!FoldLeft(step, [row |-> [i \in 1 .. Len(short) + 1 |-> i - 1], over |-> FALSE],
                           [j \in DOMAIN long |-> j])
        distance == last.row[Len(short) + 1]
    IN  IF Len(long) - Len(short) > most \/ last.over \/ distance > most THEN TooFar ELSE distance
ComputeLevenshteinWithCutoff(s, t, most) ==
    LET short == IF Len(s) > Len(t) THEN t ELSE s
        long == IF Len(s) > Len(t) THEN s ELSE t
        step(r, j) == LET row == NextRow(r.row, short, long[j], j)
                      IN  IF r.over THEN r
                          ELSE [row |-> row, over |-> \A i \in DOMAIN row : row[i] > most]
        last == Q!FoldLeft(step, [row |-> [i \in 1 .. Len(short) + 1 |-> i - 1], over |-> FALSE],
                           [j \in DOMAIN long |-> j])
        distance == last.row[Len(short) + 1]
    IN  IF Len(long) - Len(short) > most \/ last.over \/ distance > most THEN TooFar ELSE distance

ExtractNgrams(t) ==
    IF Len(t) < 3 THEN {t} \ {<<>>} ELSE {SubSeq(t, i, i + 2) : i \in 1 .. Len(t) - 2}

Candidate(e, score) ==
    [id |-> e.id, source |-> e.source, target |-> e.target, score |-> score, status |-> "idle"]

\* What loading entries makes of them: each with the source that is compared.
Loaded(entries) ==
    [n \in DOMAIN entries |-> [id |-> entries[n].id, source |-> entries[n].source,
                               target |-> entries[n].target, norm |-> NormalizeText(entries[n].source)]]
Exact(query, loaded) ==
    IF query = <<>> THEN <<>> ELSE SelectSeq(loaded, LAMBDA e : e.norm = query)

SamePair(a, b) == a.source = b.source /\ a.target = b.target
Deduplicated(cands) ==
    Q!FoldLeft(LAMBDA r, c : IF \E n \in DOMAIN r : SamePair(r[n], c) THEN r
                             ELSE Append(r, c), <<>>, cands)

Perfect(query, loaded) ==
    With(Exact(query, loaded), LAMBDA exact : [n \in DOMAIN exact |-> Candidate(exact[n], 1000)])
SearchExactAll(query, loaded) == Deduplicated(Perfect(NormalizeText(query), loaded))

\* An entry's score, or zero if it is below the threshold (minScore).
Score(query, e, minScore) ==
    LET most == Size(query, e.norm)
        score(distance) ==
            IF e.norm = <<>> \/ distance = TooFar THEN 0
            ELSE IF (most - distance) * 100 < minScore * most THEN 0
            ELSE (2000 * (most - distance) + most) \div (2 * most)
    IN  With(ComputeLevenshteinWithCutoff(query, e.norm, (most * (100 - minScore)) \div 100), score)

Before(a, b) ==
    \/ a[1] < b[1]
    \/ a[1] = b[1] /\ (a[2] < b[2] \/ (a[2] = b[2] /\ a[3] < b[3]))

\* The entries that are compared: for a query of four characters or more those
\* that share enough 3-grams with it, most hits first, then the
\* earlier first 3-gram, up to the pool's limit.
Pool(query, loaded, minScore) ==
    LET grams == ExtractNgrams(query)
        hits(n) == Cardinality(grams \intersect ExtractNgrams(loaded[n].norm))
        needed == Greatest({1, (Cardinality(grams) * minScore * 45) \div 10000})
        enough == {n \in DOMAIN loaded : hits(n) >= needed}
        shared(n) == {i \in 1 .. Len(query) - 2 : SubSeq(query, i, i + 2)
                                                   \in ExtractNgrams(loaded[n].norm)}
        rank(n) == <<-hits(n), Least(shared(n)), n>>
        order == SortSeq(Ascending(enough), LAMBDA m, n : Before(rank(m), rank(n)))
    IN  IF Len(query) < 4 THEN [n \in DOMAIN loaded |-> n]
        ELSE SubSeq(order, 1, Least({Len(order), PoolLimit}))

ByScore(cands) ==
    LET order == SortSeq([n \in DOMAIN cands |-> n], LAMBDA m, n :
                     cands[m].score > cands[n].score \/ (cands[m].score = cands[n].score /\ m < n))
    IN  [n \in DOMAIN cands |-> cands[order[n]]]

Fuzzy(query, loaded, minScore) ==
    LET others == SelectSeq(Pool(query, loaded, minScore), LAMBDA n : loaded[n].norm # query)
        candidates(pool) == [k \in DOMAIN pool |-> Candidate(loaded[pool[k]],
                                                             Score(query, loaded[pool[k]], minScore))]
    IN  SelectSeq(With(others, candidates), LAMBDA c : c.score > 0)

\* As many exact matches as there are cards are shown as they are.
Best(query, loaded, minScore, topN) ==
    LET First(cands) == SubSeq(cands, 1, Least({topN, Len(cands)}))
        best(perfect) ==
            IF Len(perfect) >= topN THEN First(perfect)
            ELSE With(Deduplicated(ByScore(perfect \o Fuzzy(query, loaded, minScore))), First)
    IN  IF query = <<>> THEN <<>> ELSE With(Perfect(query, loaded), best)

Search(text, loaded, minScore, topN) ==
    With(NormalizeText(text), LAMBDA query : Best(query, loaded, minScore, topN))

\* The keyword search looks for a substring and does not score.
Contains(t, needle) ==
    \E i \in 0 .. Len(t) - Len(needle) : \A k \in DOMAIN needle : Lower(t[i + k]) = Lower(needle[k])
SearchKeyword(query, scope, entries) ==
    LET needle == Trim(query)
        hit(e) == \/ scope # "target" /\ Contains(e.source, needle)
                  \/ scope # "source" /\ Contains(e.target, needle)
        found == SelectSeq(entries, hit)
    IN  IF needle = <<>> THEN <<>> ELSE [n \in DOMAIN found |-> Candidate(found[n], 1000)]

\* Whether an exact match came with the loaded file, from the user, or both.
Origin(source, cand, overlay) ==
    LET own == {n \in DOMAIN overlay : /\ NormalizeText(overlay[n].source) = NormalizeText(source)
                                       /\ NormalizeText(overlay[n].target) = NormalizeText(cand.target)}
    IN  IF own = {} THEN "imported"
        ELSE IF \E n \in own : overlay[n].id = cand.id THEN "user-overlay" ELSE "mixed"

\* A sentence with one exact translation may be replaced by it; with several
\* it is a conflict; with none it is not observed.
Observe(segment, loaded, overlay) ==
    LET useful(c) == /\ Trim(c.target) # <<>>
                     /\ NormalizeText(c.target) # NormalizeText(segment.text)
        observation(exact, one) ==
            [kind |-> IF one THEN "eligible" ELSE "conflict",
             segment |-> segment.index, start |-> segment.start, end |-> segment.end,
             old |-> segment.text,
             new |-> IF one THEN exact[1].target ELSE <<>>,
             source |-> IF one THEN exact[1].source ELSE <<>>,
             origin |-> IF one THEN Origin(segment.text, exact[1], overlay) ELSE "none"]
        observed(exact) ==
            IF exact = <<>> THEN <<>>
            ELSE <<observation(exact, Cardinality({Trim(exact[n].target) : n \in DOMAIN exact}) = 1)>>
    IN  With(SelectSeq(SearchExactAll(segment.text, loaded), useful), observed)

NoObservations == [para |-> "none", base |-> <<>>, observations |-> <<>>]

DeriveTmAutoApplyPlan(para, text, groups, loaded, overlay) ==
    LET whole == [index |-> 0, start |-> 0, end |-> Len(text), text |-> text]
        segments == IF groups = <<>> THEN <<whole>> ELSE groups
    IN  IF para = "none" \/ Trim(text) = <<>> THEN NoObservations
        ELSE [para |-> para, base |-> text,
              observations |-> Q!FlattenSeq([n \in DOMAIN segments |->
                                                Observe(segments[n], loaded, overlay)])]
================================================================================
