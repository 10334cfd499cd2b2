--------------------------- MODULE TranslationMemory ---------------------------
(***************************************************************************)
(* The translation memory in the dashboard: the panel's search, the cards  *)
(* that replace a paragraph or a sentence by a translation, the batch that *)
(* replaces every sentence with one exact translation in one command, its  *)
(* history with the undoing of a whole batch and of one sentence, and      *)
(* saving a translation (src/src/stores/tmStore.ts,                        *)
(* tmAutoApplyHistoryStore.ts, src/src/components/tm).  A hash stands for  *)
(* the text it is of.  The editor checks a command's base text against its *)
(* paragraph and then does all of it or nothing; WordReplacement and       *)
(* InDesign model how.                                                     *)
(***************************************************************************)
EXTENDS TmMatcher

LOCAL INSTANCE TLC

CONSTANTS
    Paras,               \* the document's paragraphs
    Original,            \* the text of each at the start
    Imported,            \* the entries of the translation memory loaded first
    Files,               \* the ones that may be loaded later
    Queries, Keywords,   \* what the user may look up
    MinScores, TopN,     \* the thresholds offered, in per cent; the cards shown
    Edits(_),            \* the texts a paragraph may become by the user's typing
    OwnTargets,          \* translations the user may write on a card
    MaxLooks,            \* paragraphs shown, look-ups, thresholds, files, entries saved
    MaxCalls,            \* commands asked of the editor
    MaxCards,            \* those among them that apply a card
    MaxFailures,         \* calls that time out or fail in the editor
    MaxEdits

VARIABLES
    doc,                 \* the text of each paragraph in the editor
    shown,               \* [para, text]: the paragraph the dashboard was told of last
    entries,             \* [file, overlay]: loaded entries and the user's own
    matcher,             \* the entries the matcher was loaded with
    panel,               \* [mode, query, minScore, cands, groups]
    observed,            \* the plan derived when the panel was last drawn
    applyingBatch,       \* isApplyingBatch
    batches,             \* the history, oldest first
    calls,               \* every call made: what it asks and how far it is
    spent                \* [looks, cards, failures, edits]: the bounds' counters

vars == <<doc, shown, entries, matcher, panel, observed, applyingBatch, batches, calls, spent>>

All(e) == e.file \o e.overlay
Spend(what, most) == spent[what] < most /\ spent' = [spent EXCEPT ![what] = @ + 1]
--------------------------------------------------------------------------------
(* Searching                                                               *)

GroupsOf(text, loaded, minScore) ==
    LET group(n, span) == With(Slice(text, span.start, span.end), LAMBDA sentence :
            [index |-> n - 1, start |-> span.start, end |-> span.end, text |-> sentence,
             cands |-> Search(sentence, loaded, minScore, TopN)])
    IN  With(SplitIntoSentences(text), LAMBDA spans : [n \in DOMAIN spans |-> group(n, spans[n])])

\* A search reloads the matcher and fills the panel: by sentence for a
\* paragraph of two or more that is searched on its own, else as a whole.
SearchPanel(view, text, automatic) ==
    LET filled(loaded) ==
          With(IF automatic THEN GroupsOf(text, loaded, view.minScore) ELSE <<>>, LAMBDA groups :
            IF Len(groups) >= 2
            THEN [view EXCEPT !.query = text, !.groups = groups, !.cands = <<>>]
            ELSE [view EXCEPT !.query = text, !.groups = <<>>,
                              !.cands = Search(text, loaded, view.minScore, TopN)])
    IN  IF Trim(text) = <<>>
        THEN /\ panel' = [view EXCEPT !.cands = <<>>, !.groups = <<>>]
             /\ UNCHANGED matcher
        ELSE /\ matcher' = All(entries')
             /\ panel' = With(Loaded(All(entries')), filled)

\* The plan is derived when the paragraph, the list of sentences or the user's
\* own entries are set, from what the matcher holds then.
Redraw ==
    observed' = DeriveTmAutoApplyPlan(shown'.para, shown'.text, panel'.groups, Loaded(matcher'), entries'.overlay)

Kept == UNCHANGED <<doc, applyingBatch, batches, calls>>

Arrive(p) ==
    /\ Spend("looks", MaxLooks)
    /\ UNCHANGED entries
    /\ shown' = [para |-> p, text |-> doc[p]]
    /\ SearchPanel([panel EXCEPT !.mode = "fuzzy", !.query = doc[p]], doc[p], TRUE)
    /\ Redraw /\ Kept

\* The search field, or its being cleared: never by sentence.
LookUp(text) ==
    /\ text # <<>>
    /\ Spend("looks", MaxLooks)
    /\ UNCHANGED <<entries, shown>>
    /\ SearchPanel([panel EXCEPT !.mode = "fuzzy"], text, FALSE)
    /\ Redraw /\ Kept

LookUpKeyword(word, scope) ==
    /\ Spend("looks", MaxLooks)
    /\ panel' = [panel EXCEPT !.mode = "keyword", !.query = word, !.groups = <<>>,
                              !.cands = SearchKeyword(word, scope, All(entries))]
    /\ UNCHANGED <<entries, shown, matcher>>
    /\ Redraw /\ Kept

\* The filter buttons, or in an empty list the offer to be less strict.
SetMinScore(score) ==
    LET text == IF panel.query # <<>> THEN panel.query ELSE shown.text
        view == [panel EXCEPT !.minScore = score]
        empty == panel.cands = <<>> /\ panel.groups = <<>>
    IN  /\ panel.mode = "fuzzy" \/ (empty /\ score = 75 /\ panel.minScore > 75)
        /\ Spend("looks", MaxLooks)
        /\ UNCHANGED <<entries, shown>>
        /\ IF text = <<>> THEN panel' = view /\ UNCHANGED matcher
                          ELSE SearchPanel(view, text, panel.groups # <<>>)
        /\ Redraw /\ Kept

\* Loading a file tells the matcher only where the event of it is raised; it
\* is in the browser and not in the desktop application.
LoadTm(file, raised) ==
    /\ Spend("looks", MaxLooks)
    /\ entries' = [entries EXCEPT !.file = file]
    /\ UNCHANGED shown
    /\ \/ ~raised /\ UNCHANGED <<matcher, panel, observed>>
       \/ /\ raised
          /\ IF file = <<>>
             THEN matcher' = <<>> /\ panel' = [panel EXCEPT !.cands = <<>>, !.groups = <<>>]
             ELSE IF shown.text # <<>> THEN SearchPanel(panel, shown.text, TRUE)
             ELSE matcher' = All(entries') /\ UNCHANGED panel
          /\ Redraw
    /\ Kept

ClearTm ==
    /\ entries.file # <<>>
    /\ Spend("looks", MaxLooks)
    /\ entries' = [entries EXCEPT !.file = <<>>]
    /\ UNCHANGED <<shown, matcher, panel, observed>>
    /\ Kept
--------------------------------------------------------------------------------
(* Saving a translation                                                    *)

\* With force a second translation of a source is added beside the first.
AddUserTmEntry(e, source, target, force) ==
    LET s == Trim(source)
        t == Trim(target)
        same == SelectSeq(All(e), LAMBDA x : NormalizeText(x.source) = NormalizeText(s))
        new == [id |-> <<"user", Len(e.overlay) + 1>>, source |-> s, target |-> t]
    IN  IF s = <<>> \/ t = <<>> \/ (\E n \in DOMAIN same : same[n].target = t)
              \/ (same # <<>> /\ ~force)
        THEN e ELSE [e EXCEPT !.overlay = Append(@, new)]

FindUserTmConflict(source, target) ==
    LET same == SelectSeq(All(entries), LAMBDA x : NormalizeText(x.source) = NormalizeText(source))
    IN  same # <<>> /\ same[1].target # target

\* The paragraph shown is saved with the card's text as its translation, by
\* sentence if both have the same number, two or more; the user confirms.
SaveToTm(target) ==
    LET ours == SplitIntoSentences(shown.text)
        theirs == SplitIntoSentences(target)
        source(n) == Slice(shown.text, ours[n].start, ours[n].end)
        words(n) == Slice(target, theirs[n].start, theirs[n].end)
        add(e, n) == AddUserTmEntry(e, source(n), words(n), FindUserTmConflict(source(n), words(n)))
    IN  /\ entries.file # <<>>
        /\ panel.mode = "fuzzy"
        /\ Trim(shown.text) # <<>> /\ Trim(panel.query) = Trim(shown.text)
        /\ Spend("looks", MaxLooks)
        /\ entries' = IF Len(ours) >= 2 /\ Len(ours) = Len(theirs)
                      THEN Q!FoldLeft(add, entries, [n \in DOMAIN ours |-> n])
                      ELSE AddUserTmEntry(entries, shown.text, target,
                                          FindUserTmConflict(shown.text, target))
        /\ UNCHANGED <<shown, matcher, panel>>
        /\ Redraw /\ Kept
--------------------------------------------------------------------------------
(* Commands                                                                *)

Whole == [start |-> 0, end |-> 0]
NoCall == [kind |-> "none", para |-> "none", base |-> <<>>, plan |-> NoPlan, items |-> <<>>,
           range |-> Whole, batch |-> 0, phase |-> "over", result |-> "none"]

Call(call) == Len(calls) < MaxCalls /\ calls' = Append(calls, call)
Step(n, call) == calls' = [calls EXCEPT ![n] = call]

\* A card is known by its source and target, and by its sentence's offsets.
Marked(view, card, range, status) ==
    LET mark(cands) == [n \in DOMAIN cands |->
            IF SamePair(cands[n], card) THEN [cands[n] EXCEPT !.status = status] ELSE cands[n]]
        here(g) == range # Whole /\ g.start = range.start /\ g.end = range.end
    IN  [view EXCEPT !.cands = mark(@),
            !.groups = [n \in DOMAIN @ |-> IF here(@[n]) THEN [@[n] EXCEPT !.cands = mark(@)] ELSE @[n]]]

\* Without a range the card's text replaces the whole paragraph shown; without
\* a paragraph, one that the editor does not have.
ApplyMatch(card, range, target) ==
    LET text == IF shown.para = "none" THEN card.source ELSE shown.text
        expected == IF range = Whole THEN target ELSE Spliced(text, range.start, range.end, target)
    IN  /\ entries.file # <<>>
        /\ ~applyingBatch
        /\ card.status \notin {"applying", "applied"}
        /\ Trim(target) # <<>>
        /\ Spend("cards", MaxCards)
        /\ Call([NoCall EXCEPT !.kind = "apply", !.para = shown.para, !.base = text,
                    !.plan = [ok |-> TRUE, expected |-> expected,
                              hunks |-> SortHunksReverse(ExtractDiffHunks(text, expected))],
                    !.items = <<card>>, !.range = range, !.phase = "sent"])
        /\ panel' = Marked(panel, card, range, "applying")
        /\ UNCHANGED <<doc, shown, entries, matcher, observed, applyingBatch, batches>>

Eligible == SelectSeq(observed.observations, LAMBDA o : o.kind = "eligible")

ApplyAutoApplyPlan ==
    /\ entries.file # <<>>
    /\ Eligible # <<>> /\ ~applyingBatch
    /\ Call([NoCall EXCEPT !.kind = "batch", !.para = observed.para, !.base = observed.base,
                !.items = Eligible, !.phase = "snapshot"])
    /\ applyingBatch' = TRUE
    /\ UNCHANGED <<doc, shown, entries, matcher, panel, observed, batches, spent>>

Standing(b) == SelectSeq(b.items, LAMBDA i : i.status = "applied")
WithStatus(items, from, to) ==
    [n \in DOMAIN items |-> IF items[n].status = from THEN [items[n] EXCEPT !.status = to] ELSE items[n]]
BannerOpen == \E b \in DOMAIN batches : Standing(batches[b]) # <<>>

RevertBatch(b) ==
    /\ BannerOpen
    /\ batches[b].status = "applied"
    /\ Standing(batches[b]) # <<>>
    /\ \A n \in DOMAIN batches[b].items : batches[b].items[n].status # "reverting"
    /\ Call([NoCall EXCEPT !.kind = "revertBatch", !.para = batches[b].para, !.batch = b,
                !.base = batches[b].current, !.items = Standing(batches[b]), !.phase = "snapshot"])
    /\ batches' = [batches EXCEPT ![b].status = "reverting",
                                  ![b].items = WithStatus(@, "applied", "reverting")]
    /\ UNCHANGED <<doc, shown, entries, matcher, panel, observed, applyingBatch, spent>>

\* The item to undo is the last of the call's items; the ones before it are
\* those to its left that are taken to stand in the text.
RevertItem(b, n) ==
    LET item == batches[b].items[n]
        left == SelectSeq(batches[b].items, LAMBDA i : i.status \in {"applied", "reverting"}
                                                       /\ i.start < item.start)
    IN  /\ item.status = "applied"
        /\ Call([NoCall EXCEPT !.kind = "revertItem", !.para = batches[b].para, !.batch = b,
                    !.base = batches[b].current, !.items = Append(left, item), !.phase = "snapshot"])
        /\ batches' = [batches EXCEPT ![b].items[n].status = "reverting"]
        /\ UNCHANGED <<doc, shown, entries, matcher, panel, observed, applyingBatch, spent>>
--------------------------------------------------------------------------------
(* How a call ends                                                         *)

Batch(call) ==
    [para |-> call.para, before |-> call.base, current |-> call.plan.expected, status |-> "applied",
     items |-> [n \in DOMAIN call.items |->
                  LET i == call.items[n]
                  IN  [segment |-> i.segment, start |-> i.start, end |-> i.end,
                       old |-> i.old, new |-> i.new, status |-> "applied"]]]

\* The cards that a batch marks: in the list by source and target, among the
\* sentences by their number.
MarkedBatch(view, items) ==
    LET mark(cands, those) == [n \in DOMAIN cands |->
            IF \E i \in those : items[i].source = cands[n].source /\ items[i].new = cands[n].target
            THEN [cands[n] EXCEPT !.status = "applied"] ELSE cands[n]]
        group(g) == [g EXCEPT !.cands = mark(@, {i \in DOMAIN items : items[i].segment = g.index})]
    IN  [view EXCEPT !.cands = mark(@, DOMAIN items), !.groups = [n \in DOMAIN @ |-> group(@[n])]]

FinishBatch(call, status) ==
    /\ applyingBatch' = FALSE
    /\ batches' = IF status = "SUCCESS" THEN Append(batches, Batch(call)) ELSE batches
    /\ panel' = IF status = "SUCCESS" THEN MarkedBatch(panel, call.items) ELSE panel

FinishApply(call, status) ==
    /\ panel' = Marked(panel, call.items[1], call.range, IF status = "SUCCESS" THEN "applied" ELSE "failed")
    /\ UNCHANGED <<batches, applyingBatch>>

\* A refused or rolled back command means the document was edited; any other
\* failure is told as one.
Outcome(status) ==
    IF status = "SUCCESS" THEN "reverted"
    ELSE IF status \in {"STALE", "ROLLED_BACK"} THEN "stale" ELSE "revert_failed"

FinishRevertBatch(call, status) ==
    LET to == Outcome(status)
        kept == IF status = "NO_PLAN" THEN "applied" ELSE to
    IN  batches' = [batches EXCEPT ![call.batch] =
                      [@ EXCEPT !.status = to, !.items = WithStatus(@, "reverting", kept),
                                !.current = IF to = "reverted" THEN call.plan.expected ELSE @]]

\* mutant: the text to come back to is not brought up to date
FinishRevertItem_OldCheckpoint(call, status) ==
    LET item == call.items[Len(call.items)]
        set(i) == IF i.segment = item.segment THEN [i EXCEPT !.status = Outcome(status)] ELSE i
        items == [n \in DOMAIN batches[call.batch].items |-> set(batches[call.batch].items[n])]
        rest == \E n \in DOMAIN items : items[n].status = "applied"
    IN  batches' = [batches EXCEPT ![call.batch] =
            [@ EXCEPT !.items = items,
                      !.status = IF status = "SUCCESS"
                                 THEN IF rest THEN "partially_reverted" ELSE "reverted" ELSE @]]
FinishRevertItem(call, status) ==
    LET item == call.items[Len(call.items)]
        set(i) == IF i.segment = item.segment THEN [i EXCEPT !.status = Outcome(status)] ELSE i
        items == [n \in DOMAIN batches[call.batch].items |-> set(batches[call.batch].items[n])]
        rest == \E n \in DOMAIN items : items[n].status = "applied"
    IN  batches' = [batches EXCEPT ![call.batch] =
            IF status # "SUCCESS" THEN [@ EXCEPT !.items = items]
            ELSE [@ EXCEPT !.items = items, !.current = call.plan.expected,
                           !.status = IF rest THEN "partially_reverted" ELSE "reverted"]]

Finish(call, status) ==
    /\ CASE call.kind = "apply" -> FinishApply(call, status)
         [] call.kind = "batch" -> FinishBatch(call, status)
         [] call.kind = "revertBatch" -> FinishRevertBatch(call, status)
                                         /\ UNCHANGED <<panel, applyingBatch>>
         [] call.kind = "revertItem" -> FinishRevertItem(call, status)
                                        /\ UNCHANGED <<panel, applyingBatch>>
    /\ UNCHANGED <<shown, entries, matcher, observed>>
--------------------------------------------------------------------------------
(* The editor                                                              *)

PlanOf(call, live) ==
    CASE call.kind = "batch" -> PlanTmAutoApplyReplacement(live, call.items)
      [] call.kind = "revertBatch" -> PlanBatchRevert(call.base, batches[call.batch].before)
      [] call.kind = "revertItem" ->
            LET item == call.items[Len(call.items)]
            IN  PlanItemRevert(live, SubSeq(call.items, 1, Len(call.items) - 1), item)

\* The text at an item's place is not its translation.
Misplaced(call, live) ==
    LET item == call.items[Len(call.items)]
        at == PostStart(SubSeq(call.items, 1, Len(call.items) - 1), item)
    IN  call.kind = "revertItem" /\ (at < 0 \/ at + Len(item.new) > Len(live)
                                       \/ Slice(live, at, at + Len(item.new)) # item.new)

\* The live text comes back: if it is the expected one the command follows.
SnapshotAnswered(n) ==
    LET call == calls[n]
        live == doc[call.para]
    IN  /\ call.phase = "snapshot"
        /\ \E plan \in {IF live = call.base THEN PlanOf(call, live) ELSE NoPlan} :
              IF plan.ok
              THEN /\ Step(n, [call EXCEPT !.plan = plan, !.phase = "sent"])
                   /\ UNCHANGED <<shown, entries, matcher, panel, observed, applyingBatch, batches>>
              ELSE /\ Finish(call, IF live # call.base \/ Misplaced(call, live) THEN "STALE" ELSE "NO_PLAN")
                   /\ Step(n, NoCall)
        /\ UNCHANGED <<doc, spent>>

\* The editor executes a command, also one that nobody waits for any more.
Execute(n) ==
    LET call == calls[n]
        Ended(status) == Step(n, IF call.phase = "late" THEN NoCall
                                 ELSE [call EXCEPT !.phase = "executed", !.result = status])
    IN  /\ call.phase \in {"sent", "late"}
        /\ \/ /\ call.para \notin Paras
              /\ Ended("FAILED") /\ UNCHANGED <<doc, spent>>
           \/ /\ call.para \in Paras
              /\ IF doc[call.para] = call.base
                 THEN /\ doc' = [doc EXCEPT ![call.para] = ReplaceReverse(@, call.plan.hunks).text]
                      /\ Ended("SUCCESS")
                 ELSE Ended("STALE") /\ UNCHANGED doc
              /\ UNCHANGED spent
           \/ /\ call.para \in Paras
              /\ Spend("failures", MaxFailures)
              /\ \E status \in {"FAILED", "ROLLED_BACK"} : Ended(status)
              /\ UNCHANGED doc
        /\ UNCHANGED <<shown, entries, matcher, panel, observed, applyingBatch, batches>>

Answered(n) ==
    /\ calls[n].phase = "executed"
    /\ Finish(calls[n], calls[n].result)
    /\ Step(n, NoCall)
    /\ UNCHANGED <<doc, spent>>

\* A snapshot that fails reads as an edited document when something is undone.
TimeOut(n) ==
    LET call == calls[n]
        revert == call.kind \in {"revertBatch", "revertItem"}
    IN  /\ call.phase \in {"snapshot", "sent", "executed"}
        /\ Spend("failures", MaxFailures)
        /\ Finish(call, IF call.phase = "snapshot" /\ revert THEN "STALE" ELSE "FAILED")
        /\ Step(n, IF call.phase = "sent" THEN [call EXCEPT !.phase = "late"] ELSE NoCall)
        /\ UNCHANGED doc

Edit(p) ==
    /\ Spend("edits", MaxEdits)
    /\ \E text \in Edits(doc[p]) : doc' = [doc EXCEPT ![p] = text]
    /\ UNCHANGED <<shown, entries, matcher, panel, observed, applyingBatch, batches, calls>>
--------------------------------------------------------------------------------
Init ==
    /\ doc = Original
    /\ shown = [para |-> "none", text |-> <<>>]
    /\ entries = [file |-> Imported, overlay |-> <<>>]
    /\ matcher = <<>>
    /\ panel = [mode |-> "fuzzy", query |-> <<>>, minScore |-> 75, cands |-> <<>>, groups |-> <<>>]
    /\ observed = NoObservations
    /\ applyingBatch = FALSE
    /\ batches = <<>>
    /\ calls = <<>>
    /\ spent = [looks |-> 0, cards |-> 0, failures |-> 0, edits |-> 0]

Use(card, range) ==
    \E target \in {card.target} \union OwnTargets : ApplyMatch(card, range, target) \/ SaveToTm(target)

Next ==
    \/ \E p \in Paras : Arrive(p) \/ Edit(p)
    \/ \E text \in Queries \union {shown.text} : LookUp(text)
    \/ \E word \in Keywords, scope \in {"source", "target", "both"} : LookUpKeyword(word, scope)
    \/ \E score \in MinScores : SetMinScore(score)
    \/ \E file \in Files, raised \in BOOLEAN : LoadTm(file, raised)
    \/ ClearTm
    \/ \E n \in DOMAIN panel.cands : Use(panel.cands[n], Whole)
    \/ \E g \in DOMAIN panel.groups : \E n \in DOMAIN panel.groups[g].cands :
            Use(panel.groups[g].cands[n], [start |-> panel.groups[g].start, end |-> panel.groups[g].end])
    \/ ApplyAutoApplyPlan
    \/ \E b \in DOMAIN batches : RevertBatch(b) \/ \E n \in DOMAIN batches[b].items : RevertItem(b, n)
    \/ \E n \in DOMAIN calls : SnapshotAnswered(n) \/ Execute(n) \/ Answered(n) \/ TimeOut(n)

Spec == Init /\ [][Next]_vars
--------------------------------------------------------------------------------
(* Properties                                                              *)

\* The text of a batch's paragraph with the translations of some of its items.
Composite(before, items, those) ==
    LET end(n) == IF n = 0 THEN 0 ELSE items[n].end
        piece(n) == Slice(before, end(n - 1), items[n].start)
                    \o (IF n \in those THEN items[n].new ELSE items[n].old)
    IN  Q!FlattenSeq([n \in DOMAIN items |-> piece(n)]) \o Slice(before, end(Len(items)), Len(before))

\* What a command's change of a paragraph from `from' to `to' should be.
AsAsked(call, from, to) ==
    IF call.kind = "batch" THEN to = Composite(from, call.items, DOMAIN call.items)
    ELSE IF call.kind = "apply"
    THEN to = IF call.range = Whole THEN call.plan.expected
              ELSE Slice(from, 0, call.range.start) \o Slice(to, call.range.start,
                      call.range.end + Len(to) - Len(from)) \o Slice(from, call.range.end, Len(from))
    ELSE LET b == batches[call.batch]
             its == {n \in DOMAIN b.items : \E i \in DOMAIN call.items :
                        /\ call.items[i].segment = b.items[n].segment
                        /\ call.kind = "revertItem" => i = Len(call.items)}
         IN  IF call.kind = "revertBatch" THEN to = b.before
             ELSE \E those \in SUBSET DOMAIN b.items :
                    /\ its \subseteq those
                    /\ from = Composite(b.before, b.items, those)
                    /\ to = Composite(b.before, b.items, those \ its)

\* A command writes what its user asked for and nothing beside it, whatever
\* was applied, undone, refused or lost before: a batch replaces exactly its
\* sentences, a card its sentence, undoing one sentence restores that sentence
\* and leaves the others as they stand, undoing a batch gives back the text
\* before it (planTmAutoApplyReplacement, planItemRevert, planBatchRevert).
RestoresOwnSentence ==
    [][\A n \in DOMAIN calls :
         LET call == calls[n]
         IN  doc' # doc /\ calls'[n] # call => AsAsked(call, doc[call.para], doc'[call.para])]_vars

\* The text the history expects in the document is the one its items say:
\* their translations, except where one was undone, or nothing of the batch
\* once all of it was; two undone at once do not overwrite each other's account
\* (currentExpectedText, revertItem).
CheckpointIsTrue ==
    \A b \in DOMAIN batches :
        LET batch == batches[b]
            standing == {n \in DOMAIN batch.items : batch.items[n].status # "reverted"}
        IN  \/ batch.current = Composite(batch.before, batch.items, standing)
            \/ batch.status = "reverted" /\ batch.current = batch.before

\* What the panel and the history show as under way is under way: a batch that
\* is being applied, a sentence that is being undone and a card that is being
\* applied each have a call that will end them, however the one before ended
\* (isApplyingBatch, 'reverting', 'applying').
UnderWayIsAwaited ==
    LET Awaited(kinds, P(_)) == \E n \in DOMAIN calls : /\ calls[n].kind \in kinds
                                                      /\ calls[n].phase # "late" /\ P(calls[n])
        cards == panel.cands \o Q!FlattenSeq([g \in DOMAIN panel.groups |-> panel.groups[g].cands])
    IN  /\ applyingBatch => Awaited({"batch"}, LAMBDA call : TRUE)
        /\ \A b \in DOMAIN batches : \A i \in DOMAIN batches[b].items :
              batches[b].items[i].status = "reverting" =>
                 Awaited({"revertBatch", "revertItem"}, LAMBDA call :
                    call.batch = b /\ \E k \in DOMAIN call.items :
                                         call.items[k].segment = batches[b].items[i].segment)
        /\ \A c \in DOMAIN cards :
              cards[c].status = "applying" =>
                 Awaited({"apply"}, LAMBDA call : SamePair(call.items[1], cards[c]))

\* The history and the marks say what is the case.
HistoryIsTrue == CheckpointIsTrue /\ UnderWayIsAwaited

\* The fewest insertions, deletions and substitutions between two texts.
Distance(s, t) ==
    LET d[i \in 0 .. Len(s)] ==
            IF i = 0 THEN [j \in 0 .. Len(t) |-> j]
            ELSE With(d[i - 1], LAMBDA up :
                    Q!FoldLeft(LAMBDA row, j : row @@ (j :> Least({up[j] + 1, row[j - 1] + 1,
                                  up[j - 1] + (IF s[i] = t[j] THEN 0 ELSE 1)})),
                               0 :> i, [j \in DOMAIN t |-> j]))
    IN  d[Len(s)][Len(t)]

\* Every card shown for a text is as close as its score says and close enough,
\* the best come first, and no entry that is as close is missing unless the
\* list is full of cards as good, or the text has four characters or more and
\* no three in a row of them are in the entry (search).
BestAreShown ==
    LET lists == {<<panel.query, panel.cands>>}
                 \union {<<panel.groups[g].text, panel.groups[g].cands>> : g \in DOMAIN panel.groups}
        close(q, e) == Size(q, NormalizeText(e.source)) - Distance(q, NormalizeText(e.source))
        Close(q, e) == close(q, e) * 100 >= panel.minScore * Size(q, NormalizeText(e.source))
        Scored(q, e) == LET size == Size(q, NormalizeText(e.source))
                        IN  (2000 * close(q, e) + size) \div (2 * size)
        Indexed(q, e) == \/ Len(q) < 4
                         \/ ExtractNgrams(q) \intersect ExtractNgrams(NormalizeText(e.source)) # {}
    IN  shown.para # "none" /\ panel.mode = "fuzzy" /\ calls = <<>> =>
        \A list \in lists :
            LET q == NormalizeText(list[1])
                cands == list[2]
            IN  /\ \A n \in DOMAIN cands : /\ Close(q, cands[n])
                                            /\ cands[n].score = Scored(q, cands[n])
                                            /\ n > 1 => cands[n - 1].score >= cands[n].score
                /\ panel.groups = <<>> \/ list[1] # panel.query => \A n \in DOMAIN matcher :
                        \/ ~Close(q, matcher[n]) \/ ~Indexed(q, matcher[n])
                        \/ \E k \in DOMAIN cands : SamePair(cands[k], matcher[n])
                        \/ Len(cands) = TopN /\ Scored(q, matcher[n]) <= cands[TopN].score
================================================================================
