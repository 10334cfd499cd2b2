-------------------------- MODULE WordReplacement ---------------------------
(***************************************************************************)
(* The Word add-in's replacement transaction                               *)
(* (plugins/word/src/replacement_executor.ts, compensating_journal.ts,     *)
(* hash_verifier.ts): a command carries hunks computed by the dashboard    *)
(* against the text Base; the executor finds the paragraph, checks it,     *)
(* applies the hunks from the highest offset down while it journals them,  *)
(* and confirms the final text; an exception sends it through the          *)
(* pre-rollback check and the compensating rollback.                       *)
(*                                                                         *)
(* Commands run concurrently (runtime_manager.ts starts an executor per    *)
(* COMMAND message and serialises nothing) while the user types.  A text   *)
(* is a sequence of words; hashes are compared as the texts they stand for *)
(* (SHA-256 is taken to be injective).                                     *)
(***************************************************************************)
EXTENDS Integers, Sequences, FiniteSets, SequencesExt

CONSTANTS
    Commands,         \* commands in flight, all computed against Base
    Base,             \* text of the target paragraph when they were computed
    Hunks,            \* per command, the set of its hunks
    Typed,            \* words the user may type, each once
    MaxParagraphs,    \* bound: paragraphs the user may add above the target
    MaxDeletions,     \* bound: words of the target the user may delete
    MaxHostErrors,    \* bound: Office.js syncs that are rejected
    CallsInterleave,  \* others may act between the two syncs of one Word.run
    RangeSubstring    \* the host has Range.getSubstring

ASSUME BoundsAssumption ==
    /\ MaxParagraphs \in Nat /\ MaxDeletions \in Nat /\ MaxHostErrors \in Nat
    /\ CallsInterleave \in BOOLEAN /\ RangeSubstring \in BOOLEAN

Target == 0    \* identity of the paragraph the commands are about

VARIABLES
    doc,         \* body paragraphs in document order: identity and text
    pc,          \* per command, the await its executor is at
    index,       \* targetIndex pinned by the first lookup, 0 before
    seen,        \* paragraph.text loaded by the current runner call
    step,        \* how many hunks were applied
    live,        \* liveText, the executor's idea of the text
    journal,     \* journal entries: the hunk applied and the text after it
    undone,      \* how many rollback actions were played
    undoFailed,  \* rollbackFailed
    result,      \* status of the result sent, or "none"
    typed,       \* history: words the user has typed
    touched,     \* history: which command wrote to which paragraph
    deletions,   \* user deletions so far
    hostErrors   \* rejected syncs so far

execVars == <<pc, index, seen, step, live, journal, undone, undoFailed, result>>
worldVars == <<typed, deletions>>
vars == <<doc, execVars, worldVars, touched, hostErrors>>

-----------------------------------------------------------------------------
(* Texts and hunks: start and end count words, end is exclusive *)

\* substring: an end beyond the text stands for the end of the text.
Slice(text, from, to) ==
    SubSeq(text, from + 1, IF to <= Len(text) THEN to ELSE Len(text))
Splice(text, from, to, new) ==
    Slice(text, 0, from) \o new \o Slice(text, to, Len(text))

\* sortHunksForward: from the lowest start (then end) up; sortHunksReverse down.
ForwardOrder(h, g) == h.start < g.start \/ (h.start = g.start /\ h.end < g.end)
HunkOrder(h, g) == h.start > g.start \/ (h.start = g.start /\ h.end > g.end)
Ranked(hunks, Before(_, _)) ==
    [k \in 1 .. Cardinality(hunks) |->
        CHOOSE h \in hunks : Cardinality({g \in hunks : Before(g, h)}) = k - 1]
Sorted(c) == Ranked(Hunks[c], HunkOrder)

\* validateHunks: in bounds, the old text is there, and no two overlap.
Valid(text, hunks) ==
    /\ \A h \in hunks : /\ h.start <= h.end /\ h.end <= Len(text)
                        /\ Slice(text, h.start, h.end) = h.old
    /\ \A h, g \in hunks : ForwardOrder(h, g) => h.end <= g.start

\* What expectedHash stands for: all hunks at once, their offsets in Base.
Forward(c) == Ranked(Hunks[c], ForwardOrder)
EndOf(c, k) == IF k = 0 THEN 0 ELSE Forward(c)[k].end
Joined(c) ==
    LET joined[k \in 0 .. Cardinality(Hunks[c])] ==
            IF k = 0 THEN <<>>
            ELSE joined[k - 1] \o Slice(Base, EndOf(c, k - 1), Forward(c)[k].start)
                               \o Forward(c)[k].new
    IN  joined
Expected(c) ==
    LET n == Cardinality(Hunks[c]) IN Joined(c)[n] \o Slice(Base, EndOf(c, n), Len(Base))

\* A journal entry undone: put the old words back where the new ones are.
Compensation(h) ==
    [start |-> h.start, end |-> h.start + Len(h.new), old |-> h.new, new |-> h.old]

\* getRollbackActions: last in, first out.
RollbackActions(c) ==
    Reverse([i \in 1 .. Len(journal[c]) |-> Compensation(journal[c][i].hunk)])

LatestIntermediate(c) == Last(journal[c]).text

-----------------------------------------------------------------------------
Statuses == {"SUCCESS", "STALE_REJECTED", "FAILED", "ROLLED_BACK", "ROLLBACK_ABORTED"}
Places == {"idle", "locating", "reading", "writing", "confirming", "giving up",
           "checking", "undo reading", "undo writing", "verifying", "done"}

Words == Range(Base) \cup Typed
           \cup UNION {Range(h.new) : h \in UNION {Hunks[c] : c \in Commands}}

\* The hunks are those of a diff of Base: they fit it, and no two have one stretch.
ASSUME HunksAssumption ==
    /\ Base \in Seq(Words)
    /\ \A c \in Commands :
         /\ IsFiniteSet(Hunks[c])
         /\ Hunks[c] \subseteq [start: Nat, end: Nat, old: Seq(Words), new: Seq(Words)]
         /\ Valid(Base, Hunks[c])
         /\ \A h, g \in Hunks[c] : h.start = g.start /\ h.end = g.end => h = g
\* The words the user types are told from all others.
ASSUME TypedAssumption ==
    \A w \in Typed : /\ w \notin Range(Base)
                     /\ \A c \in Commands : \A h \in Hunks[c] : w \notin Range(h.new)

TypeOK ==
    /\ \A i \in DOMAIN doc : doc[i].id \in 0 .. MaxParagraphs /\ Range(doc[i].text) \subseteq Words
    /\ Cardinality({doc[i].id : i \in DOMAIN doc}) = Len(doc)
    /\ pc \in [Commands -> Places]
    /\ \A c \in Commands :
         /\ index[c] \in 0 .. Len(doc)
         /\ step[c] \in 0 .. Cardinality(Hunks[c])
         /\ Len(journal[c]) = step[c]
         /\ undone[c] \in 0 .. step[c]
         /\ result[c] \in Statuses \cup {"none"}
         /\ result[c] # "none" <=> pc[c] = "done"

Init ==
    /\ doc = <<[id |-> Target, text |-> Base]>>
    /\ pc = [c \in Commands |-> "idle"]
    /\ index = [c \in Commands |-> 0]
    /\ seen = [c \in Commands |-> <<>>]
    /\ step = [c \in Commands |-> 0]
    /\ live = [c \in Commands |-> <<>>]
    /\ journal = [c \in Commands |-> <<>>]
    /\ undone = [c \in Commands |-> 0]
    /\ undoFailed = [c \in Commands |-> FALSE]
    /\ result = [c \in Commands |-> "none"]
    /\ typed = {}
    /\ touched = {}
    /\ deletions = 0
    /\ hostErrors = 0

-----------------------------------------------------------------------------
(* What the executor's steps share *)

\* Only a second sync of the same Word.run follows a paragraph load; whether
\* others act in between is the host's choice.
MidCall == {"writing", "undo writing"}
MayAct(c) == CallsInterleave \/ \A d \in Commands \ {c} : pc[d] \notin MidCall

Goto(c, place) == pc' = [pc EXCEPT ![c] = place]

Finish(c, status) ==
    /\ Goto(c, "done")
    /\ result' = [result EXCEPT ![c] = status]

\* The sync is rejected: the runner call throws and has no effect.
HostError ==
    /\ hostErrors < MaxHostErrors
    /\ hostErrors' = hostErrors + 1

\* The catch of execute(): handleRollbackFlow, which first asks whether any
\* hunk was applied.
Recover(c) ==
    Goto(c, IF journal[c] = <<>> THEN "giving up" ELSE "checking")

TargetText(c) == doc[index[c]].text

\* The write of applyHunk: on a sub-range the host resolves when it syncs, or
\* by replacing the whole paragraph with text built from what was loaded.
Write_Blind(c, h) ==                                                \* mutant
    /\ doc' = [doc EXCEPT ![index[c]].text = Splice(live[c], h.start, h.end, h.new)]
    /\ touched' = touched \cup {<<c, doc[index[c]].id>>}
Write(c, h) ==
    /\ doc' = [doc EXCEPT ![index[c]].text =
                 Splice(IF RangeSubstring THEN @ ELSE seen[c], h.start, h.end, h.new)]
    /\ touched' = touched \cup {<<c, doc[index[c]].id>>}

\* After a hunk: liveText follows and the journal gets an entry.
Record(c, h, after) ==
    /\ live' = [live EXCEPT ![c] = after]
    /\ journal' = [journal EXCEPT ![c] = Append(@, [hunk |-> h, text |-> after])]

\* verifyExpectedHash on the text read back at the end.
Confirmed_Always(text, c) == TRUE                                   \* mutant
Confirmed(text, c) == text = Expected(c)

\* applyHunk refuses to write unless the old words are where they should be.
SliceMatches(text, h) == Slice(text, h.start, h.end) = h.old

-----------------------------------------------------------------------------
(* The executor *)

Begin(c) ==
    /\ pc[c] = "idle"
    /\ Goto(c, "locating")
    /\ UNCHANGED <<doc, index, seen, step, live, journal, undone, undoFailed,
                   result, worldVars, touched, hostErrors>>

\* The first getText: find the one paragraph with the base text and pin it.
Locate(c) ==
    LET candidates == {i \in DOMAIN doc : doc[i].text = Base} IN
    /\ pc[c] = "locating"
    /\ MayAct(c)
    /\ \/ /\ Cardinality(candidates) = 1
          /\ \E i \in candidates :
               /\ index' = [index EXCEPT ![c] = i]
               /\ live' = [live EXCEPT ![c] = doc[i].text]
               /\ IF doc[i].text # Base
                  THEN Finish(c, "STALE_REJECTED")
                  ELSE IF ~Valid(doc[i].text, Hunks[c])
                  THEN Finish(c, "FAILED")
                  ELSE Goto(c, "reading") /\ UNCHANGED result
          /\ UNCHANGED hostErrors
       \/ /\ Cardinality(candidates) # 1
          /\ Finish(c, "FAILED")
          /\ UNCHANGED <<index, live, hostErrors>>
       \/ /\ HostError
          /\ Finish(c, "FAILED")
          /\ UNCHANGED <<index, live>>
    /\ UNCHANGED <<doc, seen, step, journal, undone, undoFailed, worldVars, touched>>

\* applyHunk, first sync: load the pinned paragraph and compare the slice.
ReadForHunk(c) ==
    /\ pc[c] = "reading"
    /\ step[c] < Cardinality(Hunks[c])
    /\ MayAct(c)
    /\ \/ /\ SliceMatches(TargetText(c), Sorted(c)[step[c] + 1])
          /\ seen' = [seen EXCEPT ![c] = TargetText(c)]
          /\ Goto(c, "writing")
          /\ UNCHANGED hostErrors
       \/ /\ ~SliceMatches(TargetText(c), Sorted(c)[step[c] + 1])
          /\ Recover(c)
          /\ UNCHANGED <<seen, hostErrors>>
       \/ /\ HostError
          /\ Recover(c)
          /\ UNCHANGED seen
    /\ UNCHANGED <<doc, index, step, live, journal, undone, undoFailed, result,
                   worldVars, touched>>

\* applyHunk, second sync; then liveText and the journal follow.
WriteHunk(c) ==
    LET h == Sorted(c)[step[c] + 1]
    IN
    /\ pc[c] = "writing"
    /\ \/ /\ Write(c, h)
          /\ Record(c, h, Splice(live[c], h.start, h.end, h.new))
          /\ step' = [step EXCEPT ![c] = @ + 1]
          /\ Goto(c, "reading")
          /\ UNCHANGED hostErrors
       \/ /\ HostError
          /\ Recover(c)
          /\ UNCHANGED <<doc, live, journal, step, touched>>
    /\ UNCHANGED <<index, seen, undone, undoFailed, result, worldVars>>

\* All hunks are in: read the paragraph once more.  A mismatch is only reported.
Confirm(c) ==
    /\ pc[c] = "reading"
    /\ step[c] = Cardinality(Hunks[c])
    /\ MayAct(c)
    /\ \/ /\ Finish(c, IF Confirmed(TargetText(c), c) THEN "SUCCESS" ELSE "FAILED")
          /\ UNCHANGED hostErrors
       \/ /\ HostError
          /\ Recover(c)
          /\ UNCHANGED result
    /\ UNCHANGED <<doc, index, seen, step, live, journal, undone, undoFailed,
                   worldVars, touched>>

\* Nothing was applied before the exception.  If this read throws as well, the
\* command handler of the runtime reports FAILED in the executor's stead.
GiveUp(c) ==
    /\ pc[c] = "giving up"
    /\ MayAct(c)
    /\ Finish(c, "FAILED")
    /\ HostError \/ UNCHANGED hostErrors
    /\ UNCHANGED <<doc, index, seen, step, live, journal, undone, undoFailed,
                   worldVars, touched>>

\* checkPreRollbackIntegrity; a read that fails counts as the empty text.
Intact(text, c) == text = LatestIntermediate(c)

PreRollbackCheck(c) ==
    /\ pc[c] = "checking"
    /\ MayAct(c)
    /\ \E text \in {TargetText(c), <<>>} :
         /\ text # TargetText(c) => HostError
         /\ text = TargetText(c) => UNCHANGED hostErrors
         /\ IF Intact(text, c)
            THEN Goto(c, "undo reading") /\ UNCHANGED result
            ELSE Finish(c, "ROLLBACK_ABORTED")
    /\ UNCHANGED <<doc, index, seen, step, live, journal, undone, undoFailed,
                   worldVars, touched>>

StopUndo_Retry(c) ==                                                \* mutant
    /\ Goto(c, "undo reading")
    /\ UNCHANGED undoFailed
StopUndo(c) ==
    /\ undoFailed' = [undoFailed EXCEPT ![c] = TRUE]
    /\ Goto(c, "verifying")

\* The rollback plays its actions with the same applyHunk.
UndoRead(c) ==
    /\ pc[c] = "undo reading"
    /\ undone[c] < Len(journal[c])
    /\ MayAct(c)
    /\ \/ /\ SliceMatches(TargetText(c), RollbackActions(c)[undone[c] + 1])
          /\ seen' = [seen EXCEPT ![c] = TargetText(c)]
          /\ Goto(c, "undo writing")
          /\ UNCHANGED <<undoFailed, hostErrors>>
       \/ /\ ~SliceMatches(TargetText(c), RollbackActions(c)[undone[c] + 1])
          /\ StopUndo(c)
          /\ UNCHANGED <<seen, hostErrors>>
       \/ /\ HostError
          /\ StopUndo(c)
          /\ UNCHANGED seen
    /\ UNCHANGED <<doc, index, step, live, journal, undone, result,
                   worldVars, touched>>

UndoWrite(c) ==
    /\ pc[c] = "undo writing"
    /\ \/ /\ Write(c, RollbackActions(c)[undone[c] + 1])
          /\ undone' = [undone EXCEPT ![c] = @ + 1]
          /\ Goto(c, "undo reading")
          /\ UNCHANGED <<undoFailed, hostErrors>>
       \/ /\ HostError
          /\ StopUndo(c)
          /\ UNCHANGED <<doc, undone, touched>>
    /\ UNCHANGED <<index, seen, step, live, journal, result, worldVars>>

\* Was the initial snapshot restored?  If the read throws, the command handler
\* of the runtime reports FAILED.
Verify(c) ==
    /\ \/ pc[c] = "verifying"
       \/ pc[c] = "undo reading" /\ undone[c] = Len(journal[c])
    /\ MayAct(c)
    /\ \/ /\ Finish(c, IF ~undoFailed[c] /\ TargetText(c) = Base
                       THEN "ROLLED_BACK" ELSE "FAILED")
          /\ UNCHANGED hostErrors
       \/ /\ HostError
          /\ Finish(c, "FAILED")
    /\ UNCHANGED <<doc, index, seen, step, live, journal, undone, undoFailed,
                   worldVars, touched>>

Execute(c) ==
    \/ Begin(c) \/ Locate(c) \/ ReadForHunk(c) \/ WriteHunk(c) \/ Confirm(c)
    \/ GiveUp(c) \/ PreRollbackCheck(c) \/ UndoRead(c) \/ UndoWrite(c) \/ Verify(c)

-----------------------------------------------------------------------------
(* The user (external): types, deletes a word, starts a new paragraph *)

UserMayAct == CallsInterleave \/ \A c \in Commands : pc[c] \notin MidCall

UserTypes(w) ==
    /\ w \in Typed \ typed
    /\ UserMayAct
    /\ \E i \in DOMAIN doc : \E at \in 0 .. Len(doc[i].text) :
         doc' = [doc EXCEPT ![i].text = Splice(@, at, at, <<w>>)]
    /\ typed' = typed \cup {w}
    /\ UNCHANGED <<execVars, deletions, touched, hostErrors>>

UserDeletes ==
    /\ deletions < MaxDeletions
    /\ UserMayAct
    /\ \E i \in DOMAIN doc : \E at \in 1 .. Len(doc[i].text) :
         /\ doc[i].text[at] \notin Typed
         /\ doc' = [doc EXCEPT ![i].text = RemoveAt(@, at)]
    /\ deletions' = deletions + 1
    /\ UNCHANGED <<execVars, typed, touched, hostErrors>>

UserAddsParagraph ==
    /\ Len(doc) <= MaxParagraphs
    /\ UserMayAct
    /\ \E text \in {<<>>, Base} :
         doc' = <<[id |-> Len(doc), text |-> text]>> \o doc
    /\ UNCHANGED <<execVars, worldVars, touched, hostErrors>>

User == (\E w \in Typed : UserTypes(w)) \/ UserDeletes \/ UserAddsParagraph

Done == \A c \in Commands : pc[c] = "done"

Next == (\E c \in Commands : Execute(c)) \/ User \/ (Done /\ UNCHANGED vars)

Spec == Init /\ [][Next]_vars

\* An await of the executor settles: Office.js resolves or rejects every sync.
FairSpec == Spec /\ \A c \in Commands : WF_vars(Execute(c))

-----------------------------------------------------------------------------
(* Properties *)

TargetNow == (CHOOSE i \in DOMAIN doc : doc[i].id = Target)
\* Nobody but command c has changed the document.
Undisturbed(c) ==
    /\ typed = {} /\ deletions = 0 /\ Len(doc) = 1
    /\ \A w \in touched : w[1] = c

\* All or nothing: when nobody else touches the document, a transaction without
\* a rejected sync succeeds, and with at most one it leaves either the suggested
\* text, as SUCCESS, or the paragraph exactly as it was.
AllOrNothing ==
    \A c \in Commands :
        (pc[c] = "done" /\ Undisturbed(c) /\ hostErrors <= 1) =>
            /\ doc[TargetNow].text = (IF result[c] = "SUCCESS" THEN Expected(c) ELSE Base)
            /\ hostErrors = 0 => result[c] = "SUCCESS"

\* The journal knows the document: in an undisturbed transaction the text
\* recorded after the last applied hunk is the text in the document, until the
\* rollback starts.
JournalMatchesDocument ==
    \A c \in Commands :
        (Undisturbed(c) /\ journal[c] # <<>> /\ undone[c] = 0 /\ pc[c] # "done")
            => LatestIntermediate(c) = doc[TargetNow].text

\* A transaction is sound: its types, its effect and its journal.
TransactionIsSound == TypeOK /\ AllOrNothing /\ JournalMatchesDocument

\* What the user types is never lost: no write of a command or of its rollback
\* removes a word that was typed meanwhile.
NothingTypedIsLost ==
    typed \subseteq UNION {Range(doc[i].text) : i \in DOMAIN doc}

\* Of several commands computed against the same text at most one succeeds on a
\* paragraph it alone was aimed at: the others must notice, by hash or slice,
\* that the text is no longer theirs.
AtMostOneSuccess ==
    \A id \in 0 .. MaxParagraphs :
        Cardinality({c \in Commands : /\ result[c] = "SUCCESS"
                                      /\ {w[2] : w \in {v \in touched : v[1] = c}} = {id}}) <= 1

\* Every command gets a result, whatever the host rejects and the user does.
EveryCommandGetsAResult == \A c \in Commands : <>(result[c] # "none")
=============================================================================
