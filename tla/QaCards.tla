------------------------------ MODULE QaCards ------------------------------
(***************************************************************************)
(* The suggestion cards of the dashboard (src/stores/qaStore.ts), the      *)
(* guard that settles a card by the editor's answer (rollback_guard.ts),   *)
(* the resolver that re-analyses a rejected one (stale_conflict_resolver), *)
(* and the editor at the other end of a replacement command.               *)
(*                                                                         *)
(* The document is one paragraph, seen as the text at each of its issues;  *)
(* a hash stands for the text it was computed from.  JavaScript runs to    *)
(* the next await, so a handler is one step per stretch between two awaits *)
(* of the bridge.  Offsets are told by what stands before them: they point *)
(* at an issue in every text with the same before it (all versions of a    *)
(* segment are taken to have different lengths).  The editor's transaction *)
(* is one step here; WordReplacement opens it.                             *)
(***************************************************************************)
EXTENDS Integers, Sequences, FiniteSets

CONSTANTS
    NumIssues,    \* issues of the paragraph, numbered from its start
    Editors,      \* the editors the session may be with
    MaxCards,     \* bound: how many cards are ever created
    MaxCommands,  \* bound: how many commands are ever sent
    MaxExtras     \* bound: how many things happen besides telemetry, reports,
                  \* accepting and answering: edits, faults, reloads and the
                  \* user's other actions, in any combination

ASSUME NumIssuesAssumption == NumIssues \in Nat \ {0}
ASSUME BoundsAssumption == {MaxCards, MaxCommands, MaxExtras} \subseteq Nat
ASSUME EditorsAssumption == Editors \subseteq {"word", "InDesign"}

Issues == 1 .. NumIssues
CardIds == 1 .. MaxCards
Commands == 1 .. MaxCommands

Segments == {"original", "suggested", "alternative", "typed"}
Suggestions == {"suggested", "alternative"}
Texts == [Issues -> Segments]
Untouched == [i \in Issues |-> "original"]

Statuses == {"pending", "applying", "failed", "rolled_back", "rollback_aborted",
             "stale_refreshing", "stale_conflict"}
Cards == [issue: Issues, sug: Suggestions, pid: Texts, text: Texts, hash: Texts,
          before: UNION {[1 .. n -> Segments] : n \in 0 .. NumIssues - 1},
          status: Statuses, stale: BOOLEAN,
          restoring: BOOLEAN, replay: BOOLEAN]

\* What the editor answers; `hash` is empty where currentHash is ''.
Outcomes == {"SUCCESS", "FAILED", "ROLLED_BACK", "ROLLBACK_ABORTED", "STALE_REJECTED"}
Result(s, h) == [status |-> s, hash |-> h]
NoResult == Result("none", {})

NoGroup == [cards |-> {}]
NoBatch == [phase |-> "idle"]
NoCheck == [cards |-> << >>]

VARIABLES
    editor,     \* the editor of the session
    doc,        \* the paragraph in the editor
    extras,     \* how much happened that MaxExtras bounds
    cards,      \* QAState.cards: the active cards by id
    nextCard,   \* id of the next new card
    dismissed,  \* issues and suggestions the user dismissed
    applied,    \* QAState.appliedCards, oldest first
    known,      \* the paragraph of the last telemetry, if any
    reanalyse,  \* texts validateLiveCards sent to be analysed again
    cmds,       \* every command sent so far
    registry,   \* QAState.pendingCommands
    atHost,     \* commands the editor has not executed yet
    result,     \* what the editor answered to each command
    rpc,        \* commands whose caller still awaits the RPC
    events,     \* answers on their way as a bridge event
    resolving,  \* re-analyses of the resolver under way, by card
    batch,      \* acceptMatchingCards, between two of its awaits
    group,      \* acceptSentenceGroup, awaiting its snapshot
    check,      \* validateLiveCards, awaiting its snapshots
    missed      \* cards the last validation did not find

editorVars == <<editor, doc, extras>>
cardVars == <<cards, nextCard, dismissed, applied>>
newsVars == <<known, reanalyse>>
commandVars == <<cmds, registry, atHost, result, rpc, events>>
pendingVars == <<resolving, batch, group, check, missed>>
vars == <<editorVars, cardVars, newsVars, commandVars, pendingVars>>

Init ==
    /\ editor \in Editors /\ doc = Untouched /\ extras = 0
    /\ cards = << >> /\ nextCard = 1 /\ dismissed = {} /\ applied = << >>
    /\ known = {} /\ reanalyse = {}
    /\ cmds = << >> /\ registry = {} /\ atHost = {} /\ rpc = {} /\ events = {}
    /\ result = [c \in Commands |-> NoResult]
    /\ resolving = << >> /\ batch = NoBatch /\ group = NoGroup /\ check = NoCheck
    /\ missed = {}

\* A step that counts against MaxExtras.
Extra ==
    /\ extras < MaxExtras /\ extras' = extras + 1
    /\ UNCHANGED editor

-----------------------------------------------------------------------------
(* Texts, offsets and the fixes of a command *)

\* The id of a paragraph carries its text's hash in Word, its place in InDesign.
ContentIds == editor = "word"
\* The id the editor gives a paragraph whose text is t.
Pid(t) == IF ContentIds THEN t ELSE Untouched
Found(pid) == pid = Pid(doc)

\* What stands before issue i: offsets of the issue are right in every text
\* that has the same before it.
Before(t, i) == [j \in 1 .. i - 1 |-> t[j]]

Apply(t, fix) == [i \in Issues |-> IF i \in DOMAIN fix THEN fix[i] ELSE t[i]]

\* The card's own offsets point at its original segment in t.
PointsAt(card, t) ==
    /\ t[card.issue] = "original"
    /\ card.before = Before(t, card.issue)

Key(card) == [issue |-> card.issue, sug |-> card.sug]

-----------------------------------------------------------------------------
(* Adding, refreshing and removing cards *)

NewCard(i, s, t, h, r) ==
    [issue |-> i, sug |-> s, pid |-> Pid(h), text |-> t, hash |-> h,
     before |-> Before(t, i), status |-> "pending", stale |-> FALSE,
     restoring |-> FALSE, replay |-> r]

\* The elements of a set of numbers from the least up.
InOrder(S) ==
    [n \in 1 .. Cardinality(S) |-> CHOOSE i \in S : Cardinality({j \in S : j < i}) = n - 1]

\* addCard, card by card: nothing when the paragraph has a card for the same
\* replacement.
AddCards(cs, new) ==
    LET Same(c, d) == c.pid = d.pid /\ Key(c) = Key(d)
        added == {n \in DOMAIN new : /\ \A k \in DOMAIN cs : ~Same(cs[k], new[n])
                                     /\ \A m \in 1 .. n - 1 : ~Same(new[m], new[n])}
        next == nextCard + Cardinality(added)
    IN  /\ next <= MaxCards + 1
        /\ cards' = [k \in DOMAIN cs \cup nextCard .. next - 1 |->
                        IF k \in DOMAIN cs THEN cs[k]
                        ELSE new[InOrder(added)[k - nextCard + 1]]]
        /\ nextCard' = next

Without(cs, S) == [k \in DOMAIN cs \ S |-> cs[k]]

\* cards.map(c => S.has(c.id) ? change(c) : c)
Changed(cs, S, Change(_)) ==
    [k \in DOMAIN cs |-> IF k \in S THEN Change(cs[k]) ELSE cs[k]]

With(S, status) == Changed(cards, S, LAMBDA c : [c EXCEPT !.status = status])

\* What the list shows, and what a card's buttons allow.
Visible(k) == k \in DOMAIN cards /\ ~cards[k].restoring
Idle(k) ==
    /\ Visible(k)
    /\ ~cards[k].stale
    /\ cards[k].status \notin {"applying", "stale_refreshing"}
Acceptable(k) == Idle(k) /\ cards[k].status # "stale_conflict"

Eligible(k) == cards[k].status = "pending" /\ ~cards[k].restoring /\ ~cards[k].stale

-----------------------------------------------------------------------------
(* News of the document *)

\* new-paragraph-detected, up to its timer: waiting cards whose original is
\* gone leave, and the last accepted correction is offered again.
Telemetry ==
    LET gone == {k \in DOMAIN cards : /\ cards[k].status = "pending"
                                      /\ cards[k].pid = Pid(doc)
                                      /\ doc[cards[k].issue] # "original"}
        again == {n \in DOMAIN applied : doc[applied[n].issue] = "original"}
        replay == IF again = {} THEN << >>
                  ELSE LET a == applied[CHOOSE n \in again : \A m \in again : m <= n]
                       IN  << NewCard(a.issue, a.sug, doc, doc, TRUE) >>
    IN
    /\ known' = {doc}
    /\ AddCards(Without(cards, gone), replay)
    /\ UNCHANGED <<editorVars, dismissed, applied, reanalyse, commandVars, pendingVars>>

\* addReport: what it does with an analysis of t that found the issues S.
Stays(card, t, keys) ==
    \/ card.pid # Pid(t)
    \/ card.status # "pending"
    \/ card.replay /\ t[card.issue] = "original"
    \/ Key(card) \in keys

Refreshed(card, t, keys) ==
    /\ card.pid = Pid(t) /\ card.status = "pending"
    /\ t[card.issue] = "original"
    /\ card.replay \/ Key(card) \in keys

\* A single card whose original became its suggestion: the user did it.
DirectEdits(t) ==
    LET S == {k \in DOMAIN cards : /\ cards[k].status = "pending"
                                   /\ cards[k].pid = Pid(t)
                                   /\ t[cards[k].issue] = cards[k].sug}
    IN  IF Cardinality(S) = 1 THEN S ELSE {}

AddReport(t, S) ==
    LET issues == {i \in S : [issue |-> i, sug |-> "suggested"] \notin dismissed}
        keys == {[issue |-> i, sug |-> "suggested"] : i \in issues}
        drop == DirectEdits(t) \cup {k \in DOMAIN cards : ~Stays(cards[k], t, keys)}
        fresh == {k \in DOMAIN cards : Refreshed(cards[k], t, keys)}
        Refresh(c) == [c EXCEPT !.text = t, !.hash = t, !.stale = FALSE]
    IN  AddCards(Without(Changed(cards, fresh, Refresh), drop),
                 [n \in 1 .. Cardinality(issues) |->
                     NewCard(InOrder(issues)[n], "suggested", t, t, FALSE)])

Originals(t) == {i \in Issues : t[i] = "original"}

\* The analysis of a telemetry text, confirmed by a snapshot just before.
ReportTelemetry ==
    /\ doc \in known
    /\ \E S \in SUBSET Originals(doc) : AddReport(doc, S)
    /\ UNCHANGED <<editorVars, dismissed, applied, newsVars, commandVars, pendingVars>>

\* The analysis validateLiveCards asked for; nothing confirms it.
ReportReanalysis ==
    /\ \E t \in reanalyse :
          /\ reanalyse' = reanalyse \ {t}
          /\ \E S \in SUBSET Originals(t) : AddReport(t, S)
    /\ UNCHANGED <<editorVars, dismissed, applied, known, commandVars, pendingVars>>

-----------------------------------------------------------------------------
(* The user, in the editor and in the dashboard *)

UserEdits ==
    /\ Extra
    /\ \E i \in Issues : \E s \in Segments \ {doc[i]} : doc' = [doc EXCEPT ![i] = s]
    /\ UNCHANGED <<cardVars, newsVars, commandVars, pendingVars>>

\* updateSuggestedSegment and selectSuggestion.
Editable_Applying(k) ==                                            \* mutant
    cards[k].status \notin {"stale_conflict", "stale_refreshing"}
Editable(k) == cards[k].status \notin {"applying", "stale_conflict", "stale_refreshing"}

ChooseSuggestion ==
    /\ Extra
    /\ \E k \in DOMAIN cards, s \in Suggestions :
          /\ Visible(k) /\ Editable(k) /\ cards[k].sug # s
          /\ cards' = [cards EXCEPT ![k].sug = s]
    /\ UNCHANGED <<doc, nextCard, dismissed, applied, newsVars, commandVars, pendingVars>>

DropDismissed(S) ==
    /\ dismissed' = dismissed \cup {Key(cards[k]) : k \in S}
    /\ cards' = Without(cards, S)

DismissCard ==
    /\ Extra
    /\ \E k \in DOMAIN cards : Idle(k) /\ DropDismissed({k})
    /\ UNCHANGED <<doc, nextCard, applied, newsVars, commandVars, pendingVars>>

DismissAll ==
    /\ Extra /\ cards # << >>
    /\ DropDismissed(DOMAIN cards)
    /\ UNCHANGED <<doc, nextCard, applied, newsVars, commandVars, pendingVars>>

ResetQaCards ==
    /\ Extra /\ cards # << >>
    /\ cards' = << >> /\ dismissed' = {} /\ applied' = << >> /\ registry' = {}
    /\ UNCHANGED <<doc, nextCard, newsVars, cmds, atHost, result, rpc,
                   events, pendingVars>>

\* A card whose paragraph the editor does not find when asked to show it.
LocateFails ==
    /\ Extra
    /\ \E k \in DOMAIN cards :
          Visible(k) /\ ~Found(cards[k].pid) /\ cards' = Without(cards, {k})
    /\ UNCHANGED <<doc, nextCard, dismissed, applied, newsVars, commandVars, pendingVars>>

-----------------------------------------------------------------------------
(* Sending a command *)

Command(S, pid, hash, text, fix, auto) ==
    [cards |-> S, pid |-> pid, base |-> hash, text |-> text, fix |-> fix, auto |-> auto]
LastCommand == Len(cmds)
Expected(cmd) == Apply(cmd.text, cmd.fix)

\* Set the cards to applying, register the command, dispatch it.
Send(cmd) ==
    /\ LastCommand < MaxCommands
    /\ cmds' = Append(cmds, cmd)
    /\ registry' = registry \cup {LastCommand + 1}
    /\ atHost' = atHost \cup {LastCommand + 1}
    /\ rpc' = rpc \cup {LastCommand + 1}
    /\ cards' = With(cmd.cards, "applying")
    /\ UNCHANGED <<editorVars, nextCard, dismissed, applied, newsVars, result, events>>

\* acceptCard, with the guard of the store itself.
Sendable(k) == cards[k].status \notin {"applying", "stale_conflict"}
AcceptCard(k, auto) ==
    /\ Sendable(k)
    /\ Send(Command({k}, cards[k].pid, cards[k].hash, cards[k].text,
                    [i \in {cards[k].issue} |-> cards[k].sug], auto))

Accept ==
    /\ \E k \in DOMAIN cards : Acceptable(k) /\ AcceptCard(k, TRUE)
    /\ UNCHANGED pendingVars

(* acceptMatchingCards: the cards for one replacement, accepted one by one *)

BatchStart ==
    /\ batch = NoBatch
    /\ \E k \in DOMAIN cards :
          LET todo == {j \in DOMAIN cards : Eligible(j) /\ Key(cards[j]) = Key(cards[k])} IN
          /\ Acceptable(k)
          /\ batch' = [phase |-> "checking", todo |-> todo,
                       base |-> [j \in todo |-> cards[j].hash],
                       pid |-> [j \in todo |-> cards[j].pid]]
    /\ UNCHANGED <<editorVars, cardVars, newsVars, commandVars, resolving, group, check, missed>>

\* What is left of a batch; without cards it is over.
Rest(todo) == IF todo = {} THEN NoBatch ELSE [phase |-> "next", todo |-> todo]

\* The snapshots are back: only cards whose paragraph is unchanged go on.
BatchVerified ==
    /\ batch.phase = "checking"
    /\ batch' = Rest({j \in batch.todo : Found(batch.pid[j]) /\ batch.base[j] = doc})
    /\ UNCHANGED <<editorVars, cardVars, newsVars, commandVars, resolving, group, check, missed>>

BatchNext ==
    /\ batch.phase = "next"
    /\ \E k \in batch.todo :
          \/ /\ k \in DOMAIN cards /\ AcceptCard(k, FALSE)
             /\ batch' = [phase |-> "waiting", todo |-> batch.todo \ {k},
                          cmd |-> LastCommand + 1]
          \/ /\ k \in DOMAIN cards => ~Sendable(k)
             /\ batch' = Rest(batch.todo \ {k})
             /\ UNCHANGED <<editorVars, cardVars, newsVars, commandVars>>
    /\ UNCHANGED <<resolving, group, check, missed>>

(* acceptSentenceGroup: all waiting cards of the sentence in one command *)

InSentence == {k \in DOMAIN cards : Eligible(k)}

\* One baseline, offsets that point at it, no two cards for one issue.
Plannable(S) ==
    /\ \A j, k \in S : cards[j].text = cards[k].text /\ cards[j].hash = cards[k].hash
    /\ \A k \in S : PointsAt(cards[k], cards[k].text)
    /\ \A j, k \in S : j # k => cards[j].issue # cards[k].issue

GroupStart ==
    /\ group = NoGroup
    /\ \E pid \in {cards[k].pid : k \in InSentence} :
          LET S == {k \in InSentence : cards[k].pid = pid}
              k == CHOOSE j \in S : TRUE IN
          /\ Cardinality(S) > 1
          /\ \A j \in DOMAIN cards : cards[j].pid = pid => cards[j].status # "applying"
          /\ IF Plannable(S)
             THEN /\ group' = Command(S, pid, cards[k].hash, cards[k].text,
                                      [i \in {cards[j].issue : j \in S} |->
                                          cards[CHOOSE j \in S : cards[j].issue = i].sug],
                                      FALSE)
                  /\ UNCHANGED cards
             ELSE group' = NoGroup /\ cards' = With(S, "failed")
    /\ UNCHANGED <<editorVars, nextCard, dismissed, applied, newsVars, commandVars,
                   resolving, batch, check, missed>>

\* The snapshot is back: go on with what was captured, or fail all of it.
GroupVerified ==
    /\ group # NoGroup /\ group' = NoGroup
    /\ IF Found(group.pid) /\ group.base = doc
       THEN Send(group)
       ELSE /\ cards' = With(group.cards, "failed")
            /\ UNCHANGED <<editorVars, nextCard, dismissed, applied, newsVars, commandVars>>
    /\ UNCHANGED <<resolving, batch, check, missed>>

-----------------------------------------------------------------------------
(* The editor *)

\* The paragraph is there, as the command expects it.
Located(cmd) == ContentIds => cmd.pid = doc /\ cmd.base = doc
BaseMatches(cmd) == cmd.base = doc
\* Every hunk finds the text it replaces at its offsets.
Fits_Never(cmd) == TRUE                                            \* mutant
Fits(cmd) ==
    \A i \in DOMAIN cmd.fix : doc[i] = "original" /\ Before(cmd.text, i) = Before(doc, i)

\* The answer goes to the caller; that of a socket editor is also emitted as an
\* event, which nobody listens for when it is a success.
Answer(c, r) ==
    /\ result' = [result EXCEPT ![c] = r]
    /\ atHost' = atHost \ {c}
    /\ events' = IF editor = "word" /\ r.status # "SUCCESS" THEN events \cup {c} ELSE events
    /\ UNCHANGED <<cardVars, newsVars, cmds, registry, rpc, pendingVars>>

HostExecutes(c) ==
    /\ UNCHANGED <<editor, extras>>
    /\ LET cmd == cmds[c]
           new == Apply(doc, cmd.fix) IN
       \/ ~Located(cmd) /\ Answer(c, Result("FAILED", {})) /\ UNCHANGED doc
       \/ /\ Located(cmd) /\ ~BaseMatches(cmd)
          /\ Answer(c, Result("STALE_REJECTED", {doc})) /\ UNCHANGED doc
       \/ /\ Located(cmd) /\ BaseMatches(cmd) /\ ~Fits(cmd)
          /\ Answer(c, Result("FAILED", {doc})) /\ UNCHANGED doc
       \/ /\ Located(cmd) /\ BaseMatches(cmd) /\ Fits(cmd)
          /\ doc' = new
          /\ Answer(c, Result(IF ContentIds /\ new # Expected(cmd)
                              THEN "FAILED" ELSE "SUCCESS", {new}))

\* The transaction breaks off: undone, or (Word) left alone because the user
\* typed into it; or the paragraph cannot be read.
HostFails(c) ==
    /\ Extra
    /\ \/ Answer(c, Result("FAILED", {})) /\ UNCHANGED doc
       \/ /\ Located(cmds[c]) /\ BaseMatches(cmds[c]) /\ Fits(cmds[c])
          /\ Answer(c, Result("ROLLED_BACK", {doc})) /\ UNCHANGED doc
       \/ /\ ContentIds /\ Located(cmds[c]) /\ Fits(cmds[c])
          /\ \E i \in Issues, S \in SUBSET DOMAIN cmds[c].fix \ {{}} :
                doc' = [Apply(doc, [j \in S |-> cmds[c].fix[j]]) EXCEPT ![i] = "typed"]
          /\ Answer(c, Result("ROLLBACK_ABORTED", {doc'}))

-----------------------------------------------------------------------------
(* The answer in the dashboard: processReplacementResult *)

\* `result.currentHash || card.paragraphHash`
ToldHash(card, r) == IF r.hash = {} THEN card.hash ELSE CHOOSE h \in r.hash : TRUE

\* The rollback guard on an answer that is not SUCCESS.
StatusAfter(r) ==
    CASE r.status = "ROLLED_BACK" -> "rolled_back"
      [] r.status = "ROLLBACK_ABORTED" -> "rollback_aborted"
      [] OTHER -> "failed"
Settled(card, r) == [card EXCEPT !.status = StatusAfter(r), !.hash = ToldHash(card, r)]

\* planSiblingRebase: a waiting card of the paragraph moves to the text the
\* command left, unless the command or the offsets touch it.
Rebased_TextOnly(card, cmd) ==                                     \* mutant
    IF PointsAt(card, cmd.text) /\ card.issue \notin DOMAIN cmd.fix
    THEN [card EXCEPT !.text = Expected(cmd), !.stale = FALSE,
                      !.before = Before(Expected(cmd), card.issue)]
    ELSE [card EXCEPT !.status = "stale_conflict"]
Rebased(card, cmd) ==
    IF PointsAt(card, cmd.text) /\ card.issue \notin DOMAIN cmd.fix
    THEN [card EXCEPT !.text = Expected(cmd), !.hash = Expected(cmd),
                      !.before = Before(Expected(cmd), card.issue), !.stale = FALSE]
    ELSE [card EXCEPT !.status = "stale_conflict"]

Siblings(cs, cmd) ==
    {k \in DOMAIN cs : cs[k].pid = cmd.pid /\ cs[k].status = "pending"}

AfterSuccess(cmd, r) ==
    LET rest == Without(cards, cmd.cards) IN
    IF r.hash = {Expected(cmd)}
    THEN Changed(rest, Siblings(rest, cmd), LAMBDA c : Rebased(c, cmd))
    ELSE Changed(rest, Siblings(rest, cmd), LAMBDA c : [c EXCEPT !.stale = TRUE])

\* What goes to appliedCards: the card as it is now, and the command.
Accepted(k, c) == [issue |-> cards[k].issue, sug |-> cards[k].sug, cmd |-> c]

\* The text the resolver analyses: the last telemetry of the paragraph, or
\* the card's own text under the hash the editor reported.
Payload(k, cmd, r) ==
    IF \E t \in known : Pid(t) = cmd.pid
    THEN LET t == CHOOSE t \in known : TRUE IN [text |-> t, hash |-> t]
    ELSE [text |-> cards[k].text, hash |-> ToldHash(cards[k], r)]

StartResolver(k, cmd, r) ==
    IF k \in DOMAIN resolving
    THEN UNCHANGED <<cards, resolving>>
    ELSE /\ resolving' = [j \in DOMAIN resolving \cup {k} |->
                            IF j = k THEN Payload(k, cmd, r) ELSE resolving[j]]
         /\ cards' = [cards EXCEPT ![k].status = "stale_refreshing", ![k].stale = TRUE]

Pending(c) == c \in registry

Process(c, r) ==
    LET cmd == cmds[c]
        held == cmd.cards \cap DOMAIN cards IN
    IF ~Pending(c) THEN UNCHANGED <<registry, cards, applied, resolving>>
    ELSE /\ registry' = registry \ {c}
         /\ \/ /\ held = {}
               /\ UNCHANGED <<cards, applied, resolving>>
            \/ /\ held # {} /\ r.status = "STALE_REJECTED" /\ cmd.auto
               /\ \E k \in held : StartResolver(k, cmd, r)
               /\ UNCHANGED applied
            \/ /\ held # {} /\ r.status = "SUCCESS"
               /\ cards' = AfterSuccess(cmd, r)
               /\ applied' = applied \o [n \in 1 .. Cardinality(held) |->
                                             Accepted(InOrder(held)[n], c)]
               /\ UNCHANGED resolving
            \/ /\ held # {} /\ r.status # "SUCCESS"
               /\ ~(r.status = "STALE_REJECTED" /\ cmd.auto)
               /\ cards' = Changed(cards, held, LAMBDA d : Settled(d, r))
               /\ UNCHANGED <<applied, resolving>>

\* The caller's await ends; a batch goes on to its next card.
Return(c, r) ==
    /\ c \in rpc /\ rpc' = rpc \ {c}
    /\ Process(c, r)
    /\ batch' = IF batch.phase = "waiting" /\ batch.cmd = c
                THEN Rest(batch.todo) ELSE batch
    /\ UNCHANGED <<doc, nextCard, dismissed, newsVars, cmds, result,
                   events, group, check, missed>>

RpcReturns(c) ==
    /\ result[c] # NoResult /\ Return(c, result[c])
    /\ UNCHANGED <<editor, extras, atHost>>

\* The backend gives up on Word after 15 s; the command may still run.
RpcTimesOut(c) ==
    /\ editor = "word"
    /\ Return(c, Result("FAILED", {}))
    /\ UNCHANGED <<editor, extras, atHost>>

\* The backend cannot reach the editor: FAILED with the command's base hash.
RpcFails(c) ==
    /\ c \in atHost /\ Extra
    /\ Return(c, Result("FAILED", {cmds[c].base}))
    /\ atHost' = atHost \ {c}

\* The listeners of the guard and of the resolver.
EventArrives(c) ==
    /\ c \in events /\ events' = events \ {c}
    /\ Process(c, result[c])
    /\ UNCHANGED <<editorVars, nextCard, dismissed, newsVars, cmds, atHost, result,
                   rpc, batch, group, check, missed>>

\* resolveStaleConflict after its re-analysis: the card becomes the report's
\* first issue, the others become cards; without issues it is dismissed.
Retargeted(card, i, p) ==
    [card EXCEPT !.issue = i, !.sug = "suggested", !.text = p.text, !.hash = p.hash,
                 !.status = "pending", !.stale = FALSE]

ResolverEnds(k) ==
    LET p == resolving[k] IN
    /\ resolving' = Without(resolving, {k})
    /\ \/ \E S \in SUBSET Originals(p.text) : \E i \in S :
             /\ AddCards(Changed(cards, {k}, LAMBDA c : Retargeted(c, i, p)),
                         [n \in 1 .. Cardinality(S) - 1 |->
                             NewCard(InOrder(S \ {i})[n], "suggested", p.text, p.hash, FALSE)])
             /\ UNCHANGED dismissed
       \/ /\ DropDismissed({k} \cap DOMAIN cards)
          /\ UNCHANGED nextCard
    /\ UNCHANGED <<editorVars, applied, newsVars, commandVars, batch, group, check, missed>>

ResolverFails(k) ==
    /\ Extra
    /\ resolving' = Without(resolving, {k})
    /\ cards' = Changed(cards, {k}, LAMBDA c : [c EXCEPT !.status = "failed", !.stale = FALSE])
    /\ UNCHANGED <<doc, nextCard, dismissed, applied, newsVars, commandVars,
                   batch, group, check, missed>>

-----------------------------------------------------------------------------
(* validateLiveCards, and a reload of the dashboard *)

ToCheck == {k \in DOMAIN cards : cards[k].status # "applying"}

CheckStarts ==
    /\ Extra /\ check = NoCheck /\ ToCheck # {}
    /\ check' = [cards |-> [k \in ToCheck |-> [pid |-> cards[k].pid, hash |-> cards[k].hash]],
                 seen |-> doc]
    /\ UNCHANGED <<doc, cardVars, newsVars, commandVars, resolving, batch, group, missed>>

Confirmed(k) == check.cards[k].pid = Pid(check.seen) /\ check.cards[k].hash = check.seen
Differs(k) == check.cards[k].pid = Pid(check.seen) /\ check.cards[k].hash # check.seen
Absent(k) == check.cards[k].pid # Pid(check.seen)

CheckEnds ==
    LET checked == DOMAIN check.cards
        obsolete == {k \in checked : Absent(k) /\ k \in missed}
        Mark(k, c) == CASE Confirmed(k) -> [c EXCEPT !.stale = FALSE, !.restoring = FALSE]
                        [] OTHER -> [c EXCEPT !.stale = TRUE]
    IN
    /\ check # NoCheck /\ check' = NoCheck
    /\ cards' = Without([k \in DOMAIN cards |-> IF k \in checked THEN Mark(k, cards[k])
                                                ELSE cards[k]], obsolete)
    /\ missed' = (missed \ checked) \cup ({k \in checked : Absent(k)} \ obsolete)
    /\ reanalyse' = reanalyse \cup {check.seen : k \in {j \in checked : Differs(j)}}
    /\ UNCHANGED <<editorVars, nextCard, dismissed, applied, known, commandVars,
                   resolving, batch, group>>

\* The window is reloaded: cards are saved, what awaited an answer is not.
Reload ==
    /\ Extra
    /\ cards' = [k \in DOMAIN cards |-> [cards[k] EXCEPT !.restoring = TRUE, !.stale = TRUE]]
    /\ registry' = {} /\ rpc' = {} /\ events' = {}
    /\ known' = {} /\ reanalyse' = {}
    /\ resolving' = << >> /\ batch' = NoBatch /\ group' = NoGroup /\ check' = NoCheck
    /\ missed' = {}
    /\ UNCHANGED <<doc, nextCard, dismissed, applied, cmds, atHost, result>>

-----------------------------------------------------------------------------

Next ==
    \/ Telemetry \/ ReportTelemetry \/ ReportReanalysis
    \/ UserEdits \/ ChooseSuggestion \/ DismissCard \/ DismissAll \/ ResetQaCards
    \/ LocateFails
    \/ Accept \/ BatchStart \/ BatchVerified \/ BatchNext
    \/ GroupStart \/ GroupVerified
    \/ \E c \in atHost : HostExecutes(c) \/ HostFails(c)
    \/ \E c \in rpc : RpcReturns(c) \/ RpcTimesOut(c) \/ RpcFails(c)
    \/ \E c \in events : EventArrives(c)
    \/ \E k \in DOMAIN resolving : ResolverEnds(k) \/ ResolverFails(k)
    \/ CheckStarts \/ CheckEnds \/ Reload

Spec == Init /\ [][Next]_vars

-----------------------------------------------------------------------------
(* Properties *)

TypeOK ==
    /\ doc \in Texts
    /\ editor \in Editors /\ extras \in 0 .. MaxExtras
    /\ DOMAIN cards \subseteq CardIds
    /\ \A k \in DOMAIN cards : cards[k] \in Cards
    /\ nextCard \in 1 .. MaxCards + 1
    /\ dismissed \subseteq [issue: Issues, sug: Suggestions]
    /\ \A n \in DOMAIN applied :
          applied[n] \in [issue: Issues, sug: Suggestions, cmd: Commands]
    /\ known \subseteq Texts /\ Cardinality(known) <= 1
    /\ reanalyse \subseteq Texts
    /\ LastCommand <= MaxCommands
    /\ {registry, atHost, rpc, events} \subseteq SUBSET (1 .. LastCommand)
    /\ \A c \in Commands : result[c] = NoResult \/ result[c].status \in Outcomes
    /\ DOMAIN resolving \subseteq CardIds
    /\ missed \subseteq CardIds

\* A card that shows a spinner (a restored one is not shown) is waited for: a
\* registered command names it whose caller has yet to be answered, or a
\* re-analysis that began before the command has yet to end (acceptCard registers
\* before it dispatches; the guard, the resolver and the failing group must each
\* take the card out of "applying").
ApplyingIsAwaited ==
    \A k \in DOMAIN cards : Visible(k) /\ cards[k].status = "applying" =>
        \/ \E c \in registry : k \in cmds[c].cards /\ c \in rpc
        \/ k \in DOMAIN resolving

\* A card goes to the history of applied corrections with the words the editor
\* really wrote, if it was sent once, by itself, and still shows its spinner:
\* the card is copied when the answer comes, the command was made when it was
\* sent, and only the guards of the dashboard keep the two the same between.
Written(a) ==
    LET cmd == cmds[a.cmd] IN
    /\ result[a.cmd].status = "SUCCESS"
    /\ a.issue \in DOMAIN cmd.fix /\ cmd.fix[a.issue] = a.sug
SentOnce(c) ==
    /\ Cardinality(cmds[c].cards) = 1
    /\ \A d \in DOMAIN cmds : d # c => cmds[d].cards \cap cmds[c].cards = {}
RecordedAsWritten ==
    [][\A n \in DOMAIN applied' \ DOMAIN applied :
          LET c == applied'[n].cmd IN
          /\ SentOnce(c)
          /\ \A k \in cmds[c].cards : cards[k].status = "applying"
          => Written(applied'[n])]_vars

\* No command ever replaces words the user typed (base hash and hunk checks,
\* although card texts, hashes and offsets come from different moments).
TypedWordsStay ==
    [][UserEdits \/
          \A i \in Issues : doc[i] = "typed" => doc'[i] = "typed"]_vars

\* The paragraph text a card carries has the card's original in it, whatever
\* reports, rebases, rejections and reloads it went through; acceptCard would
\* otherwise fall back to hunks relative to the segment and aim them at the
\* paragraph's first characters.
CardTextHasItsIssue ==
    \A k \in DOMAIN cards : cards[k].text[cards[k].issue] = "original"

\* When nobody but the dashboard changed the document, the editor took every
\* command, the answers were handled in that order and none is under way, every
\* card that offers itself for acceptance describes the paragraph as it is, if it
\* is under the paragraph's present id or the one the last command named: the
\* rebase after a success keeps the siblings current.
Quiet == registry = {} /\ atHost = {} /\ rpc = {} /\ group = NoGroup
AllTaken ==
    /\ extras = 0
    /\ \A c \in DOMAIN cmds : \E n \in DOMAIN applied : applied[n].cmd = c
    /\ \A m, n \in DOMAIN applied : m < n => applied[m].cmd <= applied[n].cmd
Named(k) ==
    \/ Found(cards[k].pid)
    \/ LastCommand > 0 /\ cards[k].pid = cmds[LastCommand].pid
OfferedIsCurrent ==
    Quiet /\ AllTaken => \A k \in DOMAIN cards :
        Acceptable(k) /\ cards[k].status = "pending" /\ Named(k) =>
            cards[k].text = doc /\ cards[k].hash = doc

\* What a card shows is so: its spinner, its text and its offer.
CardsAreTrue == TypeOK /\ ApplyingIsAwaited /\ CardTextHasItsIssue /\ OfferedIsCurrent
=============================================================================
