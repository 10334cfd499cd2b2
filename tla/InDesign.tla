------------------------------ MODULE InDesign ------------------------------
(***************************************************************************)
(* The InDesign side of SmartLinter (plugins/indesign/extendscript): the   *)
(* daemon with its socket and its observer of the active paragraph, and    *)
(* the replacer that finds, reads and changes paragraphs when the          *)
(* dashboard calls it through COM (indesign_com.rs).                       *)
(*                                                                         *)
(* InDesign runs one script at a time and the user waits for it, so every  *)
(* entry point is one step.  The document is one story of paragraphs and   *)
(* one inset, a paragraph of a table cell or a footnote that is addressed  *)
(* by its structure.  Paragraphs have no identity: an id holds an index.   *)
(* The bridge server and InDesign's undo of a failed script are external.  *)
(***************************************************************************)
EXTENDS Integers, Sequences, FiniteSets

Q == INSTANCE SequencesExt

CONSTANTS
    Texts,      \* contents of a paragraph
    Normal,     \* what the hash sees of a text: equal for texts that differ in spaces
    Suggested,  \* what the dashboard proposes to make of a text
    Width,      \* how far Paragraph.index is from one paragraph to the next
    MaxParas,   \* bound: paragraphs of the story
    MaxEvents   \* bound: edits, commands, lost answers and changes of the server

ASSUME TextsAssumption == /\ Texts \cap {"none", "torn"} = {}
                          /\ Normal \in [Texts -> Texts]
                          /\ Suggested \in [Texts -> Texts]
ASSUME BoundsAssumption == {Width, MaxParas, MaxEvents} \subseteq Nat

None == "none"
Id(k, i) == [kind |-> k, index |-> i]
Ids == {Id("story", i) : i \in 0 .. Width * (MaxParas - 1)} \cup {Id("inset", 0), Id("other", 0)}

\* A command is made for the text `old`; its hunks turn it into `new`.
Commands == {[id |-> i, base |-> b, old |-> t, new |-> Suggested[t]] :
                i \in Ids, t \in Texts, b \in {Normal[u] : u \in Texts} \cup {None}}
CommandOf(i, t, based) == [id |-> i, base |-> IF based THEN Normal[t] ELSE None,
                           old |-> t, new |-> Suggested[t]]

VARIABLES
    story,   \* the paragraphs of the story
    inset,   \* the paragraph of the cell or footnote, or None when it is gone
    locked,  \* the frame or its layer is locked
    cursor,  \* the place that is selected, NoPlace without a selection
    net,     \* socket and observer of the daemon, the server's session, and
             \* the last paragraph the server accepted
    reply,   \* the last call through COM with its answer
    events   \* how much of MaxEvents has been used

doc == <<story, inset, locked>>
vars == <<story, inset, locked, cursor, net, reply, events>>

\* 0 is the inset, n the n-th paragraph of the story.
NoPlace == -1
Places == (IF inset = None THEN {} ELSE {0}) \cup (1 .. Len(story))
TextAt(p) == IF p = 0 THEN inset ELSE story[p]

NoReply == [op |-> None]
NoParagraph == [id |-> Id(None, 0), text |-> None]

Init ==
    /\ story \in {s \in Q!BoundedSeq(Texts, MaxParas) : s # << >>}
    /\ inset \in Texts
    /\ locked = FALSE
    /\ cursor = 1
    /\ net = [status |-> "DISCONNECTED", server |-> "free",
              sent |-> NoParagraph, heard |-> NoParagraph]
    /\ reply = NoReply
    /\ events = 0

\* One more event of those that are bounded.
Event == events < MaxEvents /\ events' = events + 1

----------------------------------------------------------------------------
(* Finding a paragraph                                                     *)

Matches(base) == {p \in Places \ {0} : Normal[story[p]] = base}

\* The slow path scans the story for the hash; a duplicate is not chosen.
ScanForHash_First(base) ==                                            \* mutant
    IF Matches(base) = {} THEN NoPlace ELSE CHOOSE p \in Matches(base) : TRUE
ScanForHash(base) ==
    IF Cardinality(Matches(base)) = 1 THEN CHOOSE p \in Matches(base) : TRUE ELSE NoPlace

\* Where an id points: to an index of the story, or through the structure around it to
\* the inset.
Hint(id) == IF id.kind = "inset" THEN 0 ELSE id.index + 1

\* Trusted only when the hash agrees or the command has none.
FindParagraphById(id, base) ==
    IF Hint(id) \in Places /\ base \in {None, Normal[TextAt(Hint(id))]} THEN Hint(id)
    ELSE IF id.kind = "inset" \/ base = None THEN NoPlace
    ELSE ScanForHash(base)

\* An id that names no place leaves the active paragraph.
Target(cmd) == IF cmd.id.kind = "other" THEN cursor ELSE FindParagraphById(cmd.id, cmd.base)

----------------------------------------------------------------------------
(* Replacing                                                               *)

\* The hunks' old texts stand where the hunks say: always so in the text they were
\* made for, possibly in another one.
MayFit(t, cmd) == IF t = cmd.old THEN {TRUE} ELSE BOOLEAN

\* The hunks are applied from the last one; any of them can fail.
Torn == "torn"
ApplyHunks(cmd) == {cmd.new, Torn}

\* The script runs as one undo step: an error anywhere takes all of it back.
RunInTransaction_NoUndo(t, cmd) ==                                    \* mutant
    {<<IF u = Torn THEN "ROLLED_BACK" ELSE "SUCCESS", u>> : u \in ApplyHunks(cmd)}
RunInTransaction(t, cmd) ==
    {IF u = Torn THEN <<"ROLLED_BACK", t>> ELSE <<"SUCCESS", u>> : u \in ApplyHunks(cmd)}

\* The answers `execute` can give, each with the text it leaves.
Answers_HashUnchecked(cmd, p) ==                                      \* mutant
    IF p = NoPlace \/ locked THEN {<<"FAILED", None>>}
    ELSE RunInTransaction(TextAt(p), cmd)
Answers(cmd, p) ==
    IF p = NoPlace \/ locked THEN {<<"FAILED", None>>}
    ELSE IF cmd.base \notin {None, Normal[TextAt(p)]} THEN {<<"STALE_REJECTED", TextAt(p)>>}
    ELSE UNION {IF fit THEN RunInTransaction(TextAt(p), cmd) ELSE {<<"FAILED", TextAt(p)>>} :
                    fit \in MayFit(TextAt(p), cmd)}

Leave(p, t) ==
    IF p = 0 THEN inset' = t /\ UNCHANGED story
    ELSE story' = [story EXCEPT ![p] = t] /\ UNCHANGED inset

Answered(op, cmd, s, p) == reply' = [op |-> op, cmd |-> cmd, status |-> s, place |-> p]

\* The server has no route for the result the replacer posts, so the socket's status is
\* ERROR afterwards whatever was done.
DispatchResult == net' = [net EXCEPT !.status = "ERROR"]

\* The dashboard's call may also be refused because InDesign is busy, or its answer may
\* be lost after the script ran; either way the dashboard gets an error.
Replace(cmd, com) ==
    /\ Event
    /\ LET p == Target(cmd) IN
       \E a \in Answers(cmd, p) :
           IF com = "busy" THEN /\ Answered("replace", cmd, "error", NoPlace)
                                /\ UNCHANGED <<story, inset, net>>
           ELSE /\ IF a[2] = None THEN UNCHANGED <<story, inset>> ELSE Leave(p, a[2])
                /\ Answered("replace", cmd, IF com = "lost" THEN "error" ELSE a[1], p)
                /\ DispatchResult
    /\ UNCHANGED <<locked, cursor>>

----------------------------------------------------------------------------
(* Reading and showing                                                     *)

\* Shows a paragraph: the selection moves, the document stays.  Only the story's
\* paragraphs can be located.
Locate(cmd) ==
    /\ Event
    /\ IF cmd.id.kind # "story" THEN Answered("locate", cmd, "ERROR", NoPlace) /\ UNCHANGED cursor
       ELSE LET p == FindParagraphById(cmd.id, cmd.base) IN
            IF p # NoPlace
            THEN \E ok \in BOOLEAN :
                    /\ Answered("locate", cmd, IF ok THEN "FOUND" ELSE "SELECTION_FAILED", p)
                    /\ cursor' = IF ok THEN p ELSE cursor
            ELSE /\ Answered("locate", cmd,
                        IF cmd.base = None THEN "ERROR"
                        ELSE IF Matches(cmd.base) = {} THEN "NOT_FOUND" ELSE "AMBIGUOUS", NoPlace)
                 /\ UNCHANGED cursor
    /\ UNCHANGED <<story, inset, locked, net>>

\* Reads the paragraph at the index, whatever it holds; the hash only serves when there
\* is none.
Snapshot(cmd) ==
    /\ Event
    /\ LET p == IF Hint(cmd.id) \in Places THEN Hint(cmd.id) ELSE ScanForHash(cmd.base)
       IN  Answered("snapshot", cmd,
               IF cmd.id.kind # "story" THEN "ERROR"
               ELSE IF p # NoPlace THEN "FOUND"
               ELSE IF cmd.base = None THEN "ERROR"
               ELSE IF Matches(cmd.base) = {} THEN "NOT_FOUND" ELSE "AMBIGUOUS",
               IF cmd.id.kind = "story" THEN p ELSE NoPlace)
    /\ UNCHANGED <<story, inset, locked, cursor, net>>

\* A batch of reads has no hashes.
Snapshots(id) ==
    /\ Event
    /\ LET p == Hint(id) IN
       Answered("snapshots", CommandOf(id, CHOOSE t \in Texts : TRUE, FALSE),
           IF id.kind # "story" THEN "ERROR" ELSE IF p \in Places THEN "FOUND" ELSE "NOT_FOUND",
           IF id.kind = "story" /\ p \in Places THEN p ELSE NoPlace)
    /\ UNCHANGED <<story, inset, locked, cursor, net>>

----------------------------------------------------------------------------
(* The daemon: every operator gives the states the network can be left in  *)

\* One request with our session: taken by the server when the session is the current
\* one; `lost` when its answer does not come back.
Request(n, lost) ==
    [n EXCEPT !.status = IF n.server = "ours" /\ ~lost THEN "CONNECTED" ELSE "ERROR"]
Losses == IF events < MaxEvents THEN BOOLEAN ELSE {FALSE}

\* A handshake of the same editor replaces its session; a lost answer leaves the
\* plugin with the token of the session that was replaced.
Handshake(n) ==
    IF n.server \in {"down", "other"} THEN {[n EXCEPT !.status = "ERROR"]}
    ELSE {[n EXCEPT !.status = IF lost THEN "ERROR" ELSE "CONNECTED",
                    !.server = IF lost THEN "stale" ELSE "ours"] : lost \in Losses}

\* Throttled to one attempt in three seconds.
AttemptConnection(n, due) ==
    IF n.status = "CONNECTED" \/ ~due THEN {n} ELSE Handshake(n)

ActiveParagraph == [id |-> IF cursor = 0 THEN Id("story", 0) ELSE Id("story", Width * (cursor - 1)),
                    text |-> TextAt(cursor)]

\* The observer remembers the paragraph before it is sent, and whether or not it is.
CaptureActiveParagraph(n) ==
    IF \/ cursor = NoPlace
       \/ n.sent.id = ActiveParagraph.id /\ Normal[n.sent.text] = Normal[ActiveParagraph.text]
    THEN {n}
    ELSE LET m == [n EXCEPT !.sent = ActiveParagraph] IN
         IF n.status # "CONNECTED" THEN {m}
         ELSE {[Request(m, lost) EXCEPT !.heard = IF n.server = "ours" THEN m.sent ELSE @] :
                   lost \in Losses}

\* Every five seconds while connected; a failure reconnects at once.
Heartbeat_NoReconnect(n, due) ==                                      \* mutant
    IF n.status # "CONNECTED" \/ ~due THEN {n} ELSE {n}
Heartbeat(n, due) ==
    IF n.status # "CONNECTED" \/ ~due THEN {n}
    ELSE UNION {IF Request(n, lost).status = "CONNECTED" THEN {n} ELSE Handshake(n) : lost \in Losses}

\* Losses are charged to the bound of events.
Network(n) == /\ net' = n
              /\ events' = IF n.status = "ERROR" /\ events < MaxEvents THEN events + 1 ELSE events

\* Idle task, once a second.
OnIdleTick(connectDue, beatDue) ==
    /\ \E a \in AttemptConnection(net, connectDue) :
       \E b \in CaptureActiveParagraph(a) :
       \E c \in Heartbeat(b, beatDue) : Network(c)
    /\ reply' = NoReply
    /\ UNCHANGED <<story, inset, locked, cursor>>

\* Selection changed, attribute changed, application activated.
OnEvent(connectDue) ==
    /\ \E a \in AttemptConnection(net, connectDue) :
       \E b \in CaptureActiveParagraph(a) : Network(b)
    /\ reply' = NoReply
    /\ UNCHANGED <<story, inset, locked, cursor>>

\* The dashboard injects the daemon again: the old one stops, the new one starts with
\* nothing remembered and connects.
Restart ==
    /\ Event
    /\ \E n \in Handshake([net EXCEPT !.status = "DISCONNECTED", !.sent = NoParagraph,
                                      !.server = IF @ = "ours" THEN "stale" ELSE @]) : net' = n
    /\ reply' = NoReply
    /\ UNCHANGED <<story, inset, locked, cursor>>

----------------------------------------------------------------------------
(* The user and the server                                                 *)

Edit(p, t) ==
    /\ p \in Places
    /\ Leave(p, t)
    /\ UNCHANGED <<locked, cursor>>

InsertAbove(p, t) ==
    /\ Len(story) < MaxParas /\ p \in 1 .. Len(story)
    /\ story' = Q!InsertAt(story, p, t)
    /\ cursor' = p
    /\ UNCHANGED <<inset, locked>>

Delete(p) ==
    /\ IF p = 0 THEN inset # None /\ inset' = None /\ UNCHANGED story
       ELSE Len(story) > 1 /\ p <= Len(story) /\ story' = Q!RemoveAt(story, p) /\ UNCHANGED inset
    /\ cursor' = NoPlace
    /\ UNCHANGED locked

Select(p) ==
    /\ p \in Places \cup {NoPlace}
    /\ cursor' = p
    /\ UNCHANGED doc

ToggleLock == locked' = ~locked /\ UNCHANGED <<story, inset, cursor>>

User ==
    /\ Event
    /\ \/ \E p \in 0 .. MaxParas, t \in Texts : Edit(p, t) \/ InsertAbove(p, t)
       \/ \E p \in 0 .. MaxParas : Delete(p)
       \/ \E p \in NoPlace .. MaxParas : Select(p)
       \/ ToggleLock
    /\ reply' = NoReply
    /\ UNCHANGED net

\* It stops, starts, forgets a silent session, or takes the other editor.
Server(s) ==
    /\ Event
    /\ s # net.server
    /\ net' = [net EXCEPT !.server = s]
    /\ reply' = NoReply
    /\ UNCHANGED <<story, inset, locked, cursor>>

Next ==
    \/ \E i \in Ids, t \in Texts, based \in BOOLEAN :
          \/ \E com \in {"done", "busy", "lost"} : Replace(CommandOf(i, t, based), com)
          \/ Locate(CommandOf(i, t, based))
          \/ Snapshot(CommandOf(i, t, based))
    \/ \E i \in Ids : Snapshots(i)
    \/ \E c, b \in BOOLEAN : OnIdleTick(c, b)
    \/ \E c \in BOOLEAN : OnEvent(c)
    \/ Restart
    \/ User
    \/ \E s \in {"down", "free", "other"} : Server(s)

\* The idle task keeps running, and the times between attempts and heartbeats pass.
Fairness == WF_net(OnIdleTick(TRUE, TRUE))

Spec == Init /\ [][Next]_vars
FairSpec == Spec /\ Fairness

----------------------------------------------------------------------------
(* Properties                                                              *)

TypeOK ==
    /\ story \in Q!BoundedSeq(Texts, MaxParas) \ {<< >>}
    /\ inset \in Texts \cup {None}
    /\ locked \in BOOLEAN
    /\ cursor \in Places \cup {NoPlace}
    /\ net \in [status: {"DISCONNECTED", "CONNECTED", "ERROR"},
                server: {"down", "free", "ours", "stale", "other"},
                sent: [id: Ids, text: Texts] \cup {NoParagraph},
                heard: [id: Ids, text: Texts] \cup {NoParagraph}]
    /\ reply = NoReply \/
       reply \in [op: {"replace", "locate", "snapshot", "snapshots"}, cmd: Commands,
                  status: {"SUCCESS", "FAILED", "ROLLED_BACK", "STALE_REJECTED", "FOUND",
                           "NOT_FOUND", "AMBIGUOUS", "SELECTION_FAILED", "ERROR", "error"},
                  place: -1 .. MaxParas]
    /\ events \in 0 .. MaxEvents

\* The dashboard changes a document only by a command it sent: at most one paragraph
\* of it, never a locked one, and with a base hash only a paragraph that still has it,
\* although ids are positions and the user inserts and deletes above them
\* (atomic_replacer.jsx findParagraphById, execute).
OnlyTheAsked ==
    [][reply' # NoReply /\ doc' # doc =>
          /\ reply'.op = "replace" /\ ~locked
          /\ Places' = Places
          /\ \E p \in Places :
                /\ \A q \in Places \ {p} : TextAt(q)' = TextAt(q)
                /\ reply'.cmd.base \in {None, Normal[TextAt(p)]}]_vars

\* What the answer says happened is what happened: SUCCESS leaves the proposed text,
\* every refusal and every rollback leaves the document as it was, a failure between
\* two hunks included (transaction_runner.jsx runInTransaction).
AnswerIsTrue ==
    [][reply' # NoReply /\ reply'.op = "replace" =>
          IF reply'.status = "SUCCESS"
          THEN \E p \in Places : p = reply'.place /\ TextAt(p)' = reply'.cmd.new
          ELSE reply'.status # "error" => doc' = doc]_vars

\* With two paragraphs of the same content and an id that points at neither, nothing is
\* changed or shown: the replacer does not guess (scanStoryForHashMatches).
NoGuess ==
    [][reply' # NoReply /\ reply'.op \in {"replace", "locate"} =>
          LET cmd == reply'.cmd
              twins == {p \in Places \ {0} : Normal[story[p]] = cmd.base}
          IN  cmd.id.kind = "story" /\ Cardinality(twins) > 1 /\ cmd.id.index + 1 \notin twins =>
              doc' = doc /\ cursor' = cursor]_vars

\* What the server is told is the active paragraph as it is at that moment, never one
\* remembered from before an edit (text_observer.jsx captureActiveParagraph).
HeardIsActive == [][net'.heard # net.heard => net'.heard = ActiveParagraph]_vars

\* What the dashboard learns, by answers and by telemetry, is so.
ReportsAreTrue == AnswerIsTrue /\ HeardIsActive

\* Once the user and the server come to rest the daemon gets back to a session the
\* server knows, unless the server is gone or with the other editor: lost answers,
\* server restarts, sessions dropped in silence and the errors the replacer leaves
\* behind are all repaired by the idle task (smartlinter_daemon.jsx onIdleTick).
Reconnects ==
    <>[](net.server \in {"down", "other"} \/ (net.server = "ours" /\ net.status = "CONNECTED"))
=============================================================================
