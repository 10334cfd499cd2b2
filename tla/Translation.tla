---------------------------- MODULE Translation ----------------------------
(***************************************************************************)
(* Translation mode: the session of source paragraphs and targets in the   *)
(* dashboard (translationSessionStore, XLIFF import), the scan of the      *)
(* document in the editor, and the generation of a translated copy by Word *)
(* or InDesign.                                                            *)
(*                                                                         *)
(* A paragraph is one sentence here (DiffEngine has the splitting) without *)
(* formatting, and a text stands for its hash.  Segments that agree in     *)
(* every field count once.  The user, the document and the CAT tool that   *)
(* writes the imported file are external; Session has the calls.           *)
(***************************************************************************)
EXTENDS Integers, Sequences, FiniteSets

Q == INSTANCE SequencesExt

CONSTANTS
    Sources,      \* contents of a source paragraph
    Drafts,       \* translations
    Memory,       \* the exact translation memory: a function from some sources
    Hosts,        \* the editors to consider, of "Word" and "InDesign"
    MaxParas,     \* bound: paragraphs of the document
    MaxScans,     \* bound: scans
    MaxGenerations, \* bound: generations
    MaxEvents     \* bound: changes of the document, telemetry, edits of a target, imports,
                  \* restarts, mode switches and calls that fail

ASSUME TextAssumption == Sources \cap Drafts = {} /\ {"", "mixed"} \cap (Sources \cup Drafts) = {}
ASSUME MemoryAssumption == DOMAIN Memory \subseteq Sources
                           /\ \A s \in DOMAIN Memory : Memory[s] \in Drafts
ASSUME HostAssumption == Hosts \subseteq {"Word", "InDesign"}
ASSUME BoundsAssumption ==
    {MaxParas, MaxScans, MaxGenerations, MaxEvents} \subseteq Nat

VARIABLES
    host,      \* the editor in use
    doc,       \* the texts of the paragraphs of its document
    mode,      \* isTranslationModeActive
    segments,  \* the segments of the session
    scan,      \* isScanning, scanError and scanRequestToken
    asks,      \* calls of enumerateDocumentParagraphs that are not settled
    dialog,    \* the open dialog of the header: the conflicts of an import or the
               \* confirmation of a generation
    active,    \* activeDocumentGeneration: its request, 0 for none, and cancelRequested
    jobs,      \* the generations in the editor
    used       \* how many events there were

session == <<mode, segments, scan, asks, dialog, active>>
vars == <<host, doc, mode, segments, scan, asks, dialog, active, jobs, used>>

NoDialog == [kind |-> "none", plans |-> {}, auto |-> {}, conflicts |-> {}]
NoScan == [running |-> FALSE, error |-> FALSE, token |-> 0]
NoActive == [request |-> 0, cancelled |-> FALSE]

Init ==
    /\ host \in Hosts
    /\ doc \in Q!BoundedSeq(Sources, MaxParas) \ {<< >>}
    /\ mode = TRUE
    /\ segments = {}
    /\ scan = NoScan
    /\ asks = {}
    /\ dialog = NoDialog
    /\ active = NoActive
    /\ jobs = << >>
    /\ used = 0

Event == used < MaxEvents /\ used' = used + 1

(***************************************************************************)
(* Paragraphs and segments.                                                *)
(***************************************************************************)

\* The identifiers of paragraph i in a scan: Word's have the position and the
\* hash, InDesign's the position.
ScannedId(i, text) == IF host = "Word" THEN <<"body", i, text>> ELSE <<"at", i>>

\* The identifier in telemetry: in Word the hash alone.
LegacyId(text) == <<"hash", text>>
TelemetryId(i) == IF host = "Word" THEN LegacyId(doc[i]) ELSE ScannedId(i, doc[i])

\* What the scan of an editor reports of a document.
Enumerated(paras) ==
    {[id |-> ScannedId(i, paras[i]), text |-> paras[i], order |-> i] : i \in DOMAIN paras}

\* The segment of a new paragraph; the memory suggests its target.
CreateSegments(p) ==
    LET known == p.text \in DOMAIN Memory
    IN  [id |-> p.id, text |-> p.text, order |-> p.order, edited |-> FALSE,
         target |-> IF known THEN Memory[p.text] ELSE "",
         origin |-> IF known THEN "tm-exact" ELSE "empty",
         status |-> IF known THEN "suggested" ELSE "untranslated"]

Invalid(group) == {[s EXCEPT !.status = "needs-validation"] : s \in group}
GroupOf(id) == {s \in segments : s.id = id}
NeedsValidation == {s \in segments : s.status = "needs-validation"}

\* upsertParagraphSegments.
Revalidated(s, new) ==
    [new EXCEPT !.target = s.target, !.origin = s.origin, !.edited = s.edited,
                !.status = IF s.edited THEN "draft"
                           ELSE IF s.origin = "tm-exact" THEN "suggested" ELSE "untranslated"]
UpsertParagraphSegments(p) ==
    LET current == GroupOf(p.id) \ NeedsValidation
        group == GroupOf(p.id)
        same == {s \in group : s.text = p.text}
        new == CreateSegments(p)
    IN  IF current # {} /\ \A s \in current : s.text = p.text
        THEN segments
        ELSE (segments \ group) \cup Invalid(group \ same)
             \cup {IF s.status = "needs-validation" THEN Revalidated(s, new) ELSE s : s \in same}
             \cup (IF same = {} THEN {new} ELSE {})

\* Which scanned paragraphs are known: an identifier that is found decides; a
\* paragraph known from telemetry alone is found by its hash when that is unique.
Found(scanned) == {p \in scanned : GroupOf(p.id) # {}}
Unchanged(p) == \A s \in GroupOf(p.id) : s.text = p.text
Promoted(scanned) ==
    {p \in scanned \ Found(scanned) :
        /\ GroupOf(LegacyId(p.text)) # {}
        /\ \A q \in scanned \ Found(scanned) : q.text = p.text => q = p}
\* The segment of a paragraph where the scan found it.
Moved(s, p) == [s EXCEPT !.id = p.id, !.order = p.order]
\* mutant: a paragraph the scan no longer finds takes its targets with it
MergeScannedParagraphs_Prunes(scanned) ==
    {s \in UNION {GroupOf(p.id) : p \in Found(scanned)} : s.edited}
    \cup {CreateSegments(p) : p \in scanned}
\* mergeScannedParagraphs: a paragraph whose text is the known one keeps its
\* segments, one with another text gets new ones beside them, and one known by
\* its hash alone hands them to its identifier; what is left of a paragraph
\* that the user worked on stays, to be validated.
Stayed(scanned) ==
    UNION {{Moved(s, p) : s \in GroupOf(p.id)} : p \in {q \in Found(scanned) : Unchanged(q)}}
Rewritten(scanned) ==
    UNION {Invalid(GroupOf(p.id)) \cup {CreateSegments(p)} :
              p \in {q \in Found(scanned) : ~Unchanged(q)}}
Identified(scanned) ==
    UNION {{Moved(s, p) : s \in GroupOf(LegacyId(p.text))} : p \in Promoted(scanned)}
Added(scanned) == {CreateSegments(p) : p \in scanned \ (Found(scanned) \cup Promoted(scanned))}
Orphans(scanned) ==
    LET matched == {p.id : p \in Found(scanned)} \cup {LegacyId(p.text) : p \in Promoted(scanned)}
        left == {s \in segments : s.id \notin matched}
    IN  {s \in left : \E e \in left : e.id = s.id /\ e.edited}
MergeScannedParagraphs(scanned) ==
    Stayed(scanned) \cup Rewritten(scanned) \cup Identified(scanned) \cup Added(scanned)
    \cup Invalid(Orphans(scanned))

\* buildParagraphTargetText: what a segment puts into the document.
TargetText(s) == IF s.status = "untranslated" THEN s.text ELSE s.target

\* The plans of prepareDocumentGeneration, one for each identifier: the texts of
\* its segments in a row, `first` deciding the place and the expected hash.  A
\* segment of an earlier text comes in only when an import has revived it, and
\* which of the two is first is left open.
Plan(first, members) ==
    [id |-> first.id, order |-> first.order, text |-> first.text,
     target |-> IF members = {first} THEN TargetText(first) ELSE "mixed"]
PlanSets(group) ==
    LET ids == {s.id : s \in group}
        of == [id \in ids |-> {s \in group : s.id = id}]
        planned == {id \in ids : \E s \in of[id] : TargetText(s) # s.text}
    IN  {{Plan(f[id], of[id]) : id \in {i \in planned : f[i].order # 0}} :
            f \in {g \in [ids -> group] : \A id \in ids : g[id].id = id}}

(***************************************************************************)
(* XLIFF.                                                                  *)
(***************************************************************************)

\* The units of a file: targets that a CAT tool gave to segments it was sent.
Files == {{[id |-> s.id, text |-> s.text, target |-> d] : s \in group} :
             group \in SUBSET segments \ {{}}, d \in Drafts}

\* analyzeXliffImport: a unit whose segment is still there is applied, or is a
\* conflict when the user has another text there.
Conflicting(units, group) ==
    {u \in units : \E s \in group : /\ s.id = u.id /\ s.text = u.text
                                    /\ s.edited /\ s.target # u.target}
Applicable(units, group) ==
    {u \in units : \E s \in group : s.id = u.id /\ s.text = u.text} \ Conflicting(units, group)

\* applyXliffImport.
ApplyXliffImport(units, group) ==
    {IF \E u \in units : u.id = s.id /\ u.text = s.text
     THEN [s EXCEPT !.target = (CHOOSE u \in units : u.id = s.id /\ u.text = s.text).target,
                    !.status = "draft", !.origin = "external-cat", !.edited = FALSE]
     ELSE s : s \in group}

(***************************************************************************)
(* The session.  An async operation continues in the turn that settles     *)
(* what it awaits, so what prepare and import do after their scan is part  *)
(* of the step that ends it.                                               *)
(***************************************************************************)

SetTranslationMode == Event /\ mode' = ~mode /\ UNCHANGED <<host, doc, segments, scan, asks, dialog, active, jobs>>

\* A paragraph is reported.
Telemetry(i) ==
    /\ Event
    /\ mode
    /\ segments' = UpsertParagraphSegments([id |-> TelemetryId(i), text |-> doc[i], order |-> 0])
    /\ UNCHANGED <<host, doc, mode, scan, asks, dialog, active, jobs>>

UpdateSegmentTarget(s, d) ==
    /\ Event
    /\ dialog = NoDialog
    /\ segments' = (segments \ {s}) \cup {[s EXCEPT !.target = d, !.edited = TRUE, !.status = "draft"]}
    /\ UNCHANGED <<host, doc, mode, scan, asks, dialog, active, jobs>>

\* What follows the scan of `ask`, when the session has become `group`.
AfterScan(ask, group, error) ==
    CASE ask.by = "generate" /\ ~error /\ {s \in group : s.status = "needs-validation"} = {} ->
            /\ segments' = group
            /\ \E plans \in PlanSets(group) :
                   dialog' = [NoDialog EXCEPT !.kind = "generate", !.plans = plans]
      [] ask.by = "import" /\ ~error /\ Conflicting(ask.units, group) = {} ->
            /\ segments' = ApplyXliffImport(Applicable(ask.units, group), group)
            /\ UNCHANGED dialog
      [] ask.by = "import" /\ ~error /\ Conflicting(ask.units, group) # {} ->
            /\ segments' = group
            /\ dialog' = [NoDialog EXCEPT !.kind = "conflicts", !.auto = Applicable(ask.units, group),
                                          !.conflicts = Conflicting(ask.units, group)]
      [] OTHER -> segments' = group /\ UNCHANGED dialog

\* scanFullDocument, from its button, prepareDocumentGeneration or importXliff.
\* Outside translation mode it returns at once and its caller goes on.
ScanFullDocument(by, units) ==
    LET ask == [token |-> scan.token + 1, by |-> by, units |-> units, answer |-> "none", paras |-> {}]
    IN  IF mode
        THEN /\ scan.token < MaxScans
             /\ scan' = [running |-> TRUE, error |-> FALSE, token |-> scan.token + 1]
             /\ asks' = asks \cup {ask}
             /\ UNCHANGED <<segments, dialog>>
        ELSE UNCHANGED <<scan, asks>> /\ AfterScan(ask, segments, scan.error)

\* A button of the header; a dialog covers them.
Idle == ~scan.running /\ dialog = NoDialog
ScanButton == Idle /\ mode /\ ScanFullDocument("user", {}) /\ UNCHANGED <<host, doc, mode, active, jobs, used>>
PrepareDocumentGeneration ==
    /\ Idle
    /\ segments # {}
    /\ ScanFullDocument("generate", {})
    /\ UNCHANGED <<host, doc, mode, active, jobs, used>>

\* With an editor connected the document is scanned first.
ImportXliff(units, connected) ==
    /\ Event
    /\ Idle
    /\ IF connected THEN ScanFullDocument("import", units)
       ELSE /\ AfterScan([by |-> "import", units |-> units], segments, FALSE)
            /\ UNCHANGED <<scan, asks>>
    /\ UNCHANGED <<host, doc, mode, active, jobs>>

\* The user takes the incoming text of some conflicts, or closes the dialog.
\* What was found applicable when it opened is applied to the session of now.
ResolveConflicts(chosen) ==
    /\ dialog.kind = "conflicts"
    /\ segments' = ApplyXliffImport(dialog.auto \cup chosen, segments)
    /\ dialog' = NoDialog
    /\ UNCHANGED <<host, doc, mode, scan, asks, active, jobs, used>>

\* enumerateAllDocumentParagraphs in the editor, at its moment.
Enumerate(ask) ==
    /\ ask.answer = "none"
    /\ \E ok \in BOOLEAN :
         asks' = (asks \ {ask}) \cup {[ask EXCEPT !.answer = IF ok THEN "paragraphs" ELSE "error",
                                                  !.paras = IF ok THEN Enumerated(doc) ELSE {}]}
    /\ UNCHANGED <<host, doc, mode, segments, scan, dialog, active, jobs, used>>

\* An answer counts if its scan is the latest.
Heard(ask) == ask.token = scan.token

\* The answer of the editor.
ScanAnswered(ask) ==
    /\ ask.answer # "none"
    /\ asks' = asks \ {ask}
    /\ IF Heard(ask)
       THEN LET error == ask.answer = "error"
            IN  /\ scan' = [scan EXCEPT !.running = FALSE, !.error = error]
                /\ AfterScan(ask, IF error THEN segments ELSE MergeScannedParagraphs(ask.paras), error)
       ELSE scan' = scan /\ AfterScan(ask, segments, scan.error)
    /\ UNCHANGED <<host, doc, mode, active, jobs, used>>

\* mutant: the scan that timed out stays the running one
ScanTimeout_Silent(ask) ==
    /\ asks' = asks \ {ask}
    /\ UNCHANGED <<host, doc, mode, segments, scan, dialog, active, jobs, used>>
\* Ten seconds without an answer.
ScanTimeout(ask) ==
    /\ asks' = asks \ {ask}
    /\ scan' = IF Heard(ask) THEN [scan EXCEPT !.running = FALSE, !.error = TRUE] ELSE scan
    /\ AfterScan(ask, segments, scan'.error)
    /\ UNCHANGED <<host, doc, mode, active, jobs, used>>
CancelScan ==
    /\ scan.running
    /\ scan.token < MaxScans
    /\ scan' = [running |-> FALSE, error |-> FALSE, token |-> scan.token + 1]
    /\ UNCHANGED <<host, doc, mode, segments, asks, dialog, active, jobs, used>>

\* The dashboard is restarted: what is stored comes back, to be validated.
Restart ==
    /\ Event
    /\ segments' = Invalid(segments)
    /\ scan' = NoScan
    /\ asks' = {}
    /\ dialog' = NoDialog
    /\ active' = NoActive
    /\ jobs' = [n \in DOMAIN jobs |-> [jobs[n] EXCEPT !.heard = FALSE]]
    /\ UNCHANGED <<host, doc, mode>>

(***************************************************************************)
(* The generation of a translated copy.                                    *)
(***************************************************************************)

\* The user confirms, or closes the dialog.  With InDesign no call is made when
\* the user closes the dialog for the destination.
NewJob(plans) == [plans |-> plans, left |-> plans, stage |-> "asked", source |-> << >>,
                  paras |-> << >>, copy |-> FALSE, temporary |-> FALSE, cancelled |-> FALSE,
                  status |-> "none", heard |-> TRUE]
GenerateTranslatedDocument(asked) ==
    /\ Len(jobs) < MaxGenerations
    /\ dialog.kind = "generate"
    /\ asked \/ host = "InDesign"
    /\ dialog' = NoDialog
    /\ active' = [request |-> Len(jobs) + 1, cancelled |-> FALSE]
    /\ jobs' = Append(jobs, IF asked THEN NewJob(dialog.plans)
                            ELSE [NewJob(dialog.plans) EXCEPT !.stage = "over"])
    /\ UNCHANGED <<host, doc, mode, segments, scan, asks, used>>
Dismiss ==
    /\ dialog.kind = "generate"
    /\ dialog' = NoDialog
    /\ UNCHANGED <<host, doc, mode, segments, scan, asks, active, jobs, used>>

CancelDocumentGeneration ==
    /\ active.request # 0 /\ ~active.cancelled
    /\ active' = [active EXCEPT !.cancelled = TRUE]
    /\ UNCHANGED <<host, doc, mode, segments, scan, asks, dialog, jobs, used>>

Working == {"asked", "copied", "writing"}
Become(n, job) == jobs' = [jobs EXCEPT ![n] = job] /\ UNCHANGED <<host, doc, used, session>>

\* The cancellation reaches the editor: a flag in Word, a file for InDesign.
CancelArrives(n) ==
    /\ active = [request |-> n, cancelled |-> TRUE]
    /\ jobs[n].stage \in Working /\ ~jobs[n].cancelled
    /\ Become(n, [jobs[n] EXCEPT !.cancelled = TRUE])

\* The end of a generation.  InDesign closes and removes what it does not
\* deliver; Word closes its hidden copy when it is cancelled.
Ended(job, status) ==
    LET delivered == status = "SUCCESS"
    IN  [job EXCEPT !.stage = "done", !.status = status, !.temporary = FALSE,
                    !.copy = @ /\ (delivered \/ (host = "Word" /\ status # "CANCELLED"))]

\* A call of the editor's API fails.
Fail(n) == Become(n, Ended(jobs[n], "FAILED"))
Cancelled(n) == jobs[n].cancelled /\ Become(n, Ended(jobs[n], "CANCELLED"))

\* The document is copied: in Word its bytes into a hidden document unless the
\* original has changes that are not saved, in InDesign to a temporary file.
MakeCopy(n) ==
    /\ jobs[n].stage = "asked"
    /\ \/ Cancelled(n)
       \/ Fail(n)
       \/ host = "Word" /\ Become(n, Ended(jobs[n], "ORIGINAL_UNSAVED"))
       \/ /\ ~jobs[n].cancelled
          /\ Become(n, [jobs[n] EXCEPT !.stage = "copied", !.source = doc, !.paras = doc,
                                       !.copy = TRUE, !.temporary = host = "InDesign"])

\* mutant: the paragraph at the position is taken for the planned one
Places_Unchecked(paras, plan) == {i \in DOMAIN paras : i = plan.order}
\* The place of a planned paragraph in the copy.  Word goes by its position,
\* InDesign looks for the text elsewhere when it is no longer at its position.
Places(paras, plan) ==
    LET there == {i \in DOMAIN paras : i = plan.order /\ paras[i] = plan.text}
        other == {i \in DOMAIN paras : paras[i] = plan.text}
    IN  IF host = "Word" \/ there # {} THEN there
        ELSE IF Cardinality(other) = 1 THEN other ELSE {}

\* Every plan is found in the copy before anything is written.  A cancellation
\* that comes while Word loads the copy is noticed later.
VerifyCopy(n) ==
    LET job == jobs[n]
        lost == {p \in job.plans : Places(job.paras, p) = {}}
    IN  /\ job.stage = "copied"
        /\ \/ Cancelled(n)
           \/ Fail(n)
           \/ /\ ~job.cancelled \/ host = "Word"
              /\ Become(n, IF lost # {} THEN Ended(job, "FINGERPRINT_MISMATCH")
                           ELSE [job EXCEPT !.stage = "writing"])

First(plans) == CHOOSE p \in plans : \A q \in plans : p.order <= q.order
Written(paras, plans) ==
    [i \in DOMAIN paras |->
        IF \E p \in plans : i \in Places(paras, p)
        THEN (CHOOSE p \in plans : i \in Places(paras, p)).target ELSE paras[i]]

\* The next plans are written: a chunk in Word, one paragraph in InDesign, which
\* looks for it again.
Materialize(n) ==
    LET job == jobs[n]
        next == First(job.left)
    IN  /\ job.stage = "writing" /\ job.left # {}
        /\ \/ Cancelled(n)
           \/ Fail(n)
           \/ \E chunk \in IF host = "Word" THEN {{next}, job.left} ELSE {{next}} :
                /\ ~job.cancelled
                /\ Become(n, IF Places(job.paras, next) = {} THEN Ended(job, "FINGERPRINT_MISMATCH")
                             ELSE [job EXCEPT !.left = @ \ chunk, !.paras = Written(@, chunk)])

\* The copy is opened, or saved under the name the user gave.
FinalizeCopy(n) ==
    /\ jobs[n].stage = "writing" /\ jobs[n].left = {}
    /\ \/ Cancelled(n)
       \/ Fail(n)
       \/ ~jobs[n].cancelled /\ Become(n, Ended(jobs[n], "SUCCESS"))

\* The answer clears what the header shows.  A call that fails leaves it, and
\* its generation goes on without anyone to hear its answer.
Answer(n) ==
    /\ jobs[n].stage = "done"
    /\ jobs' = [jobs EXCEPT ![n].stage = "over"]
    /\ active' = IF jobs[n].heard THEN NoActive ELSE active
    /\ UNCHANGED <<host, doc, mode, segments, scan, asks, dialog, used>>
CallFails(n) ==
    /\ Event
    /\ jobs[n].heard /\ jobs[n].stage # "over"
    /\ jobs' = [jobs EXCEPT ![n].heard = FALSE]
    /\ UNCHANGED <<host, doc, mode, segments, scan, asks, dialog, active>>

Generation(n) == MakeCopy(n) \/ VerifyCopy(n) \/ Materialize(n) \/ FinalizeCopy(n) \/ Answer(n)

(***************************************************************************)
(* The user in the editor.                                                 *)
(***************************************************************************)
EditDocument ==
    /\ Event
    /\ \E i \in DOMAIN doc, text \in Sources :
         \/ doc' = [doc EXCEPT ![i] = text]
         \/ Len(doc) < MaxParas /\ doc' = Q!InsertAt(doc, i, text)
         \/ Len(doc) > 1 /\ doc' = Q!RemoveAt(doc, i)
    /\ UNCHANGED <<host, jobs, session>>

Store ==
    \/ SetTranslationMode \/ ScanButton \/ PrepareDocumentGeneration \/ CancelScan \/ Restart
    \/ \E i \in DOMAIN doc : Telemetry(i)
    \/ \E s \in segments, d \in Drafts : UpdateSegmentTarget(s, d)
    \/ \E units \in Files, connected \in BOOLEAN : ImportXliff(units, connected)
    \/ \E chosen \in SUBSET dialog.conflicts : ResolveConflicts(chosen)
    \/ \E ask \in asks : Enumerate(ask) \/ ScanAnswered(ask) \/ ScanTimeout(ask)
    \/ \E asked \in BOOLEAN : GenerateTranslatedDocument(asked)
    \/ Dismiss \/ CancelDocumentGeneration

Next ==
    \/ Store
    \/ \E n \in DOMAIN jobs : Generation(n) \/ CancelArrives(n) \/ CallFails(n)
    \/ EditDocument

\* The timer of a scan fires.
Fairness == WF_vars(\E ask \in asks : ScanTimeout(ask))

Spec == Init /\ [][Next]_vars
FairSpec == Spec /\ Fairness

-----------------------------------------------------------------------------
Ids == {ScannedId(i, text) : i \in 1..MaxParas, text \in Sources} \cup {LegacyId(text) : text \in Sources}
Units == [id: Ids, text: Sources, target: Drafts]
PlanSet == [id: Ids, order: 1..MaxParas, text: Sources, target: Drafts \cup {"mixed"}]
IsJob(job) ==
    /\ job.plans \subseteq PlanSet /\ job.left \subseteq job.plans
    /\ job.stage \in Working \cup {"done", "over"}
    /\ {job.source, job.paras} \subseteq Seq(Sources \cup Drafts \cup {"mixed"})
    /\ {job.copy, job.temporary, job.cancelled, job.heard} \subseteq BOOLEAN

\* The types.  A segment has a target unless it is new and unknown to the
\* memory, and at most one generation is shown.
TypeOK ==
    /\ host \in Hosts /\ doc \in Q!BoundedSeq(Sources, MaxParas) \ {<< >>} /\ mode \in BOOLEAN
    /\ \A s \in segments :
         /\ s.id \in Ids /\ s.text \in Sources /\ s.order \in 0..MaxParas
         /\ s.status \in {"untranslated", "suggested", "draft", "needs-validation"}
         /\ s.origin \in {"tm-exact", "empty", "external-cat"}
         /\ s.target \in Drafts \cup {""} /\ (s.status \in {"suggested", "draft"} => s.target # "")
    /\ scan \in [running: BOOLEAN, error: BOOLEAN, token: 0..MaxScans]
    /\ \A ask \in asks : ask.token \in 1..MaxScans /\ ask.units \subseteq Units
    /\ dialog.plans \subseteq PlanSet /\ dialog.auto \cup dialog.conflicts \subseteq Units
    /\ active \in [request: 0..MaxGenerations, cancelled: BOOLEAN]
    /\ Len(jobs) <= MaxGenerations /\ \A n \in DOMAIN jobs : IsJob(jobs[n])

\* What the user wrote for a sentence stays with it through telemetry, scans
\* and restarts, and whatever becomes of the paragraph, until the user writes
\* something else or prefers the text of an import.
EditsSurvive ==
    [][\A s \in segments :
        \/ ~s.edited
        \/ \E t \in segments' : t.text = s.text /\ t.target = s.target
        \/ \E d \in Drafts : UpdateSegmentTarget(s, d)
        \/ \E u \in dialog.conflicts : u.id = s.id /\ u.text = s.text]_vars

\* A copy that is delivered differs from the document it was made from by the
\* planned targets alone, each in the place of a paragraph with the text it
\* translates, and by all of them: whatever the user does to the document after
\* the scan, and whatever is cancelled or fails (both document generators).
GeneratedIsFaithful ==
    \A n \in DOMAIN jobs :
        LET job == jobs[n]
            changed == {i \in DOMAIN job.source : job.paras[i] # job.source[i]}
        IN  job.status = "SUCCESS" =>
                /\ Cardinality(changed) = Cardinality(job.plans)
                /\ \A i \in changed : \E p \in job.plans :
                       p.text = job.source[i] /\ p.target = job.paras[i]

\* When a generation is over, InDesign has removed its temporary file and
\* closed the copy it does not deliver, and a cancelled one leaves no copy in
\* Word either.
NothingLeftBehind ==
    \A n \in DOMAIN jobs :
        jobs[n].stage \in {"done", "over"} =>
            /\ ~jobs[n].temporary
            /\ jobs[n].status = "CANCELLED" => ~jobs[n].copy
            /\ host = "InDesign" => (jobs[n].copy => jobs[n].status = "SUCCESS")

\* However a generation ends, what it leaves is right.
GenerationEndsWell == TypeOK /\ GeneratedIsFaithful /\ NothingLeftBehind

\* A scan ends, and the buttons it disables come back, when the editor never
\* answers (the race with the timer in scanFullDocument).
ScanEnds == scan.running ~> ~scan.running
=============================================================================
