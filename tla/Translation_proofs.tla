------------------------- MODULE Translation_proofs --------------------------
(***************************************************************************)
(* Proofs about Translation, for any texts, any memory, either editor and  *)
(* any bounds: what a generation delivers and leaves behind, and that what *)
(* the user wrote survives.  A generation needs that the plans it is given *)
(* name different places, and that rests on what the identifiers of the    *)
(* session's segments mean; the user's texts need that an import does not  *)
(* hold on to what has changed since it was analysed.                      *)
(***************************************************************************)
EXTENDS Translation, FiniteSetTheorems, WellFoundedInduction, SequenceTheorems, TLAPS

-----------------------------------------------------------------------------
(* Numbers: the facts the proofs use instead of induction. *)

\* Every set of numbers that is not empty has a least one.
LEMMA LeastNumber ==
    ASSUME NEW T, T \subseteq Nat, T # {}
    PROVE  \E x \in T : \A y \in T : x <= y
<1> DEFINE Below == {0 .. n : n \in T}
<1>1. Below \subseteq FiniteSubsetsOf(Nat) /\ Below # {}
  <2>1. \A n \in T : 0 .. n \subseteq Nat /\ IsFiniteSet(0 .. n)
    BY FS_Interval
  <2> QED
    BY <2>1 DEF FiniteSubsetsOf
<1>2. PICK least \in Below : \A y \in Below : ~(<<y, least>> \in StrictSubsetOrdering(Nat))
  BY <1>1, FS_StrictSubsetOrderingWellFounded, WFMin
<1>3. PICK x \in T : least = 0 .. x
  BY <1>2
<1>4. ASSUME NEW y \in T, ~(x <= y)
      PROVE  FALSE
  <2>1. 0 .. y \subseteq 0 .. x /\ x \in 0 .. x /\ x \notin 0 .. y
    BY <1>4
  <2>2. <<0 .. y, 0 .. x>> \in StrictSubsetOrdering(Nat)
    BY <2>1 DEF StrictSubsetOrdering
  <2> QED
    BY <1>2, <1>3, <1>4, <2>2
<1> QED
  BY <1>4

-----------------------------------------------------------------------------
(* The invariant *)

HostType == host \in {"Word", "InDesign"}
DocType == doc \in Seq(Sources) /\ doc # << >> /\ Len(doc) <= MaxParas

Segments == [id: Ids, text: Sources, order: 0..MaxParas, edited: BOOLEAN,
             target: Drafts \cup {""}, origin: {"tm-exact", "empty", "external-cat"},
             status: {"untranslated", "suggested", "draft", "needs-validation"}]
SegmentIsSound(s) ==
    /\ s.status \in {"suggested", "draft"} \/ s.edited \/ s.origin = "tm-exact" => s.target # ""
    /\ s.order # 0 => s.id = ScannedId(s.order, s.text)
    /\ \A t : s.id = LegacyId(t) => s.text = t
AreSound(group) == \A s \in group : s \in Segments /\ SegmentIsSound(s)

Scanned == [id: Ids, text: Sources, order: 1..MaxParas]
AskType == [token: 1..MaxScans, by: {"user", "generate", "import"}, units: SUBSET Units,
            answer: {"none", "paragraphs", "error"}, paras: SUBSET Scanned]
AsksAreSound(calls, token) ==
    /\ \A ask \in calls : ask \in AskType /\ ask.token <= token
    /\ \A ask \in calls : \A p \in ask.paras : p.id = ScannedId(p.order, p.text)
    /\ \A a, b \in calls : a.token = b.token => a = b

PlansAreSound(plans) ==
    /\ plans \subseteq PlanSet
    /\ \A p \in plans : p.id = ScannedId(p.order, p.text)
    /\ \A p, q \in plans : p.id = q.id => p = q

\* An import overwrites no text of the user: not when its dialog opens and, as
\* at most the scan under way changes what the identifiers stand for, not later.
Dialogs == [kind: {"none", "generate", "conflicts"}, plans: SUBSET PlanSet,
            auto: SUBSET Units, conflicts: SUBSET Units]
Harmless(d, group) ==
    d.kind = "conflicts" => \A u \in d.auto, s \in group :
        s.id = u.id /\ s.text = u.text /\ s.edited => s.target = u.target
Present(d, group) ==
    d.kind = "conflicts" => \A u \in d.auto : \E s \in group : s.id = u.id
DialogIsSound(d, group, calls, token) ==
    /\ d \in Dialogs /\ PlansAreSound(d.plans)
    /\ Harmless(d, group)
    /\ (\E ask \in calls : ask.token = token) => Present(d, group)

Jobs == [plans: SUBSET PlanSet, left: SUBSET PlanSet, stage: Working \cup {"done", "over"},
         source: Seq(Sources), paras: Seq(Sources \cup Drafts \cup {"mixed"}),
         copy: BOOLEAN, temporary: BOOLEAN, cancelled: BOOLEAN, heard: BOOLEAN,
         status: {"none", "SUCCESS", "FAILED", "CANCELLED", "ORIGINAL_UNSAVED", "FINGERPRINT_MISMATCH"}]
PutDown(job, f) ==
    /\ \A p, q \in job.plans \ job.left : f[p] = f[q] => p = q
    /\ \A p \in job.plans \ job.left : job.source[f[p]] = p.text /\ job.paras[f[p]] = p.target
    /\ \A i \in DOMAIN job.source :
          job.paras[i] # job.source[i] => \E p \in job.plans \ job.left : f[p] = i
Progress(job) ==
    /\ DOMAIN job.paras = DOMAIN job.source
    /\ \E f \in [job.plans \ job.left -> DOMAIN job.source] : PutDown(job, f)
JobIsSound(job) ==
    /\ PlansAreSound(job.plans) /\ job.left \subseteq job.plans
    /\ job.stage \in Working => job.status = "none" /\ job.copy = (job.stage # "asked")
    /\ job.stage \in {"asked", "copied"} => job.left = job.plans /\ job.paras = job.source
    /\ job.stage = "asked" => ~job.temporary
    /\ job.stage = "writing" \/ job.status = "SUCCESS" => Progress(job)
    /\ job.stage = "writing" /\ host = "Word" =>
          \A p \in job.left : p.order \in DOMAIN job.paras /\ job.paras[p.order] = p.text
    /\ job.status = "SUCCESS" => job.left = {}
    /\ job.stage \in {"done", "over"} =>
            /\ ~job.temporary
            /\ job.status = "CANCELLED" => ~job.copy
            /\ host = "InDesign" => (job.copy => job.status = "SUCCESS")
JobInv == jobs \in Seq(Jobs) /\ Len(jobs) <= MaxGenerations /\ \A n \in DOMAIN jobs : JobIsSound(jobs[n])

ScanType == scan \in [running: BOOLEAN, error: BOOLEAN, token: 0..MaxScans]
SessionInv ==
    /\ AreSound(segments) /\ ScanType
    /\ AsksAreSound(asks, scan.token)
    /\ DialogIsSound(dialog, segments, asks, scan.token)
ActiveType == active \in [request: 0..MaxGenerations, cancelled: BOOLEAN]

TInv ==
    /\ host \in Hosts /\ DocType /\ mode \in BOOLEAN
    /\ SessionInv /\ ActiveType /\ JobInv

-----------------------------------------------------------------------------
(* Sequences *)

\* A bounded sequence is a sequence that is not too long.
LEMMA BoundedSequence ==
    ASSUME NEW S, NEW n \in Nat, NEW s
    PROVE  s \in Q!BoundedSeq(S, n) <=> s \in Seq(S) /\ Len(s) <= n
<1>1. ASSUME s \in Q!BoundedSeq(S, n)
      PROVE  s \in Seq(S) /\ Len(s) <= n
  <2>1. PICK m \in 0 .. n : s \in [1 .. m -> S]
    BY <1>1 DEF Q!BoundedSeq, Q!SeqOf
  <2>2. s \in Seq(S) /\ Len(s) = m
    BY <2>1
  <2> QED
    BY <2>2
<1>2. ASSUME s \in Seq(S), Len(s) <= n
      PROVE  s \in Q!BoundedSeq(S, n)
  <2>1. Len(s) \in 0 .. n /\ s \in [1 .. Len(s) -> S]
    BY <1>2
  <2> QED
    BY <2>1 DEF Q!BoundedSeq, Q!SeqOf
<1> QED
  BY <1>1, <1>2

LEMMA InsertOne ==
    ASSUME NEW S, NEW s \in Seq(S), NEW i \in 1 .. Len(s), NEW e \in S
    PROVE  Q!InsertAt(s, i, e) \in Seq(S) /\ Len(Q!InsertAt(s, i, e)) = Len(s) + 1
<1> DEFINE front == SubSeq(s, 1, i - 1)
           back == SubSeq(s, i, Len(s))
<1>1. front \in Seq(S) /\ Len(front) = i - 1
  BY SubSeqProperties
<1>2. back \in Seq(S) /\ Len(back) = Len(s) - i + 1
  BY SubSeqProperties
<1>3. front \o <<e>> \in Seq(S) /\ Len(front \o <<e>>) = i
  BY <1>1
<1>4. Q!InsertAt(s, i, e) = (front \o <<e>>) \o back
  BY DEF Q!InsertAt
<1> HIDE DEF front, back
<1>5. /\ (front \o <<e>>) \o back \in Seq(S)
      /\ Len((front \o <<e>>) \o back) = Len(front \o <<e>>) + Len(back)
  BY <1>2, <1>3
<1>6. Len(front \o <<e>>) + Len(back) = Len(s) + 1
  BY <1>2, <1>3, SMTT(60)
<1> QED
  BY <1>4, <1>5, <1>6

LEMMA RemoveOne ==
    ASSUME NEW S, NEW s \in Seq(S), NEW i \in 1 .. Len(s)
    PROVE  Q!RemoveAt(s, i) \in Seq(S) /\ Len(Q!RemoveAt(s, i)) = Len(s) - 1
<1> DEFINE front == SubSeq(s, 1, i - 1)
           back == SubSeq(s, i + 1, Len(s))
<1>1. front \in Seq(S) /\ Len(front) = i - 1
  BY SubSeqProperties
<1>2. back \in Seq(S) /\ Len(back) = Len(s) - i
  BY SubSeqProperties
<1>3. Q!RemoveAt(s, i) = front \o back
  BY DEF Q!RemoveAt
<1> HIDE DEF front, back
<1>4. front \o back \in Seq(S) /\ Len(front \o back) = Len(front) + Len(back)
  BY <1>1, <1>2, SMTT(60)
<1>5. Len(front) + Len(back) = Len(s) - 1
  BY <1>1, <1>2
<1> QED
  BY <1>3, <1>4, <1>5

-----------------------------------------------------------------------------
(* Identifiers, segments and plans *)

\* What an identifier tells: a scanned one its place, in Word the text too, an
\* earlier one its text.
LEMMA IdsTell ==
    ASSUME HostType
    PROVE  /\ \A i, t, u : ScannedId(i, t) # LegacyId(u)
           /\ \A i, j, t, u : ScannedId(i, t) = ScannedId(j, u)
                                => i = j /\ (host = "Word" => t = u)
           /\ \A t, u : LegacyId(t) = LegacyId(u) => t = u
<1>1. CASE host = "Word"
  BY <1>1 DEF ScannedId, LegacyId
<1>2. CASE host = "InDesign"
  BY <1>2 DEF ScannedId, LegacyId
<1> QED
  BY <1>1, <1>2 DEF HostType

\* Drafts and sources are told apart from each other and from no text.
LEMMA TextsApart ==
    /\ "" \notin Drafts /\ "" \notin Sources
    /\ "mixed" \notin Sources /\ "mixed" \notin Drafts
    /\ \A d \in Drafts : d \notin Sources
BY TextAssumption

LEMMA NewSegment ==
    ASSUME HostType, NEW p, p.id \in Ids, p.text \in Sources, p.order \in 0 .. MaxParas,
           p.order # 0 => p.id = ScannedId(p.order, p.text),
           \A t : p.id = LegacyId(t) => p.text = t
    PROVE  /\ CreateSegments(p) \in Segments /\ SegmentIsSound(CreateSegments(p))
           /\ CreateSegments(p).id = p.id /\ CreateSegments(p).text = p.text
           /\ CreateSegments(p).order = p.order /\ ~CreateSegments(p).edited
<1> DEFINE s == CreateSegments(p)
<1>1. /\ s.id = p.id /\ s.text = p.text /\ s.order = p.order /\ s.edited = FALSE
      /\ s = [id |-> s.id, text |-> s.text, order |-> s.order, edited |-> s.edited,
              target |-> s.target, origin |-> s.origin, status |-> s.status]
  BY DEF CreateSegments
<1>2. /\ s.target \in Drafts \cup {""} /\ s.origin \in {"tm-exact", "empty"}
      /\ s.status \in {"suggested", "untranslated"}
      /\ s.status = "suggested" \/ s.origin = "tm-exact" => s.target \in Drafts
  <2>1. CASE p.text \in DOMAIN Memory
    BY <2>1, MemoryAssumption DEF CreateSegments
  <2>2. CASE p.text \notin DOMAIN Memory
    BY <2>2 DEF CreateSegments
  <2> QED
    BY <2>1, <2>2
<1> HIDE DEF s
<1>3. s \in Segments
  BY <1>1, <1>2 DEF Segments
<1>4. SegmentIsSound(s)
  BY <1>1, <1>2, TextsApart DEF SegmentIsSound
<1> QED
  BY <1>1, <1>3, <1>4 DEF s

\* A segment that is to be validated keeps everything else.
LEMMA Invalidated ==
    ASSUME NEW s \in Segments, SegmentIsSound(s)
    PROVE  LET t == [s EXCEPT !.status = "needs-validation"]
           IN  /\ t \in Segments /\ SegmentIsSound(t)
               /\ t.id = s.id /\ t.text = s.text /\ t.target = s.target /\ t.edited = s.edited
<1> DEFINE t == [s EXCEPT !.status = "needs-validation"]
<1>1. /\ t \in Segments /\ t.id = s.id /\ t.text = s.text /\ t.target = s.target
      /\ t.edited = s.edited /\ t.order = s.order /\ t.origin = s.origin
      /\ t.status = "needs-validation"
  BY DEF Segments
<1> HIDE DEF t
<1>2. SegmentIsSound(t)
  BY <1>1 DEF SegmentIsSound
<1> QED
  BY <1>1, <1>2 DEF t

\* One that the scan has found again has a place.
LEMMA Replaced ==
    ASSUME NEW s \in Segments, SegmentIsSound(s), HostType, NEW p \in Scanned,
           p.id = ScannedId(p.order, p.text), s.text = p.text
    PROVE  LET t == Moved(s, p)
           IN  /\ t \in Segments /\ SegmentIsSound(t)
               /\ t.id = p.id /\ t.text = s.text /\ t.target = s.target /\ t.edited = s.edited
<1> DEFINE t == Moved(s, p)
<1>0. p.id \in Ids /\ p.order \in 0 .. MaxParas
  <2>1. MaxParas \in Nat /\ p.order \in 1 .. MaxParas /\ p.id \in Ids
    BY BoundsAssumption DEF Scanned
  <2> QED
    BY <2>1
<1>1. /\ t \in Segments /\ t.id = p.id /\ t.text = s.text /\ t.target = s.target
      /\ t.edited = s.edited /\ t.order = p.order /\ t.origin = s.origin /\ t.status = s.status
  BY <1>0 DEF Segments, Moved
<1> HIDE DEF t
<1>2. \A u : t.id # LegacyId(u)
  BY <1>1, IdsTell
<1>3. SegmentIsSound(t)
  BY <1>1, <1>2 DEF SegmentIsSound
<1> QED
  BY <1>1, <1>3 DEF t

\* The texts a plan is made of: a segment that says something else than its
\* source has a translation, unless it waits to be validated.
LEMMA PlansOfSession ==
    ASSUME HostType, NEW group, AreSound(group),
           \A s \in group : s.status # "needs-validation", NEW plans \in PlanSets(group)
    PROVE  PlansAreSound(plans)
<1> DEFINE ids == {s.id : s \in group}
           of == [id \in ids |-> {s \in group : s.id = id}]
           planned == {id \in ids : \E s \in of[id] : TargetText(s) # s.text}
<1>1. PICK f \in [ids -> group] :
         /\ \A id \in ids : f[id].id = id
         /\ plans = {Plan(f[id], of[id]) : id \in {i \in planned : f[i].order # 0}}
  BY DEF PlanSets
<1>0. MaxParas \in Nat
  BY BoundsAssumption
<1>2. ASSUME NEW id \in planned, f[id].order # 0
      PROVE  /\ Plan(f[id], of[id]) \in PlanSet
             /\ Plan(f[id], of[id]).id = id
             /\ LET p == Plan(f[id], of[id]) IN p.id = ScannedId(p.order, p.text)
  <2>1. f[id] \in group /\ f[id] \in Segments /\ SegmentIsSound(f[id]) /\ f[id].id = id
    BY <1>1 DEF AreSound
  <2>2. f[id].order \in 1 .. MaxParas /\ f[id].text \in Sources /\ f[id].id \in Ids
    <3>1. f[id].order \in 0 .. MaxParas /\ f[id].text \in Sources /\ f[id].id \in Ids
      BY <2>1 DEF Segments
    <3> QED
      BY <1>0, <1>2, <3>1
  <2>3. Plan(f[id], of[id]).target \in Drafts \cup {"mixed"}
    <3>1. CASE of[id] = {f[id]}
      <4>1. TargetText(f[id]) # f[id].text
        BY <3>1
      <4>2. f[id].status \in {"suggested", "draft"} /\ TargetText(f[id]) = f[id].target
        BY <2>1, <4>1 DEF TargetText, Segments
      <4>3. f[id].target \in Drafts
        BY <2>1, <4>2 DEF SegmentIsSound, Segments
      <4> QED
        BY <3>1, <4>2, <4>3 DEF Plan
    <3>2. CASE of[id] # {f[id]}
      BY <3>2 DEF Plan
    <3> QED
      BY <3>1, <3>2
  <2>4. /\ Plan(f[id], of[id]).id = f[id].id /\ Plan(f[id], of[id]).order = f[id].order
        /\ Plan(f[id], of[id]).text = f[id].text
        /\ Plan(f[id], of[id]) = [id |-> f[id].id, order |-> f[id].order, text |-> f[id].text,
                                  target |-> Plan(f[id], of[id]).target]
    BY DEF Plan
  <2>5. Plan(f[id], of[id]) \in PlanSet
    BY <2>2, <2>3, <2>4 DEF PlanSet
  <2>6. f[id].id = ScannedId(f[id].order, f[id].text)
    BY <1>2, <2>1 DEF SegmentIsSound
  <2> QED
    BY <2>1, <2>4, <2>5, <2>6
<1>3. ASSUME NEW p \in plans
      PROVE  \E id \in planned : f[id].order # 0 /\ p = Plan(f[id], of[id])
  BY <1>1
<1> HIDE DEF planned, of, ids
<1>4. plans \subseteq PlanSet /\ \A p \in plans : p.id = ScannedId(p.order, p.text)
  BY <1>2, <1>3
<1>5. \A p, q \in plans : p.id = q.id => p = q
  BY <1>2, <1>3
<1> QED
  BY <1>4, <1>5 DEF PlansAreSound

-----------------------------------------------------------------------------
(* What telemetry, a scan and an import make of the segments *)

\* The text of a user in `t` was one in `group` before, where its identifier stood
\* for the same or for nothing.
Inherited(t, group) ==
    \/ ~t.edited
    \/ \E s \in group : /\ s.text = t.text /\ s.target = t.target /\ s.edited
                        /\ s.id = t.id \/ \A x \in group : x.id # t.id
\* The text of a user in `t` was one of its identifier in `group`.
IsOld(t, group) ==
    ~t.edited \/ \E s \in group : s.id = t.id /\ s.text = t.text /\ s.target = t.target /\ s.edited
\* The text of a user in `s` is one in `group` now, or at least there.
Survives(s, group) ==
    ~s.edited \/ \E t \in group : t.text = s.text /\ t.target = s.target /\ t.edited
IsThere(s, group) ==
    ~s.edited \/ \E t \in group : t.text = s.text /\ t.target = s.target

LEMMA SetInvalid ==
    ASSUME NEW group, AreSound(group)
    PROVE  /\ AreSound(Invalid(group))
           /\ \A t \in Invalid(group) : \E s \in group :
                 s.id = t.id /\ s.text = t.text /\ s.target = t.target /\ s.edited = t.edited
           /\ \A s \in group : \E t \in Invalid(group) :
                 s.id = t.id /\ s.text = t.text /\ s.target = t.target /\ s.edited = t.edited
BY Invalidated, ZenonT(60) DEF AreSound, Invalid

LEMMA UpsertKeeps ==
    ASSUME HostType, AreSound(segments),
           NEW p, p.id \in Ids, p.text \in Sources, p.order = 0,
           \A t : p.id = LegacyId(t) => p.text = t
    PROVE  LET now == UpsertParagraphSegments(p)
           IN  /\ AreSound(now)
               /\ \A t \in now : IsOld(t, segments)
               /\ \A s \in segments : Survives(s, now) /\ \E t \in now : t.id = s.id
<1> DEFINE group == GroupOf(p.id)
           same == {s \in group : s.text = p.text}
           new == CreateSegments(p)
           again(s) == IF s.status = "needs-validation" THEN Revalidated(s, new) ELSE s
           now == UpsertParagraphSegments(p)
<1>0. 0 \in 0 .. MaxParas
  <2>1. MaxParas \in Nat
    BY BoundsAssumption
  <2> QED
    BY <2>1
<1>1. /\ new \in Segments /\ SegmentIsSound(new) /\ new.id = p.id /\ new.text = p.text
      /\ new.order = 0 /\ ~new.edited
  BY <1>0, NewSegment
<1>2. ASSUME NEW s \in same
      PROVE  /\ again(s) \in Segments /\ SegmentIsSound(again(s)) /\ again(s).id = s.id
             /\ again(s).text = s.text /\ again(s).target = s.target /\ again(s).edited = s.edited
  <2>1. s \in Segments /\ SegmentIsSound(s) /\ s.id = p.id /\ s.text = p.text
    BY DEF GroupOf, AreSound
  <2>2. CASE s.status = "needs-validation"
    <3> DEFINE r == Revalidated(s, new)
    <3>1. /\ r \in Segments /\ r.id = new.id /\ r.text = new.text /\ r.order = new.order
          /\ r.target = s.target /\ r.origin = s.origin /\ r.edited = s.edited
          /\ r.status = (IF s.edited THEN "draft"
                         ELSE IF s.origin = "tm-exact" THEN "suggested" ELSE "untranslated")
      BY <1>1, <2>1 DEF Revalidated, Segments
    <3> HIDE DEF r
    <3>2. SegmentIsSound(r)
      BY <1>1, <2>1, <3>1 DEF SegmentIsSound
    <3>3. again(s) = r
      BY <2>2 DEF r
    <3> QED
      BY <1>1, <2>1, <3>1, <3>2, <3>3
  <2>3. CASE s.status # "needs-validation"
    BY <2>1, <2>3
  <2> QED
    BY <2>2, <2>3
<1>3. AreSound(group \ same)
  BY DEF AreSound, GroupOf
<1>4. CASE now = segments
  BY <1>4 DEF IsOld, Survives
<1>5. CASE now = (segments \ group) \cup Invalid(group \ same) \cup {again(s) : s \in same}
                 \cup (IF same = {} THEN {new} ELSE {})
  <2>1. ASSUME NEW t \in now
        PROVE  t \in Segments /\ SegmentIsSound(t) /\ IsOld(t, segments)
    <3>1. CASE t \in segments
      BY <3>1 DEF AreSound, IsOld
    <3>2. CASE t \in Invalid(group \ same)
      BY <1>3, <3>2, SetInvalid DEF AreSound, IsOld, GroupOf
    <3>3. CASE t \in {again(s) : s \in same}
      <4>1. PICK s \in same : t = again(s)
        BY <3>3
      <4> QED
        BY <1>2, <4>1 DEF IsOld, GroupOf
    <3>4. CASE t = new
      BY <1>1, <3>4 DEF IsOld
    <3> QED
      BY <1>5, <3>1, <3>2, <3>3, <3>4
  <2>2. ASSUME NEW s \in segments
        PROVE  Survives(s, now) /\ \E t \in now : t.id = s.id
    <3>1. CASE s \notin group
      BY <1>5, <3>1 DEF Survives
    <3>2. CASE s \in group \ same
      <4>1. PICK t \in Invalid(group \ same) :
              s.id = t.id /\ s.text = t.text /\ s.target = t.target /\ s.edited = t.edited
        BY <1>3, <3>2, SetInvalid
      <4>2. t \in now
        BY <1>5, <4>1
      <4> QED
        BY <4>1, <4>2 DEF Survives
    <3>3. CASE s \in same
      <4>1. again(s) \in now
        BY <1>5, <3>3
      <4> QED
        BY <1>2, <3>3, <4>1 DEF Survives
    <3> QED
      BY <3>1, <3>2, <3>3
  <2> QED
    BY <2>1, <2>2 DEF AreSound
<1> QED
  BY <1>4, <1>5 DEF UpsertParagraphSegments

LEMMA MergeKeeps ==
    ASSUME HostType, AreSound(segments), NEW scanned, scanned \subseteq Scanned,
           \A p \in scanned : p.id = ScannedId(p.order, p.text)
    PROVE  LET now == MergeScannedParagraphs(scanned)
           IN  /\ AreSound(now)
               /\ \A t \in now : Inherited(t, segments)
               /\ \A s \in segments : Survives(s, now)
<1> DEFINE found == Found(scanned)
           promoted == Promoted(scanned)
           kept == Orphans(scanned)
           now == MergeScannedParagraphs(scanned)
<1>1. now = Stayed(scanned) \cup Rewritten(scanned) \cup Identified(scanned) \cup Added(scanned)
            \cup Invalid(kept)
  BY DEF MergeScannedParagraphs
<1>2. /\ \A t \in Stayed(scanned) :
            \E p \in found : Unchanged(p) /\ \E s \in GroupOf(p.id) : t = Moved(s, p)
      /\ \A p \in found : Unchanged(p) => \A s \in GroupOf(p.id) : Moved(s, p) \in Stayed(scanned)
  BY DEF Stayed
<1>3. /\ \A t \in Rewritten(scanned) :
            \E p \in found : t \in Invalid(GroupOf(p.id)) \/ t = CreateSegments(p)
      /\ \A p \in found : ~Unchanged(p) => Invalid(GroupOf(p.id)) \subseteq Rewritten(scanned)
  BY DEF Rewritten
<1>4. /\ \A t \in Identified(scanned) :
            \E p \in promoted : \E s \in GroupOf(LegacyId(p.text)) : t = Moved(s, p)
      /\ \A p \in promoted : \A s \in GroupOf(LegacyId(p.text)) : Moved(s, p) \in Identified(scanned)
  BY DEF Identified
<1>5. \A t \in Added(scanned) : \E p \in scanned : t = CreateSegments(p)
  BY DEF Added
<1>6. /\ \A s \in kept : s \in segments
      /\ \A s \in segments : s.edited =>
            s \in kept \/ (\E p \in found : s.id = p.id) \/ \E p \in promoted : s.id = LegacyId(p.text)
  BY DEF Orphans
<1>7. found \subseteq scanned /\ promoted \subseteq scanned
      /\ \A p \in promoted : \A x \in segments : x.id # p.id
  BY DEF Found, Promoted, GroupOf
<1>8. ASSUME NEW p \in scanned
      PROVE  /\ CreateSegments(p) \in Segments /\ SegmentIsSound(CreateSegments(p))
             /\ ~CreateSegments(p).edited
  <2>1. p.id \in Ids /\ p.text \in Sources /\ p.order \in 1 .. MaxParas
        /\ p.id = ScannedId(p.order, p.text)
    BY DEF Scanned
  <2>2. p.order \in 0 .. MaxParas
    BY <2>1, BoundsAssumption
  <2>3. \A t : p.id # LegacyId(t)
    BY <2>1, IdsTell
  <2> QED
    BY <2>1, <2>2, <2>3, NewSegment
<1>9. ASSUME NEW p \in scanned, NEW s \in segments,
             (s.id = p.id /\ s.text = p.text) \/ s.id = LegacyId(p.text)
      PROVE  /\ Moved(s, p) \in Segments /\ SegmentIsSound(Moved(s, p)) /\ Moved(s, p).id = p.id
             /\ Moved(s, p).text = s.text /\ Moved(s, p).target = s.target
             /\ Moved(s, p).edited = s.edited
  <2>1. s \in Segments /\ SegmentIsSound(s) /\ p \in Scanned /\ p.id = ScannedId(p.order, p.text)
    BY DEF AreSound
  <2>2. s.text = p.text
    BY <1>9, <2>1 DEF SegmentIsSound
  <2> QED
    BY <2>1, <2>2, Replaced
<1>10. AreSound(kept) /\ \A id : AreSound(GroupOf(id))
  BY <1>6 DEF AreSound, GroupOf
<1> HIDE DEF now, found, promoted, kept
<1>11. ASSUME NEW t \in now
      PROVE  t \in Segments /\ SegmentIsSound(t) /\ Inherited(t, segments)
  <2>1. ASSUME NEW p \in found, Unchanged(p), NEW s \in GroupOf(p.id), t = Moved(s, p)
        PROVE  t \in Segments /\ SegmentIsSound(t) /\ Inherited(t, segments)
    <3>1. s \in segments /\ s.id = p.id /\ s.text = p.text
      BY <2>1 DEF GroupOf, Unchanged
    <3> QED
      BY <1>7, <1>9, <2>1, <3>1 DEF Inherited
  <2>2. ASSUME NEW p \in found, t \in Invalid(GroupOf(p.id))
        PROVE  t \in Segments /\ SegmentIsSound(t) /\ Inherited(t, segments)
    BY <1>10, <2>2, SetInvalid DEF AreSound, Inherited, GroupOf
  <2>3. ASSUME NEW p \in promoted, NEW s \in GroupOf(LegacyId(p.text)), t = Moved(s, p)
        PROVE  t \in Segments /\ SegmentIsSound(t) /\ Inherited(t, segments)
    <3>1. s \in segments /\ s.id = LegacyId(p.text)
      BY <2>3 DEF GroupOf
    <3> QED
      BY <1>7, <1>9, <2>3, <3>1 DEF Inherited
  <2>4. ASSUME NEW p \in scanned, t = CreateSegments(p)
        PROVE  t \in Segments /\ SegmentIsSound(t) /\ Inherited(t, segments)
    BY <1>8, <2>4 DEF Inherited
  <2>5. CASE t \in Invalid(kept)
    BY <1>6, <1>10, <2>5, SetInvalid DEF AreSound, Inherited
  <2> QED
    BY <1>1, <1>2, <1>3, <1>4, <1>5, <1>7, <2>1, <2>2, <2>3, <2>4, <2>5
<1>12. ASSUME NEW s \in segments, s.edited
      PROVE  \E t \in now : t.text = s.text /\ t.target = s.target /\ t.edited
  <2>1. ASSUME NEW p \in found, s.id = p.id
        PROVE  \E t \in now : t.text = s.text /\ t.target = s.target /\ t.edited
    <3>1. s \in GroupOf(p.id)
      BY <2>1 DEF GroupOf
    <3>2. CASE Unchanged(p)
      <4>1. s.text = p.text
        BY <3>1, <3>2 DEF Unchanged
      <4>2. Moved(s, p) \in now
        BY <1>1, <1>2, <3>1, <3>2
      <4> QED
        BY <1>7, <1>9, <1>12, <2>1, <4>1, <4>2
    <3>3. CASE ~Unchanged(p)
      <4>1. PICK t \in Invalid(GroupOf(p.id)) : s.text = t.text /\ s.target = t.target /\ s.edited = t.edited
        BY <1>10, <3>1, SetInvalid
      <4> QED
        BY <1>1, <1>3, <1>12, <3>3, <4>1
    <3> QED
      BY <3>2, <3>3
  <2>2. ASSUME NEW p \in promoted, s.id = LegacyId(p.text)
        PROVE  \E t \in now : t.text = s.text /\ t.target = s.target /\ t.edited
    <3>1. Moved(s, p) \in now
      BY <1>1, <1>4, <2>2 DEF GroupOf
    <3> QED
      BY <1>7, <1>9, <1>12, <2>2, <3>1
  <2>3. CASE s \in kept
    <3>1. PICK t \in Invalid(kept) : s.text = t.text /\ s.target = t.target /\ s.edited = t.edited
      BY <1>10, <2>3, SetInvalid
    <3> QED
      BY <1>1, <1>12, <3>1
  <2> QED
    BY <1>6, <1>12, <2>1, <2>2, <2>3
<1> QED
  BY <1>11, <1>12 DEF AreSound, Survives, now

\* An import changes no text of a user that it does not agree with; a unit it
\* takes is one of those it was given.
LEMMA ImportKeeps ==
    ASSUME NEW group, AreSound(group), NEW units, units \subseteq Units
    PROVE  LET now == ApplyXliffImport(units, group)
           IN  /\ AreSound(now)
               /\ \A t \in now : t.edited => t \in group
               /\ \A s \in group : \E t \in now : t.id = s.id
               /\ \A s \in group :
                     \/ \E t \in now : t.text = s.text /\ t.target = s.target
                     \/ \E u \in units : u.id = s.id /\ u.text = s.text /\ u.target # s.target
<1> DEFINE hits(s) == {u \in units : u.id = s.id /\ u.text = s.text}
           unit(s) == CHOOSE u \in units : u.id = s.id /\ u.text = s.text
           given(s) == [s EXCEPT !.target = unit(s).target, !.status = "draft",
                                 !.origin = "external-cat", !.edited = FALSE]
           now == ApplyXliffImport(units, group)
<1>1. ASSUME NEW s \in group, \E u \in units : u.id = s.id /\ u.text = s.text
      PROVE  /\ unit(s) \in units /\ unit(s).id = s.id /\ unit(s).text = s.text
             /\ given(s) \in Segments /\ SegmentIsSound(given(s))
             /\ given(s).id = s.id /\ given(s).text = s.text /\ given(s).target = unit(s).target
             /\ given(s).edited = FALSE
  <2>1. unit(s) \in units /\ unit(s).id = s.id /\ unit(s).text = s.text
    BY <1>1
  <2>2. s \in Segments /\ SegmentIsSound(s)
    BY DEF AreSound
  <2>3. unit(s).target \in Drafts
    BY <2>1 DEF Units
  <2> HIDE DEF unit
  <2>4. /\ given(s) \in Segments /\ given(s).id = s.id /\ given(s).text = s.text
        /\ given(s).order = s.order /\ given(s).target = unit(s).target
        /\ given(s).edited = FALSE
    BY <2>2, <2>3 DEF Segments
  <2> HIDE DEF given
  <2>5. SegmentIsSound(given(s))
    BY <2>2, <2>3, <2>4, TextsApart DEF SegmentIsSound
  <2> QED
    BY <2>1, <2>4, <2>5
<1>2. now = {IF \E u \in units : u.id = s.id /\ u.text = s.text THEN given(s) ELSE s : s \in group}
  BY DEF ApplyXliffImport
<1> HIDE DEF now, given, unit
<1>3. ASSUME NEW t \in now
      PROVE  t \in Segments /\ SegmentIsSound(t) /\ (t.edited => t \in group)
  <2>1. PICK s \in group : t = IF \E u \in units : u.id = s.id /\ u.text = s.text THEN given(s) ELSE s
    BY <1>2
  <2> QED
    BY <1>1, <2>1 DEF AreSound
<1>4. ASSUME NEW s \in group
      PROVE  /\ \E t \in now : t.id = s.id
             /\ \/ \E t \in now : t.text = s.text /\ t.target = s.target
                \/ \E u \in units : u.id = s.id /\ u.text = s.text /\ u.target # s.target
  <2>1. CASE \E u \in units : u.id = s.id /\ u.text = s.text
    <3>1. given(s) \in now
      BY <1>2, <2>1
    <3> QED
      BY <1>1, <2>1, <3>1
  <2>2. CASE ~\E u \in units : u.id = s.id /\ u.text = s.text
    <3>1. s \in now
      BY <1>2, <2>2
    <3> QED
      BY <3>1
  <2> QED
    BY <2>1, <2>2
<1> QED
  BY <1>3, <1>4 DEF AreSound, now

LEMMA DialogOfPlans ==
    ASSUME NEW plans, PlansAreSound(plans), NEW group
    PROVE  LET d == [NoDialog EXCEPT !.kind = "generate", !.plans = plans]
           IN d \in Dialogs /\ d.plans = plans /\ Harmless(d, group) /\ Present(d, group)
BY DEF NoDialog, Dialogs, PlansAreSound, Harmless, Present

LEMMA DialogOfImport ==
    ASSUME NEW units, units \subseteq Units, NEW group
    PROVE  LET d == [NoDialog EXCEPT !.kind = "conflicts", !.auto = Applicable(units, group),
                                     !.conflicts = Conflicting(units, group)]
           IN  /\ d \in Dialogs /\ PlansAreSound(d.plans) /\ Harmless(d, group) /\ Present(d, group)
<1>1. Applicable(units, group) \subseteq Units /\ Conflicting(units, group) \subseteq Units
  BY DEF Applicable, Conflicting
<1>2. PICK auto, conflicts : auto = Applicable(units, group) /\ conflicts = Conflicting(units, group)
  OBVIOUS
<1> DEFINE d == [NoDialog EXCEPT !.kind = "conflicts", !.auto = auto, !.conflicts = conflicts]
<1>3. d \in Dialogs /\ d.kind = "conflicts" /\ d.auto = auto /\ d.plans = {}
  BY <1>1, <1>2 DEF NoDialog, Dialogs
<1> HIDE DEF d
<1>4. PlansAreSound(d.plans)
  BY <1>3 DEF PlansAreSound
<1>5. Harmless(d, group) /\ Present(d, group)
  BY <1>2, <1>3 DEF Harmless, Present, Applicable, Conflicting
<1> QED
  BY <1>2, <1>3, <1>4, <1>5 DEF d

\* What follows a scan: the segments it made, perhaps with an import in them,
\* and perhaps a dialog that suits them.
LEMMA AfterScanDoes ==
    ASSUME HostType, NEW ask, ask.by \in {"user", "generate", "import"}, ask.units \subseteq Units,
           NEW group, AreSound(group), NEW error \in BOOLEAN, AfterScan(ask, group, error)
    PROVE  /\ AreSound(segments')
           /\ \A t \in segments' : t.edited => t \in group
           /\ \A s \in group : IsThere(s, segments') /\ \E t \in segments' : t.id = s.id
           /\ \/ dialog' = dialog
              \/ /\ dialog' \in Dialogs /\ PlansAreSound(dialog'.plans)
                 /\ Harmless(dialog', segments') /\ Present(dialog', segments')
<1>1. CASE ask.by = "generate" /\ ~error /\ {s \in group : s.status = "needs-validation"} = {}
  <2>1. segments' = group /\ \E plans \in PlanSets(group) :
                   dialog' = [NoDialog EXCEPT !.kind = "generate", !.plans = plans]
    BY <1>1 DEF AfterScan
  <2>2. PICK plans \in PlanSets(group) :
           dialog' = [NoDialog EXCEPT !.kind = "generate", !.plans = plans]
    BY <2>1
  <2>3. PlansAreSound(plans)
    BY <1>1, PlansOfSession
  <2> QED
    BY <2>1, <2>2, <2>3, DialogOfPlans DEF IsThere
<1>2. CASE ask.by = "import" /\ ~error /\ Conflicting(ask.units, group) = {}
  <2>1. segments' = ApplyXliffImport(Applicable(ask.units, group), group) /\ UNCHANGED dialog
    BY <1>2 DEF AfterScan
  <2>2. PICK units : units = Applicable(ask.units, group)
    OBVIOUS
  <2>3. units \subseteq Units
        /\ \A u \in units, s \in group :
              s.id = u.id /\ s.text = u.text /\ s.edited => s.target = u.target
    BY <2>2 DEF Applicable, Conflicting
  <2>4. /\ AreSound(segments')
        /\ \A t \in segments' : t.edited => t \in group
        /\ \A s \in group : \E t \in segments' : t.id = s.id
        /\ \A s \in group :
              \/ \E t \in segments' : t.text = s.text /\ t.target = s.target
              \/ \E u \in units : u.id = s.id /\ u.text = s.text /\ u.target # s.target
    BY <2>1, <2>2, <2>3, ImportKeeps
  <2> QED
    BY <2>1, <2>3, <2>4 DEF IsThere
<1>3. CASE ask.by = "import" /\ ~error /\ Conflicting(ask.units, group) # {}
  <2>1. /\ segments' = group
        /\ dialog' = [NoDialog EXCEPT !.kind = "conflicts", !.auto = Applicable(ask.units, group),
                                      !.conflicts = Conflicting(ask.units, group)]
    BY <1>3 DEF AfterScan
  <2> QED
    BY <2>1, DialogOfImport DEF IsThere
<1>4. CASE /\ ~(ask.by = "generate" /\ ~error /\ {s \in group : s.status = "needs-validation"} = {})
           /\ ~(ask.by = "import" /\ ~error)
  <2>1. segments' = group /\ UNCHANGED dialog
    BY <1>4 DEF AfterScan
  <2> QED
    BY <2>1 DEF IsThere
<1> QED
  BY <1>1, <1>2, <1>3, <1>4

-----------------------------------------------------------------------------
(* The steps of the session *)

\* What the user wrote stays (the action of EditsSurvive).
KeepsEdits ==
    \A s \in segments :
        \/ ~s.edited
        \/ \E t \in segments' : t.text = s.text /\ t.target = s.target
        \/ \E d \in Drafts : UpdateSegmentTarget(s, d)
        \/ \E u \in dialog.conflicts : u.id = s.id /\ u.text = s.text

LEMMA SessionFollows ==
    ASSUME host' = host, AreSound(segments'),
           scan' \in [running: BOOLEAN, error: BOOLEAN, token: 0..MaxScans],
           AsksAreSound(asks', scan'.token),
           DialogIsSound(dialog', segments', asks', scan'.token)
    PROVE  SessionInv'
<1>0. Ids' = Ids
  BY DEF Ids, ScannedId, LegacyId
<1>1. AreSound(segments)'
  <2>1. Segments' = Segments
    BY <1>0 DEF Segments
  <2> QED
    BY <2>1 DEF AreSound, SegmentIsSound, ScannedId, LegacyId
<1>2. AsksAreSound(asks, scan.token)'
  <2>1. AskType' = AskType
    BY <1>0 DEF AskType, Units, Scanned
  <2> QED
    BY <2>1 DEF AsksAreSound, ScannedId
<1>3. DialogIsSound(dialog, segments, asks, scan.token)'
  <2>1. Dialogs' = Dialogs /\ PlanSet' = PlanSet
    BY <1>0 DEF Dialogs, PlanSet, Units
  <2> QED
    BY <2>1 DEF DialogIsSound, PlansAreSound, Harmless, Present, ScannedId
<1> QED
  BY <1>1, <1>2, <1>3 DEF SessionInv, ScanType

LEMMA SessionStays ==
    ASSUME SessionInv, UNCHANGED <<host, segments, scan, asks, dialog>>
    PROVE  SessionInv' /\ KeepsEdits
<1>1. SessionInv'
  BY SessionFollows DEF SessionInv, ScanType
<1> QED
  BY <1>1 DEF KeepsEdits

\* A scan, of the editor or of the session as it is, ends.
LEMMA ScanEndsWell ==
    ASSUME HostType, SessionInv, host' = host,
           NEW ask, ask.by \in {"user", "generate", "import"}, ask.units \subseteq Units,
           NEW group, AreSound(group), NEW error \in BOOLEAN, AfterScan(ask, group, error),
           asks' \subseteq asks, scan'.token = scan.token,
           scan' \in [running: BOOLEAN, error: BOOLEAN, token: 0..MaxScans],
           \/ group = segments
           \/ /\ Heard(ask) /\ ask \in asks /\ ask \notin asks'
              /\ \A t \in group : Inherited(t, segments)
              /\ \A s \in segments : Survives(s, group)
    PROVE  SessionInv' /\ KeepsEdits
<1>1. /\ AreSound(segments')
      /\ \A t \in segments' : t.edited => t \in group
      /\ \A s \in group : IsThere(s, segments') /\ \E t \in segments' : t.id = s.id
      /\ \/ dialog' = dialog
         \/ /\ dialog' \in Dialogs /\ PlansAreSound(dialog'.plans)
            /\ Harmless(dialog', segments') /\ Present(dialog', segments')
  BY AfterScanDoes
<1>2. AsksAreSound(asks', scan'.token)
  BY DEF SessionInv, AsksAreSound
<1>3. \A t \in group : Inherited(t, segments)
  BY DEF Inherited
<1>4. \A s \in segments : Survives(s, group)
  BY DEF Survives
<1>5. ASSUME dialog' = dialog
      PROVE  DialogIsSound(dialog', segments', asks', scan'.token)
  <2>1. DialogIsSound(dialog, segments, asks, scan.token)
    BY DEF SessionInv
  <2>2. Harmless(dialog, segments')
    <3> SUFFICES ASSUME dialog.kind = "conflicts", NEW u \in dialog.auto, NEW t \in segments',
                        t.id = u.id, t.text = u.text, t.edited
                 PROVE  t.target = u.target
      BY DEF Harmless
    <3>1. t \in group
      BY <1>1
    <3>2. PICK s \in segments : /\ s.text = t.text /\ s.target = t.target /\ s.edited
                                /\ s.id = t.id \/ \A x \in segments : x.id # t.id
      BY <1>3, <3>1 DEF Inherited
    <3>3. CASE s.id = t.id
      BY <2>1, <3>2, <3>3 DEF DialogIsSound, Harmless
    <3>4. CASE \A x \in segments : x.id # t.id
      <4>1. CASE group = segments
        BY <3>1, <3>4, <4>1
      <4>2. CASE Heard(ask) /\ ask \in asks
        BY <2>1, <3>4, <4>2 DEF DialogIsSound, Present, Heard
      <4> QED
        BY <4>1, <4>2
    <3> QED
      BY <3>2, <3>3, <3>4
  <2>3. ASSUME NEW other \in asks', other.token = scan'.token
        PROVE  Present(dialog, segments')
    <3>1. Present(dialog, segments)
      BY <2>1, <2>3 DEF DialogIsSound
    <3>2. CASE group = segments
      BY <1>1, <3>1, <3>2 DEF Present
    <3>3. CASE Heard(ask) /\ ask \in asks /\ ask \notin asks'
      BY <2>3, <3>3 DEF Heard, SessionInv, AsksAreSound
    <3> QED
      BY <3>2, <3>3
  <2> QED
    BY <1>5, <2>1, <2>2, <2>3 DEF DialogIsSound
<1>6. DialogIsSound(dialog', segments', asks', scan'.token)
  BY <1>1, <1>5 DEF DialogIsSound
<1>7. KeepsEdits
  BY <1>1, <1>4 DEF KeepsEdits, Survives, IsThere
<1> QED
  BY <1>1, <1>2, <1>6, <1>7, SessionFollows

\* Segments that keep their identifiers and the user's texts under them suit
\* whatever dialog is open.
LEMMA SegmentsChange ==
    ASSUME SessionInv, UNCHANGED <<host, scan, asks, dialog>>, AreSound(segments'),
           \A t \in segments' : IsOld(t, segments),
           \A s \in segments : \E t \in segments' : t.id = s.id
    PROVE  SessionInv'
<1>1. DialogIsSound(dialog, segments, asks, scan.token) /\ AsksAreSound(asks, scan.token)
  BY DEF SessionInv
<1>2. Harmless(dialog, segments')
  BY <1>1 DEF DialogIsSound, Harmless, IsOld
<1>3. (\E ask \in asks : ask.token = scan.token) => Present(dialog, segments')
  BY <1>1 DEF DialogIsSound, Present
<1>4. DialogIsSound(dialog', segments', asks', scan'.token)
  BY <1>1, <1>2, <1>3 DEF DialogIsSound
<1> QED
  BY <1>1, <1>4, SessionFollows DEF SessionInv, ScanType

LEMMA TelemetryKeeps ==
    ASSUME HostType, DocType, SessionInv, NEW i \in DOMAIN doc, Telemetry(i)
    PROVE  SessionInv' /\ KeepsEdits
<1>1. i \in 1 .. MaxParas /\ doc[i] \in Sources
  <2>1. Len(doc) \in Nat /\ DOMAIN doc = 1 .. Len(doc) /\ Len(doc) <= MaxParas /\ doc[i] \in Sources
    BY DEF DocType
  <2>2. MaxParas \in Nat
    BY BoundsAssumption
  <2> QED
    BY <2>1, <2>2
<1>2. /\ TelemetryId(i) \in Ids
      /\ \A t : TelemetryId(i) = LegacyId(t) => doc[i] = t
  <2>1. CASE host = "Word"
    BY <1>1, <2>1, IdsTell DEF TelemetryId, Ids
  <2>2. CASE host # "Word"
    BY <1>1, <2>2, IdsTell DEF TelemetryId, Ids
  <2> QED
    BY <2>1, <2>2
<1>3. PICK p : p = [id |-> TelemetryId(i), text |-> doc[i], order |-> 0]
  OBVIOUS
<1>4. /\ p.id \in Ids /\ p.text \in Sources /\ p.order = 0
      /\ \A t : p.id = LegacyId(t) => p.text = t
  BY <1>1, <1>2, <1>3
<1>5. segments' = UpsertParagraphSegments(p) /\ UNCHANGED <<host, scan, asks, dialog>>
  BY <1>3 DEF Telemetry
<1>6. /\ AreSound(segments') /\ \A t \in segments' : IsOld(t, segments)
      /\ \A s \in segments : Survives(s, segments') /\ \E t \in segments' : t.id = s.id
  BY <1>4, <1>5, UpsertKeeps DEF SessionInv
<1>7. SessionInv'
  BY <1>5, <1>6, SegmentsChange
<1>8. KeepsEdits
  BY <1>6 DEF KeepsEdits, Survives
<1> QED
  BY <1>7, <1>8

LEMMA UpdateKeeps ==
    ASSUME HostType, SessionInv, NEW s \in segments, NEW d \in Drafts, UpdateSegmentTarget(s, d)
    PROVE  SessionInv' /\ KeepsEdits
<1>1. PICK t : t = [s EXCEPT !.target = d, !.edited = TRUE, !.status = "draft"]
  OBVIOUS
<1>2. /\ dialog = NoDialog /\ UNCHANGED <<host, scan, asks, dialog>>
      /\ segments' = (segments \ {s}) \cup {t}
  BY <1>1 DEF UpdateSegmentTarget
<1>3. s \in Segments /\ SegmentIsSound(s)
  BY DEF SessionInv, AreSound
<1>4. /\ t \in Segments /\ t.id = s.id /\ t.text = s.text /\ t.order = s.order /\ t.target = d
  BY <1>1, <1>3 DEF Segments
<1>5. SegmentIsSound(t)
  BY <1>3, <1>4, TextsApart DEF SegmentIsSound
<1>6. AreSound(segments')
  BY <1>2, <1>4, <1>5 DEF AreSound, SessionInv
<1>7. DialogIsSound(dialog', segments', asks', scan'.token)
  BY <1>2 DEF NoDialog, DialogIsSound, Harmless, Present, SessionInv
<1>8. SessionInv'
  BY <1>2, <1>6, <1>7, SessionFollows DEF SessionInv, ScanType
<1>9. KeepsEdits
  BY <1>2 DEF KeepsEdits
<1> QED
  BY <1>8, <1>9
LEMMA ScanStarts ==
    ASSUME HostType, SessionInv, host' = host, mode \in BOOLEAN, dialog = NoDialog,
           NEW by \in {"user", "generate", "import"}, NEW units, units \subseteq Units,
           ScanFullDocument(by, units)
    PROVE  SessionInv' /\ KeepsEdits
<1>1. PICK ask : ask = [token |-> scan.token + 1, by |-> by, units |-> units,
                        answer |-> "none", paras |-> {}]
  OBVIOUS
<1>2. scan.token \in 0 .. MaxScans /\ MaxScans \in Nat /\ scan.error \in BOOLEAN
  BY BoundsAssumption DEF SessionInv, ScanType
<1>3. CASE mode
  <2>1. /\ scan.token < MaxScans
        /\ scan' = [running |-> TRUE, error |-> FALSE, token |-> scan.token + 1]
        /\ asks' = asks \cup {ask} /\ UNCHANGED <<segments, dialog>>
    BY <1>1, <1>3 DEF ScanFullDocument
  <2>2. scan.token + 1 \in 1 .. MaxScans /\ scan.token + 1 \in 0 .. MaxScans
    BY <1>2, <2>1
  <2>3. scan' \in [running: BOOLEAN, error: BOOLEAN, token: 0..MaxScans] /\ scan'.token = scan.token + 1
    BY <2>1, <2>2
  <2>4. ask \in AskType /\ ask.token = scan.token + 1 /\ ask.paras = {}
    BY <1>1, <2>2 DEF AskType
  <2>5. \A a \in asks : a.token \in Nat /\ a.token <= scan.token /\ a.token < scan.token + 1
    <3>1. \A a \in asks : a.token \in 1 .. MaxScans /\ a.token <= scan.token
      BY DEF SessionInv, AsksAreSound, AskType
    <3> QED
      BY <1>2, <3>1
  <2>6. AsksAreSound(asks', scan'.token)
    <3>1. \A a \in asks' : a \in AskType /\ a.token <= scan'.token
      BY <1>2, <2>1, <2>3, <2>4, <2>5 DEF SessionInv, AsksAreSound
    <3>2. \A a \in asks' : \A p \in a.paras : p.id = ScannedId(p.order, p.text)
      BY <2>1, <2>4 DEF SessionInv, AsksAreSound
    <3>3. \A a, b \in asks' : a.token = b.token => a = b
      BY <1>2, <2>1, <2>4, <2>5 DEF SessionInv, AsksAreSound
    <3> QED
      BY <3>1, <3>2, <3>3 DEF AsksAreSound
  <2>7. DialogIsSound(dialog', segments', asks', scan'.token)
    BY <2>1 DEF NoDialog, DialogIsSound, Harmless, Present, SessionInv
  <2>8. SessionInv'
    BY <2>1, <2>3, <2>6, <2>7, SessionFollows DEF SessionInv
  <2> QED
    BY <2>1, <2>8 DEF KeepsEdits
<1>4. CASE ~mode
  <2>1. UNCHANGED <<scan, asks>> /\ AfterScan(ask, segments, scan.error)
    BY <1>1, <1>4 DEF ScanFullDocument
  <2>2. ask.by = by /\ ask.units = units /\ AreSound(segments)
    BY <1>1 DEF SessionInv
  <2> QED
    BY <1>2, <2>1, <2>2, ScanEndsWell DEF SessionInv, ScanType
<1> QED
  BY <1>3, <1>4

\* A file holds units of the session it was exported from.
LEMMA FilesHoldUnits ==
    ASSUME AreSound(segments), NEW units \in Files
    PROVE  units \subseteq Units
<1>1. PICK group \in SUBSET segments, d \in Drafts :
         units = {[id |-> s.id, text |-> s.text, target |-> d] : s \in group}
  BY DEF Files
<1>2. \A s \in group : s.id \in Ids /\ s.text \in Sources
  BY DEF AreSound, Segments
<1> QED
  BY <1>1, <1>2 DEF Units

LEMMA ImportXliffKeeps ==
    ASSUME HostType, SessionInv, mode \in BOOLEAN,
           NEW units \in Files, NEW connected \in BOOLEAN, ImportXliff(units, connected)
    PROVE  SessionInv' /\ KeepsEdits
<1>1. units \subseteq Units /\ dialog = NoDialog /\ host' = host
  BY FilesHoldUnits DEF SessionInv, ImportXliff, Idle
<1>2. CASE connected
  <2>1. ScanFullDocument("import", units)
    BY <1>2 DEF ImportXliff
  <2> QED
    BY <1>1, <2>1, ScanStarts
<1>3. CASE ~connected
  <2>1. PICK ask : ask = [by |-> "import", units |-> units]
    OBVIOUS
  <2>4. PICK error \in BOOLEAN : error = FALSE
    OBVIOUS
  <2>2. AfterScan(ask, segments, error) /\ UNCHANGED <<scan, asks>>
    BY <1>3, <2>1, <2>4 DEF ImportXliff
  <2>3. ask.by = "import" /\ ask.units = units /\ AreSound(segments)
    BY <2>1 DEF SessionInv
  <2> QED
    BY <1>1, <2>2, <2>3, ScanEndsWell DEF SessionInv, ScanType
<1> QED
  BY <1>2, <1>3

LEMMA ResolveKeeps ==
    ASSUME HostType, SessionInv, NEW chosen \in SUBSET dialog.conflicts, ResolveConflicts(chosen)
    PROVE  SessionInv' /\ KeepsEdits
<1>1. PICK units : units = dialog.auto \cup chosen
  OBVIOUS
<1>2. DialogIsSound(dialog, segments, asks, scan.token) /\ dialog.kind = "conflicts"
  BY DEF SessionInv, ResolveConflicts
<1>3. units \subseteq Units
  BY <1>1, <1>2 DEF DialogIsSound, Dialogs
<1>4. /\ segments' = ApplyXliffImport(units, segments) /\ dialog' = NoDialog
      /\ UNCHANGED <<host, scan, asks>>
  BY <1>1 DEF ResolveConflicts
<1>5. /\ AreSound(segments')
      /\ \A s \in segments :
            \/ \E t \in segments' : t.text = s.text /\ t.target = s.target
            \/ \E u \in units : u.id = s.id /\ u.text = s.text /\ u.target # s.target
  BY <1>3, <1>4, ImportKeeps DEF SessionInv
<1>6. DialogIsSound(dialog', segments', asks', scan'.token)
  BY <1>4 DEF NoDialog, DialogIsSound, Harmless, Present, Dialogs, PlansAreSound
<1>7. SessionInv'
  BY <1>4, <1>5, <1>6, SessionFollows DEF SessionInv, ScanType
<1>8. KeepsEdits
  <2> SUFFICES ASSUME NEW s \in segments, s.edited
               PROVE  \/ \E t \in segments' : t.text = s.text /\ t.target = s.target
                      \/ \E u \in dialog.conflicts : u.id = s.id /\ u.text = s.text
    BY DEF KeepsEdits
  <2>1. ASSUME NEW u \in units, u.id = s.id, u.text = s.text, u.target # s.target
        PROVE  u \in dialog.conflicts
    BY <1>1, <1>2, <2>1 DEF DialogIsSound, Harmless
  <2> QED
    BY <1>5, <2>1
<1> QED
  BY <1>7, <1>8
LEMMA EnumerateKeeps ==
    ASSUME HostType, DocType, SessionInv, NEW ask \in asks, Enumerate(ask)
    PROVE  SessionInv' /\ KeepsEdits
<1>1. PICK ok, new :
         /\ ok \in BOOLEAN /\ new = [ask EXCEPT !.answer = IF ok THEN "paragraphs" ELSE "error",
                              !.paras = IF ok THEN Enumerated(doc) ELSE {}]
         /\ asks' = (asks \ {ask}) \cup {new}
  BY DEF Enumerate
<1>2. UNCHANGED <<host, segments, scan, dialog>>
  BY DEF Enumerate
<1>3. MaxParas \in Nat /\ Len(doc) \in Nat /\ Len(doc) <= MaxParas /\ DOMAIN doc = 1 .. Len(doc)
  BY BoundsAssumption DEF DocType
<1>4. \A p \in Enumerated(doc) : p \in Scanned /\ p.id = ScannedId(p.order, p.text)
  <2>1. ASSUME NEW i \in DOMAIN doc
        PROVE  /\ [id |-> ScannedId(i, doc[i]), text |-> doc[i], order |-> i] \in Scanned
               /\ doc[i] \in Sources /\ i \in 1 .. MaxParas
    <3>1. i \in 1 .. MaxParas /\ doc[i] \in Sources
      BY <1>3 DEF DocType
    <3> QED
      BY <3>1 DEF Scanned, Ids
  <2> QED
    BY <2>1 DEF Enumerated
<1>5. PICK paras : paras = (IF ok THEN Enumerated(doc) ELSE {})
  OBVIOUS
<1>6. paras \subseteq Scanned /\ \A p \in paras : p.id = ScannedId(p.order, p.text)
  BY <1>4, <1>5
<1>7. /\ ask \in AskType /\ ask.token <= scan.token
      /\ \A a \in asks : a.token = ask.token => a = ask
  BY DEF SessionInv, AsksAreSound
<1>8. new \in AskType /\ new.token = ask.token /\ new.paras = paras
  BY <1>1, <1>5, <1>6, <1>7 DEF AskType
<1>9. AsksAreSound(asks', scan'.token)
  <2>1. \A a \in asks' : a \in AskType /\ a.token <= scan'.token
    BY <1>1, <1>2, <1>7, <1>8 DEF SessionInv, AsksAreSound
  <2>2. \A a \in asks' : \A p \in a.paras : p.id = ScannedId(p.order, p.text)
    BY <1>1, <1>6, <1>8 DEF SessionInv, AsksAreSound
  <2>3. \A a, b \in asks' : a.token = b.token => a = b
    BY <1>1, <1>7, <1>8 DEF SessionInv, AsksAreSound
  <2> QED
    BY <2>1, <2>2, <2>3 DEF AsksAreSound
<1>10. DialogIsSound(dialog', segments', asks', scan'.token)
  BY <1>1, <1>2, <1>8 DEF SessionInv, DialogIsSound
<1>11. SessionInv'
  BY <1>2, <1>9, <1>10, SessionFollows DEF SessionInv, ScanType
<1> QED
  BY <1>2, <1>11 DEF KeepsEdits

LEMMA ScanAnsweredKeeps ==
    ASSUME HostType, SessionInv, NEW ask \in asks, ScanAnswered(ask)
    PROVE  SessionInv' /\ KeepsEdits
<1>1. /\ ask \in AskType /\ asks' = asks \ {ask} /\ host' = host
      /\ \A p \in ask.paras : p.id = ScannedId(p.order, p.text)
  BY DEF ScanAnswered, SessionInv, AsksAreSound
<1>2. ask.by \in {"user", "generate", "import"} /\ ask.units \subseteq Units
      /\ ask.paras \subseteq Scanned
  BY <1>1 DEF AskType
<1>3. scan \in [running: BOOLEAN, error: BOOLEAN, token: 0..MaxScans] /\ AreSound(segments)
  BY DEF SessionInv, ScanType
<1>4. CASE Heard(ask)
  <2>1. PICK error \in BOOLEAN : error = (ask.answer = "error")
    OBVIOUS
  <2>2. PICK group : group = (IF error THEN segments ELSE MergeScannedParagraphs(ask.paras))
    OBVIOUS
  <2>3. scan' = [scan EXCEPT !.running = FALSE, !.error = error] /\ AfterScan(ask, group, error)
    BY <1>4, <2>1, <2>2 DEF ScanAnswered
  <2>4. scan' \in [running: BOOLEAN, error: BOOLEAN, token: 0..MaxScans] /\ scan'.token = scan.token
    BY <1>3, <2>3
  <2>5. CASE group = segments
    BY <1>1, <1>2, <1>3, <2>3, <2>4, <2>5, ScanEndsWell
  <2>6. CASE group = MergeScannedParagraphs(ask.paras)
    <3>1. /\ AreSound(group) /\ \A t \in group : Inherited(t, segments)
          /\ \A s \in segments : Survives(s, group)
      BY <1>1, <1>2, <1>3, <2>6, MergeKeeps
    <3> QED
      BY <1>1, <1>2, <1>4, <2>3, <2>4, <3>1, ScanEndsWell
  <2> QED
    BY <2>2, <2>5, <2>6
<1>5. CASE ~Heard(ask)
  <2>1. scan' = scan /\ AfterScan(ask, segments, scan.error) /\ scan.error \in BOOLEAN
    BY <1>3, <1>5 DEF ScanAnswered
  <2> QED
    BY <1>1, <1>2, <1>3, <2>1, ScanEndsWell
<1> QED
  BY <1>4, <1>5

LEMMA ScanTimeoutKeeps ==
    ASSUME HostType, SessionInv, NEW ask \in asks, ScanTimeout(ask)
    PROVE  SessionInv' /\ KeepsEdits
<1>1. ask \in AskType /\ asks' = asks \ {ask} /\ host' = host
  BY DEF ScanTimeout, SessionInv, AsksAreSound
<1>2. ask.by \in {"user", "generate", "import"} /\ ask.units \subseteq Units
  BY <1>1 DEF AskType
<1>3. scan \in [running: BOOLEAN, error: BOOLEAN, token: 0..MaxScans] /\ AreSound(segments)
  BY DEF SessionInv, ScanType
<1>4. scan' \in [running: BOOLEAN, error: BOOLEAN, token: 0..MaxScans] /\ scan'.token = scan.token
  <2>1. CASE Heard(ask)
    BY <1>3, <2>1 DEF ScanTimeout
  <2>2. CASE ~Heard(ask)
    BY <1>3, <2>2 DEF ScanTimeout
  <2> QED
    BY <2>1, <2>2
<1>5. PICK error \in BOOLEAN : error = scan'.error
  BY <1>4
<1>6. AfterScan(ask, segments, error)
  BY <1>5 DEF ScanTimeout
<1> QED
  BY <1>1, <1>2, <1>3, <1>4, <1>6, ScanEndsWell

LEMMA CancelScanKeeps ==
    ASSUME SessionInv, CancelScan
    PROVE  SessionInv' /\ KeepsEdits
<1>1. /\ UNCHANGED <<host, segments, asks, dialog>>
      /\ scan.token < MaxScans
      /\ scan' = [running |-> FALSE, error |-> FALSE, token |-> scan.token + 1]
  BY DEF CancelScan
<1>2. scan.token \in 0 .. MaxScans /\ MaxScans \in Nat
  BY BoundsAssumption DEF SessionInv, ScanType
<1>3. scan' \in [running: BOOLEAN, error: BOOLEAN, token: 0..MaxScans] /\ scan'.token = scan.token + 1
  <2>1. scan.token + 1 \in 0 .. MaxScans
    BY <1>1, <1>2
  <2> QED
    BY <1>1, <2>1
<1>4. \A ask \in asks : ask.token \in Nat /\ ask.token <= scan.token
  <2>1. \A ask \in asks : ask.token \in 1 .. MaxScans /\ ask.token <= scan.token
    BY DEF SessionInv, AsksAreSound, AskType
  <2> QED
    BY <1>2, <2>1
<1>5. \A ask \in asks : ask.token <= scan.token + 1 /\ ask.token # scan.token + 1
  BY <1>2, <1>4
<1>6. AsksAreSound(asks', scan'.token)
  BY <1>1, <1>3, <1>5 DEF SessionInv, AsksAreSound
<1>7. DialogIsSound(dialog', segments', asks', scan'.token)
  BY <1>1, <1>3, <1>5 DEF SessionInv, DialogIsSound
<1>8. SessionInv'
  BY <1>1, <1>3, <1>6, <1>7, SessionFollows DEF SessionInv
<1> QED
  BY <1>1, <1>8 DEF KeepsEdits

LEMMA RestartKeeps ==
    ASSUME SessionInv, Restart
    PROVE  SessionInv' /\ KeepsEdits
<1>1. /\ segments' = Invalid(segments) /\ scan' = NoScan /\ asks' = {}
      /\ dialog' = NoDialog /\ host' = host
  BY DEF Restart
<1>2. AreSound(segments') /\ \A s \in segments : \E t \in segments' :
         s.text = t.text /\ s.target = t.target
  BY <1>1, SetInvalid DEF SessionInv
<1>3. scan' \in [running: BOOLEAN, error: BOOLEAN, token: 0..MaxScans]
  <2>1. 0 \in 0 .. MaxScans
    BY BoundsAssumption
  <2> QED
    BY <1>1, <2>1 DEF NoScan
<1>4. AsksAreSound(asks', scan'.token)
  BY <1>1 DEF AsksAreSound
<1>5. DialogIsSound(dialog', segments', asks', scan'.token)
  BY <1>1 DEF NoDialog, DialogIsSound, Harmless, Present, Dialogs, PlansAreSound
<1>6. SessionInv'
  BY <1>1, <1>2, <1>3, <1>4, <1>5, SessionFollows
<1> QED
  BY <1>2, <1>6 DEF KeepsEdits

LEMMA DialogCloses ==
    ASSUME SessionInv, dialog' = NoDialog, UNCHANGED <<host, segments, scan, asks>>
    PROVE  SessionInv' /\ KeepsEdits
<1>1. DialogIsSound(dialog', segments', asks', scan'.token)
  BY DEF NoDialog, DialogIsSound, Harmless, Present, Dialogs, PlansAreSound
<1>2. SessionInv'
  BY <1>1, SessionFollows DEF SessionInv, ScanType
<1> QED
  BY <1>2 DEF KeepsEdits
-----------------------------------------------------------------------------
(* The generations *)

LEMMA JobsFollow ==
    ASSUME host' = host, jobs' \in Seq(Jobs), Len(jobs') <= MaxGenerations,
           \A n \in DOMAIN jobs' : JobIsSound(jobs'[n])
    PROVE  JobInv'
<1>1. PlanSet' = PlanSet /\ Working' = Working
  BY DEF PlanSet, Ids, ScannedId, LegacyId, Working
<1>2. Jobs' = Jobs
  BY <1>1 DEF Jobs
<1> QED
  BY <1>1, <1>2, ZenonT(60) DEF JobInv, JobIsSound, PlansAreSound, ScannedId, Progress, PutDown, Working

LEMMA JobsStay ==
    ASSUME JobInv, UNCHANGED <<host, jobs>>
    PROVE  JobInv'
BY JobsFollow DEF JobInv

LEMMA OneJobChanges ==
    ASSUME JobInv, host' = host, NEW n \in DOMAIN jobs, NEW job \in Jobs, JobIsSound(job),
           jobs' = [jobs EXCEPT ![n] = job]
    PROVE  JobInv'
<1>1. jobs \in Seq(Jobs) /\ n \in 1 .. Len(jobs)
  BY DEF JobInv
<1>2. jobs' \in Seq(Jobs) /\ Len(jobs') = Len(jobs)
  BY <1>1, ExceptSeq
<1>3. \A m \in DOMAIN jobs' : jobs'[m] = IF m = n THEN job ELSE jobs[m]
  BY <1>1
<1>4. \A m \in DOMAIN jobs' : JobIsSound(jobs'[m])
  BY <1>1, <1>3 DEF JobInv
<1> QED
  BY <1>2, <1>4, JobsFollow DEF JobInv

\* A generation that has the same plans, texts and copy has come as far, also
\* when the answer about it has been given.
LEMMA SameProgress ==
    ASSUME NEW job, Progress(job), NEW new, new.plans = job.plans, new.left = job.left,
           new.source = job.source, new.paras = job.paras
    PROVE  Progress(new)
<1>1. PICK f \in [job.plans \ job.left -> DOMAIN job.source] : PutDown(job, f)
  BY DEF Progress
<1>2. PutDown(new, f)
  BY <1>1 DEF PutDown
<1> QED
  BY <1>2 DEF Progress

LEMMA SameJob ==
    ASSUME NEW job \in Jobs, JobIsSound(job), NEW new, new.plans = job.plans,
           new.left = job.left, new.source = job.source, new.paras = job.paras,
           new.copy = job.copy, new.temporary = job.temporary, new.status = job.status,
           new.stage = job.stage \/ (job.stage = "done" /\ new.stage = "over")
    PROVE  JobIsSound(new)
<1>1. new.stage = "writing" \/ new.status = "SUCCESS" => Progress(new)
  <2> SUFFICES ASSUME new.stage = "writing" \/ new.status = "SUCCESS"
               PROVE  Progress(new)
    OBVIOUS
  <2>1. Progress(job)
    BY DEF JobIsSound
  <2> QED
    BY <2>1, SameProgress
<1> QED
  BY <1>1 DEF JobIsSound, Working

\* A generation ends, with success when every plan is written.
LEMMA EndedIsSound ==
    ASSUME HostType, NEW job \in Jobs, JobIsSound(job), job.stage \in Working,
           NEW status \in {"SUCCESS", "FAILED", "CANCELLED", "ORIGINAL_UNSAVED",
                           "FINGERPRINT_MISMATCH"},
           status = "SUCCESS" => job.stage = "writing" /\ job.left = {}
    PROVE  Ended(job, status) \in Jobs /\ JobIsSound(Ended(job, status))
<1> DEFINE new == Ended(job, status)
<1>1. PICK copy \in BOOLEAN :
        copy = (job.copy /\ (status = "SUCCESS" \/ (host = "Word" /\ status # "CANCELLED")))
  BY DEF Jobs
<1>2. new = [job EXCEPT !.stage = "done", !.status = status, !.temporary = FALSE, !.copy = copy]
  BY <1>1 DEF Ended
<1>3. /\ new \in Jobs /\ new.plans = job.plans /\ new.left = job.left /\ new.stage = "done"
      /\ new.source = job.source /\ new.paras = job.paras /\ new.temporary = FALSE
      /\ new.status = status /\ new.copy = copy
  BY <1>2 DEF Jobs
<1> HIDE DEF new
<1>4. new.status = "SUCCESS" => Progress(new)
  <2> SUFFICES ASSUME new.status = "SUCCESS"
               PROVE  Progress(new)
    OBVIOUS
  <2>1. Progress(job)
    BY <1>3 DEF JobIsSound
  <2> QED
    BY <1>3, <2>1, SameProgress
<1>5. JobIsSound(new)
  BY <1>1, <1>3, <1>4 DEF JobIsSound, Working, HostType
<1> QED
  BY <1>3, <1>5 DEF new

LEMMA EndKeeps ==
    ASSUME HostType, JobInv, NEW n \in DOMAIN jobs, jobs[n].stage \in Working,
           NEW status \in {"SUCCESS", "FAILED", "CANCELLED", "ORIGINAL_UNSAVED",
                           "FINGERPRINT_MISMATCH"},
           status = "SUCCESS" => jobs[n].stage = "writing" /\ jobs[n].left = {},
           Become(n, Ended(jobs[n], status))
    PROVE  JobInv'
<1>1. jobs[n] \in Jobs /\ JobIsSound(jobs[n])
  BY DEF JobInv
<1>2. Ended(jobs[n], status) \in Jobs /\ JobIsSound(Ended(jobs[n], status))
  BY <1>1, EndedIsSound
<1> QED
  BY <1>2, OneJobChanges DEF Become
LEMMA MakeCopyKeeps ==
    ASSUME HostType, DocType, JobInv, NEW n \in DOMAIN jobs, MakeCopy(n)
    PROVE  JobInv'
<1>1. jobs[n] \in Jobs /\ JobIsSound(jobs[n]) /\ jobs[n].stage = "asked" /\ "asked" \in Working
  BY DEF JobInv, MakeCopy, Working
<1>2. CASE \/ Cancelled(n) \/ Fail(n)
           \/ host = "Word" /\ Become(n, Ended(jobs[n], "ORIGINAL_UNSAVED"))
  BY <1>1, <1>2, EndKeeps DEF Cancelled, Fail
<1>3. CASE Become(n, [jobs[n] EXCEPT !.stage = "copied", !.source = doc, !.paras = doc,
                                     !.copy = TRUE, !.temporary = host = "InDesign"])
  <2>1. PICK temporary \in BOOLEAN : temporary = (host = "InDesign")
    OBVIOUS
  <2>2. PICK new : new = [jobs[n] EXCEPT !.stage = "copied", !.source = doc, !.paras = doc,
                                         !.copy = TRUE, !.temporary = temporary]
    OBVIOUS
  <2>3. doc \in Seq(Sources) /\ doc \in Seq(Sources \cup Drafts \cup {"mixed"})
    BY DEF DocType
  <2>4. /\ new \in Jobs /\ new.plans = jobs[n].plans /\ new.left = jobs[n].left
        /\ new.stage = "copied" /\ new.source = doc /\ new.paras = doc /\ new.copy = TRUE
        /\ new.status = jobs[n].status
    BY <1>1, <2>2, <2>3 DEF Jobs, Working
  <2>5. JobIsSound(new)
    BY <1>1, <2>4 DEF JobIsSound, Working
  <2> QED
    BY <1>3, <2>1, <2>2, <2>4, <2>5, OneJobChanges DEF Become
<1> QED
  BY <1>2, <1>3 DEF MakeCopy

\* A plan has one place at most, with the text it translates.
LEMMA PlacesOne ==
    ASSUME HostType, NEW paras, IsFiniteSet(DOMAIN paras), NEW plan, Places(paras, plan) # {}
    PROVE  \E i \in DOMAIN paras : /\ Places(paras, plan) = {i} /\ paras[i] = plan.text
                                   /\ host = "Word" => i = plan.order
<1> DEFINE there == {i \in DOMAIN paras : i = plan.order /\ paras[i] = plan.text}
           other == {i \in DOMAIN paras : paras[i] = plan.text}
<1>1. Places(paras, plan) = IF host = "Word" \/ there # {} THEN there
                            ELSE IF Cardinality(other) = 1 THEN other ELSE {}
  BY DEF Places
<1>2. CASE there # {}
  BY <1>1, <1>2
<1>3. CASE there = {}
  <2>1. Places(paras, plan) = other /\ Cardinality(other) = 1 /\ host # "Word"
    BY <1>1, <1>3
  <2>2. IsFiniteSet(other)
    BY FS_Subset
  <2>3. PICK i : other = {i}
    BY <2>1, <2>2, FS_Singleton
  <2> QED
    BY <2>1, <2>3
<1> QED
  BY <1>2, <1>3

LEMMA ParasAreFinite ==
    ASSUME NEW S, NEW s \in Seq(S)
    PROVE  IsFiniteSet(DOMAIN s)
<1>1. Len(s) \in Nat /\ DOMAIN s = 1 .. Len(s)
  OBVIOUS
<1> QED
  BY <1>1, FS_Interval

LEMMA VerifyCopyKeeps ==
    ASSUME HostType, JobInv, NEW n \in DOMAIN jobs, VerifyCopy(n)
    PROVE  JobInv'
<1>1. PICK job : job = jobs[n]
  OBVIOUS
<1>2. job \in Jobs /\ JobIsSound(job) /\ job.stage = "copied" /\ "copied" \in Working
  BY <1>1 DEF JobInv, VerifyCopy, Working
<1>3. CASE Cancelled(n) \/ Fail(n)
  BY <1>1, <1>2, <1>3, EndKeeps DEF Cancelled, Fail
<1>4. CASE Become(n, Ended(job, "FINGERPRINT_MISMATCH"))
  BY <1>1, <1>2, <1>4, EndKeeps
<1>5. CASE /\ {p \in job.plans : Places(job.paras, p) = {}} = {}
           /\ Become(n, [job EXCEPT !.stage = "writing"])
  <2>1. PICK new : new = [job EXCEPT !.stage = "writing"]
    OBVIOUS
  <2>2. /\ new \in Jobs /\ new.plans = job.plans /\ new.left = job.left /\ new.stage = "writing"
        /\ new.source = job.source /\ new.paras = job.paras /\ new.copy = job.copy
        /\ new.status = job.status
    BY <1>2, <2>1 DEF Jobs, Working
  <2>3. job.left = job.plans /\ job.paras = job.source /\ job.status = "none" /\ job.copy = TRUE
    BY <1>2 DEF JobIsSound, Working
  <2>4. Progress(new)
    <3>1. PICK f : f = [p \in new.plans \ new.left |-> 1]
      OBVIOUS
    <3>2. new.plans \ new.left = {}
      BY <2>2, <2>3
    <3>3. f \in [new.plans \ new.left -> DOMAIN new.source] /\ PutDown(new, f)
      BY <2>2, <2>3, <3>1, <3>2 DEF PutDown
    <3> QED
      BY <2>2, <2>3, <3>3 DEF Progress
  <2>5. ASSUME host = "Word", NEW p \in new.left
        PROVE  p.order \in DOMAIN new.paras /\ new.paras[p.order] = p.text
    <3>1. Places(job.paras, p) # {}
      BY <1>5, <2>2, <2>3
    <3>2. IsFiniteSet(DOMAIN job.paras)
      BY <1>2, ParasAreFinite DEF Jobs
    <3> QED
      BY <2>2, <2>5, <3>1, <3>2, PlacesOne
  <2>6. JobIsSound(new)
    BY <1>2, <2>2, <2>3, <2>4, <2>5 DEF JobIsSound, Working
  <2> QED
    BY <1>1, <1>5, <2>1, <2>2, <2>6, OneJobChanges DEF Become
<1> QED
  BY <1>1, <1>3, <1>4, <1>5 DEF VerifyCopy
\* The first of some plans is one of them.
LEMMA FirstIsOne ==
    ASSUME NEW plans, plans \subseteq PlanSet, plans # {}
    PROVE  First(plans) \in plans
<1> DEFINE orders == {p.order : p \in plans}
<1>1. orders \subseteq Nat /\ orders # {}
  <2>1. \A p \in plans : p.order \in 1 .. MaxParas
    BY DEF PlanSet
  <2> QED
    BY <2>1
<1>2. PICK least \in orders : \A o \in orders : least <= o
  BY <1>1, LeastNumber
<1>3. PICK p \in plans : \A q \in plans : p.order <= q.order
  BY <1>2
<1> QED
  BY <1>3 DEF First

\* The places of plans that are written together differ: Word's have the text of
\* the paragraph at their position, so two at one position have one identifier.
LEMMA ChunkHasPlaces ==
    ASSUME HostType, NEW job \in Jobs, JobIsSound(job), job.stage = "writing",
           NEW next \in job.left, Places(job.paras, next) # {},
           NEW chunk, chunk = {next} \/ (host = "Word" /\ chunk = job.left)
    PROVE  \E g \in [chunk -> DOMAIN job.paras] :
              /\ \A p \in chunk : Places(job.paras, p) = {g[p]} /\ job.paras[g[p]] = p.text
              /\ \A p, q \in chunk : g[p] = g[q] => p = q
<1>1. IsFiniteSet(DOMAIN job.paras)
  BY ParasAreFinite DEF Jobs
<1>2. ASSUME NEW p \in chunk
      PROVE  \E i \in DOMAIN job.paras : /\ Places(job.paras, p) = {i} /\ job.paras[i] = p.text
                                         /\ host = "Word" => i = p.order
  <2>1. CASE p = next
    BY <1>1, <2>1, PlacesOne
  <2>2. CASE host = "Word" /\ p \in job.left
    <3>1. p.order \in DOMAIN job.paras /\ job.paras[p.order] = p.text
      BY <2>2 DEF JobIsSound
    <3>2. Places(job.paras, p) # {}
      BY <2>2, <3>1 DEF Places
    <3> QED
      BY <1>1, <3>2, PlacesOne
  <2> QED
    BY <2>1, <2>2
<1>3. PICK g : g = [p \in chunk |-> CHOOSE i \in DOMAIN job.paras :
                        /\ Places(job.paras, p) = {i} /\ job.paras[i] = p.text
                        /\ host = "Word" => i = p.order]
  OBVIOUS
<1>4. ASSUME NEW p \in chunk
      PROVE  /\ g[p] \in DOMAIN job.paras /\ Places(job.paras, p) = {g[p]}
             /\ job.paras[g[p]] = p.text /\ (host = "Word" => g[p] = p.order)
  BY <1>2, <1>3
<1>5. ASSUME NEW p \in chunk, NEW q \in chunk, g[p] = g[q]
      PROVE  p = q
  <2>1. CASE chunk = {next}
    BY <2>1
  <2>2. CASE host = "Word" /\ chunk = job.left
    <3>1. p.order = q.order /\ p.text = q.text
      BY <1>4, <1>5, <2>2
    <3>2. p \in job.plans /\ q \in job.plans /\ PlansAreSound(job.plans)
      BY <2>2 DEF JobIsSound
    <3>3. p.id = q.id
      BY <3>1, <3>2 DEF PlansAreSound
    <3> QED
      BY <3>2, <3>3 DEF PlansAreSound
  <2> QED
    BY <2>1, <2>2
<1>6. g \in [chunk -> DOMAIN job.paras]
  BY <1>3, <1>4
<1> QED
  BY <1>4, <1>5, <1>6

\* What is written is each plan's target in its place.
LEMMA WrittenDoes ==
    ASSUME NEW paras, NEW chunk, NEW g \in [chunk -> DOMAIN paras],
           \A p \in chunk : Places(paras, p) = {g[p]},
           \A p, q \in chunk : g[p] = g[q] => p = q
    PROVE  /\ DOMAIN Written(paras, chunk) = DOMAIN paras
           /\ \A p \in chunk : Written(paras, chunk)[g[p]] = p.target
           /\ \A i \in DOMAIN paras : (\A p \in chunk : g[p] # i) => Written(paras, chunk)[i] = paras[i]
<1> DEFINE here(i) == CHOOSE p \in chunk : i \in Places(paras, p)
<1>1. Written(paras, chunk) = [i \in DOMAIN paras |->
         IF \E p \in chunk : i \in Places(paras, p) THEN here(i).target ELSE paras[i]]
  BY DEF Written
<1>2. ASSUME NEW p \in chunk
      PROVE  Written(paras, chunk)[g[p]] = p.target
  <2>1. g[p] \in DOMAIN paras /\ g[p] \in Places(paras, p)
    OBVIOUS
  <2>2. here(g[p]) \in chunk /\ g[p] \in Places(paras, here(g[p]))
    BY <2>1
  <2>3. here(g[p]) = p
    BY <2>2
  <2> QED
    BY <1>1, <2>1, <2>3
<1>3. ASSUME NEW i \in DOMAIN paras, \A p \in chunk : g[p] # i
      PROVE  Written(paras, chunk)[i] = paras[i]
  BY <1>1, <1>3
<1> QED
  BY <1>1, <1>2, <1>3
\* What is put down stays where it is, and the new targets come beside it: a
\* paragraph that has been written holds no source any more.
LEMMA ChunkIsPutDown ==
    ASSUME NEW job \in Jobs, PlansAreSound(job.plans), job.left \subseteq job.plans, Progress(job),
           NEW chunk, chunk \subseteq job.left,
           NEW g \in [chunk -> DOMAIN job.paras],
           \A p \in chunk : Places(job.paras, p) = {g[p]} /\ job.paras[g[p]] = p.text,
           \A p, q \in chunk : g[p] = g[q] => p = q,
           NEW new, new.plans = job.plans, new.left = job.left \ chunk, new.source = job.source,
           new.paras = Written(job.paras, chunk)
    PROVE  Progress(new)
<1>1. DOMAIN job.paras = DOMAIN job.source
  BY DEF Progress
<1>2. PICK f \in [job.plans \ job.left -> DOMAIN job.source] : PutDown(job, f)
  BY DEF Progress
<1>3. /\ DOMAIN new.paras = DOMAIN job.paras
      /\ \A p \in chunk : new.paras[g[p]] = p.target
      /\ \A i \in DOMAIN job.paras : (\A p \in chunk : g[p] # i) => new.paras[i] = job.paras[i]
  BY WrittenDoes
<1>4. \A p \in job.plans : p.text \in Sources /\ p.target \notin Sources
  <2>1. \A p \in job.plans : p.text \in Sources /\ p.target \in Drafts \cup {"mixed"}
    BY DEF PlansAreSound, PlanSet
  <2> QED
    BY <2>1, TextsApart
<1>5. PICK h : h = [p \in new.plans \ new.left |-> IF p \in chunk THEN g[p] ELSE f[p]]
  OBVIOUS
<1>6. new.plans \ new.left = (job.plans \ job.left) \cup chunk
  OBVIOUS
<1>7. ASSUME NEW p \in new.plans \ new.left
      PROVE  IF p \in chunk THEN h[p] = g[p]
             ELSE p \in job.plans \ job.left /\ h[p] = f[p]
  BY <1>5, <1>6
<1>8. h \in [new.plans \ new.left -> DOMAIN new.source]
  BY <1>1, <1>5, <1>6
<1>9. ASSUME NEW p \in job.plans \ job.left, NEW q \in chunk
      PROVE  f[p] # g[q]
  <2>1. job.paras[f[p]] = p.target /\ job.paras[g[q]] = q.text /\ q \in job.plans
    BY <1>2 DEF PutDown
  <2> QED
    BY <1>4, <2>1
<1>10. ASSUME NEW q \in chunk
       PROVE  job.source[g[q]] = q.text
  <2>1. g[q] \in DOMAIN job.source /\ job.paras[g[q]] = q.text
    BY <1>1
  <2>2. job.paras[g[q]] = job.source[g[q]]
    BY <1>2, <1>9, <2>1 DEF PutDown
  <2> QED
    BY <2>1, <2>2
<1>11. ASSUME NEW p \in new.plans \ new.left, NEW q \in new.plans \ new.left, h[p] = h[q]
       PROVE  p = q
  BY <1>2, <1>7, <1>9, <1>11 DEF PutDown
<1>12. ASSUME NEW p \in new.plans \ new.left
       PROVE  new.source[h[p]] = p.text /\ new.paras[h[p]] = p.target
  <2>1. CASE p \in chunk
    BY <1>3, <1>7, <1>10, <2>1
  <2>2. CASE p \notin chunk
    <3>1. p \in job.plans \ job.left /\ h[p] = f[p] /\ f[p] \in DOMAIN job.paras
      BY <1>1, <1>7, <2>2
    <3>2. new.paras[f[p]] = job.paras[f[p]]
      BY <1>3, <1>9, <3>1
    <3> QED
      BY <1>2, <3>1, <3>2 DEF PutDown
  <2> QED
    BY <2>1, <2>2
<1>13. ASSUME NEW i \in DOMAIN new.source, new.paras[i] # new.source[i]
       PROVE  \E p \in new.plans \ new.left : h[p] = i
  <2>1. CASE \E p \in chunk : g[p] = i
    BY <1>6, <1>7, <2>1
  <2>2. CASE \A p \in chunk : g[p] # i
    <3>1. job.paras[i] # job.source[i] /\ i \in DOMAIN job.source
      BY <1>1, <1>3, <1>13, <2>2
    <3>2. PICK p \in job.plans \ job.left : f[p] = i
      BY <1>2, <3>1 DEF PutDown
    <3>3. p \notin chunk /\ p \in new.plans \ new.left
      BY <1>6, <3>2
    <3> QED
      BY <1>7, <3>2, <3>3
  <2> QED
    BY <2>1, <2>2
<1>14. PutDown(new, h)
  BY <1>11, <1>12, <1>13 DEF PutDown
<1> QED
  BY <1>1, <1>3, <1>8, <1>14 DEF Progress

LEMMA MaterializeKeeps ==
    ASSUME HostType, JobInv, NEW n \in DOMAIN jobs, Materialize(n)
    PROVE  JobInv'
<1>1. PICK job, next : job = jobs[n] /\ next = First(job.left)
  OBVIOUS
<1>2. /\ job \in Jobs /\ JobIsSound(job) /\ job.stage = "writing" /\ "writing" \in Working
      /\ job.left # {}
  <2>1. jobs[n].stage = "writing" /\ jobs[n].left # {}
    BY DEF Materialize
  <2>2. jobs[n] \in Jobs /\ JobIsSound(jobs[n])
    BY DEF JobInv
  <2> QED
    BY <1>1, <2>1, <2>2 DEF Working
<1>3. CASE Cancelled(n) \/ Fail(n)
  BY <1>1, <1>2, <1>3, EndKeeps DEF Cancelled, Fail
<1>4. CASE Become(n, Ended(job, "FINGERPRINT_MISMATCH"))
  BY <1>1, <1>2, <1>4, EndKeeps
<1>5. ASSUME NEW chunk, chunk = {next} \/ (host = "Word" /\ chunk = job.left),
             Places(job.paras, next) # {},
             Become(n, [job EXCEPT !.left = job.left \ chunk, !.paras = Written(job.paras, chunk)])
      PROVE  JobInv'
  <2>1. PlansAreSound(job.plans) /\ job.left \subseteq job.plans /\ Progress(job)
        /\ job.status = "none" /\ job.copy = TRUE
    BY <1>2 DEF JobIsSound, Working
  <2>2. next \in job.left /\ chunk \subseteq job.left
    <3>1. job.left \subseteq PlanSet
      BY <2>1 DEF PlansAreSound
    <3> QED
      BY <1>1, <1>2, <1>5, <3>1, FirstIsOne
  <2>3. PICK g \in [chunk -> DOMAIN job.paras] :
           /\ \A p \in chunk : Places(job.paras, p) = {g[p]} /\ job.paras[g[p]] = p.text
           /\ \A p, q \in chunk : g[p] = g[q] => p = q
    BY <1>2, <1>5, <2>2, ChunkHasPlaces
  <2>4. PICK paras, left : paras = Written(job.paras, chunk) /\ left = job.left \ chunk
    OBVIOUS
  <2>5. /\ DOMAIN paras = DOMAIN job.paras
        /\ \A p \in chunk : paras[g[p]] = p.target
        /\ \A i \in DOMAIN job.paras : (\A p \in chunk : g[p] # i) => paras[i] = job.paras[i]
    BY <2>3, <2>4, WrittenDoes
  <2>6. PICK new : new = [job EXCEPT !.left = left, !.paras = paras]
    OBVIOUS
  <2>7. paras \in Seq(Sources \cup Drafts \cup {"mixed"})
    <3> DEFINE T == Sources \cup Drafts \cup {"mixed"}
    <3>1. \A p \in chunk : p.target \in T
      BY <2>1, <2>2 DEF PlansAreSound, PlanSet
    <3>2. job.paras \in Seq(T)
      BY <1>2 DEF Jobs
    <3>3. \A i \in DOMAIN paras : paras[i] \in T
      BY <2>5, <3>1, <3>2
    <3>4. paras = [i \in DOMAIN job.paras |-> paras[i]]
      BY <2>4, <2>5 DEF Written
    <3>5. DOMAIN job.paras = 1 .. Len(job.paras) /\ Len(job.paras) \in Nat
      BY <3>2
    <3> HIDE DEF T
    <3>6. paras \in [1 .. Len(job.paras) -> T]
      BY <2>5, <3>3, <3>4, <3>5
    <3> QED
      BY <3>5, <3>6 DEF T
  <2>8. /\ new \in Jobs /\ new.plans = job.plans /\ new.left = left /\ new.stage = job.stage
        /\ new.source = job.source /\ new.paras = paras /\ new.copy = job.copy
        /\ new.status = job.status
    BY <1>2, <2>4, <2>6, <2>7 DEF Jobs
  <2>9. Progress(new)
    BY <1>2, <2>1, <2>2, <2>3, <2>4, <2>8, ChunkIsPutDown
  <2>10. ASSUME host = "Word", NEW p \in new.left
         PROVE  p.order \in DOMAIN new.paras /\ new.paras[p.order] = p.text
    <3>1. p \in job.left /\ p \notin chunk
      BY <2>4, <2>8
    <3>2. p.order \in DOMAIN job.paras /\ job.paras[p.order] = p.text
      BY <1>2, <2>10, <3>1 DEF JobIsSound
    <3>3. ASSUME NEW q \in chunk, g[q] = p.order
          PROVE  FALSE
      <4>1. q.order \in DOMAIN job.paras /\ job.paras[q.order] = q.text /\ q \in job.left
        BY <1>2, <2>2, <2>10 DEF JobIsSound
      <4>2. g[q] \in Places(job.paras, q)
        BY <2>3
      <4>3. g[q] = q.order
        BY <2>10, <4>2 DEF Places
      <4>4. q.text = p.text /\ q.order = p.order
        BY <3>2, <3>3, <4>1, <4>3
      <4>5. q.id = p.id
        BY <2>1, <3>1, <4>1, <4>4 DEF PlansAreSound
      <4>6. q = p
        BY <2>1, <3>1, <4>1, <4>5 DEF PlansAreSound
      <4> QED
        BY <3>1, <4>6
    <3> QED
      BY <2>5, <2>8, <3>2, <3>3
  <2>11. JobIsSound(new)
    BY <1>2, <2>1, <2>4, <2>8, <2>9, <2>10 DEF JobIsSound, Working
  <2> QED
    BY <1>1, <1>5, <2>4, <2>6, <2>8, <2>11, OneJobChanges DEF Become
<1>6. CASE \E chunk \in IF host = "Word" THEN {{next}, job.left} ELSE {{next}} :
              Become(n, IF Places(job.paras, next) = {} THEN Ended(job, "FINGERPRINT_MISMATCH")
                        ELSE [job EXCEPT !.left = @ \ chunk, !.paras = Written(@, chunk)])
  <2>1. PICK chunk \in IF host = "Word" THEN {{next}, job.left} ELSE {{next}} :
              Become(n, IF Places(job.paras, next) = {} THEN Ended(job, "FINGERPRINT_MISMATCH")
                        ELSE [job EXCEPT !.left = @ \ chunk, !.paras = Written(@, chunk)])
    BY <1>6
  <2>2. CASE Places(job.paras, next) = {}
    BY <1>4, <2>1, <2>2
  <2>3. CASE Places(job.paras, next) # {}
    <3>1. chunk = {next} \/ (host = "Word" /\ chunk = job.left)
      BY <2>1
    <3>2. Become(n, [job EXCEPT !.left = job.left \ chunk, !.paras = Written(job.paras, chunk)])
      BY <2>1, <2>3
    <3> QED
      BY <1>5, <2>3, <3>1, <3>2
  <2> QED
    BY <2>2, <2>3
<1> QED
  BY <1>1, <1>3, <1>6 DEF Materialize
LEMMA FinalizeCopyKeeps ==
    ASSUME HostType, JobInv, NEW n \in DOMAIN jobs, FinalizeCopy(n)
    PROVE  JobInv'
<1>1. jobs[n].stage = "writing" /\ jobs[n].left = {} /\ "writing" \in Working
  BY DEF FinalizeCopy, Working
<1>2. Cancelled(n) \/ Fail(n) \/ Become(n, Ended(jobs[n], "SUCCESS"))
  BY DEF FinalizeCopy
<1> QED
  BY <1>1, <1>2, EndKeeps DEF Cancelled, Fail

\* The answer, its loss and a cancellation that arrives change nothing of the copy.
LEMMA AnswerKeeps ==
    ASSUME JobInv, NEW n \in DOMAIN jobs, Answer(n)
    PROVE  JobInv'
<1>1. jobs[n] \in Jobs /\ JobIsSound(jobs[n]) /\ jobs[n].stage = "done"
  BY DEF JobInv, Answer
<1>2. PICK new : new = [jobs[n] EXCEPT !.stage = "over"]
  OBVIOUS
<1>3. jobs' = [jobs EXCEPT ![n] = new] /\ host' = host
  BY <1>2 DEF Answer
<1>4. /\ new \in Jobs /\ new.plans = jobs[n].plans /\ new.left = jobs[n].left
      /\ new.source = jobs[n].source /\ new.paras = jobs[n].paras /\ new.copy = jobs[n].copy
      /\ new.temporary = jobs[n].temporary /\ new.status = jobs[n].status /\ new.stage = "over"
  BY <1>1, <1>2 DEF Jobs
<1>5. JobIsSound(new)
  BY <1>1, <1>4, SameJob
<1> QED
  BY <1>3, <1>4, <1>5, OneJobChanges

LEMMA CallFailsKeeps ==
    ASSUME JobInv, NEW n \in DOMAIN jobs, CallFails(n)
    PROVE  JobInv'
<1>1. jobs[n] \in Jobs /\ JobIsSound(jobs[n])
  BY DEF JobInv
<1>2. PICK new : new = [jobs[n] EXCEPT !.heard = FALSE]
  OBVIOUS
<1>3. jobs' = [jobs EXCEPT ![n] = new] /\ host' = host
  BY <1>2 DEF CallFails
<1>4. /\ new \in Jobs /\ new.plans = jobs[n].plans /\ new.left = jobs[n].left
      /\ new.source = jobs[n].source /\ new.paras = jobs[n].paras /\ new.copy = jobs[n].copy
      /\ new.temporary = jobs[n].temporary /\ new.status = jobs[n].status
      /\ new.stage = jobs[n].stage
  BY <1>1, <1>2 DEF Jobs
<1>5. JobIsSound(new)
  BY <1>1, <1>4, SameJob
<1> QED
  BY <1>3, <1>4, <1>5, OneJobChanges

LEMMA CancelArrivesKeeps ==
    ASSUME JobInv, NEW n \in DOMAIN jobs, CancelArrives(n)
    PROVE  JobInv'
<1>1. jobs[n] \in Jobs /\ JobIsSound(jobs[n])
  BY DEF JobInv
<1>2. PICK new : new = [jobs[n] EXCEPT !.cancelled = TRUE]
  OBVIOUS
<1>3. jobs' = [jobs EXCEPT ![n] = new] /\ host' = host
  BY <1>2 DEF CancelArrives, Become
<1>4. /\ new \in Jobs /\ new.plans = jobs[n].plans /\ new.left = jobs[n].left
      /\ new.source = jobs[n].source /\ new.paras = jobs[n].paras /\ new.copy = jobs[n].copy
      /\ new.temporary = jobs[n].temporary /\ new.status = jobs[n].status
      /\ new.stage = jobs[n].stage
  BY <1>1, <1>2 DEF Jobs
<1>5. JobIsSound(new)
  BY <1>1, <1>4, SameJob
<1> QED
  BY <1>3, <1>4, <1>5, OneJobChanges

LEMMA RestartKeepsJobs ==
    ASSUME JobInv, Restart
    PROVE  JobInv'
<1>1. jobs' = [n \in DOMAIN jobs |-> [jobs[n] EXCEPT !.heard = FALSE]] /\ host' = host
  BY DEF Restart
<1>2. jobs \in Seq(Jobs) /\ Len(jobs) \in Nat /\ DOMAIN jobs = 1 .. Len(jobs)
  BY DEF JobInv
<1>3. ASSUME NEW n \in DOMAIN jobs, NEW new, new = [jobs[n] EXCEPT !.heard = FALSE]
      PROVE  new \in Jobs /\ JobIsSound(new)
  <2>1. jobs[n] \in Jobs /\ JobIsSound(jobs[n])
    BY DEF JobInv
  <2>2. /\ new \in Jobs /\ new.plans = jobs[n].plans /\ new.left = jobs[n].left
        /\ new.source = jobs[n].source /\ new.paras = jobs[n].paras /\ new.copy = jobs[n].copy
        /\ new.temporary = jobs[n].temporary /\ new.status = jobs[n].status
        /\ new.stage = jobs[n].stage
    BY <1>3, <2>1 DEF Jobs
  <2> QED
    BY <2>1, <2>2, SameJob
<1>4. jobs' \in [1 .. Len(jobs) -> Jobs]
  BY <1>1, <1>2, <1>3
<1>5. jobs' \in Seq(Jobs) /\ Len(jobs') = Len(jobs)
  BY <1>2, <1>4
<1> QED
  BY <1>1, <1>3, <1>5, JobsFollow DEF JobInv

\* A generation starts with the plans of the dialog.
LEMMA GenerateKeeps ==
    ASSUME SessionInv, JobInv, NEW asked \in BOOLEAN, GenerateTranslatedDocument(asked)
    PROVE  JobInv'
<1>1. PICK plans : plans = dialog.plans
  OBVIOUS
<1>2. PlansAreSound(plans) /\ plans \subseteq PlanSet
  BY <1>1 DEF SessionInv, DialogIsSound, PlansAreSound
<1>3. PICK new : new = (IF asked THEN NewJob(plans) ELSE [NewJob(plans) EXCEPT !.stage = "over"])
  OBVIOUS
<1>4. jobs' = Append(jobs, new) /\ host' = host /\ Len(jobs) < MaxGenerations
  BY <1>1, <1>3 DEF GenerateTranslatedDocument
<1>5. /\ new \in Jobs /\ new.plans = plans /\ new.left = plans /\ new.stage \in {"asked", "over"}
      /\ new.source = << >> /\ new.paras = << >> /\ new.copy = FALSE /\ new.temporary = FALSE
      /\ new.status = "none"
  <2>1. PICK base : base = NewJob(plans)
    OBVIOUS
  <2>2. << >> \in Seq(Sources) /\ << >> \in Seq(Sources \cup Drafts \cup {"mixed"})
    OBVIOUS
  <2>3. /\ base \in Jobs /\ base.plans = plans /\ base.left = plans /\ base.stage = "asked"
        /\ base.source = << >> /\ base.paras = << >> /\ base.copy = FALSE
        /\ base.temporary = FALSE /\ base.status = "none"
    BY <1>2, <2>1, <2>2 DEF NewJob, Jobs, Working
  <2>4. CASE new = base
    BY <2>3, <2>4
  <2>5. CASE new = [base EXCEPT !.stage = "over"]
    BY <2>3, <2>5 DEF Jobs
  <2> QED
    BY <1>3, <2>1, <2>4, <2>5
<1>6. JobIsSound(new)
  BY <1>2, <1>5 DEF JobIsSound, Working
<1>7. jobs \in Seq(Jobs) /\ Len(jobs) \in Nat /\ MaxGenerations \in Nat
  BY BoundsAssumption DEF JobInv
<1>8. /\ jobs' \in Seq(Jobs) /\ Len(jobs') = Len(jobs) + 1
      /\ \A m \in 1 .. Len(jobs) : jobs'[m] = jobs[m]
      /\ jobs'[Len(jobs) + 1] = new
  BY <1>4, <1>5, <1>7, AppendProperties
<1>9. \A m \in DOMAIN jobs' : JobIsSound(jobs'[m])
  <2> SUFFICES ASSUME NEW m \in DOMAIN jobs'
               PROVE  JobIsSound(jobs'[m])
    OBVIOUS
  <2>1. m \in 1 .. Len(jobs) \/ m = Len(jobs) + 1
    BY <1>7, <1>8
  <2>2. CASE m \in 1 .. Len(jobs)
    BY <1>7, <1>8, <2>2 DEF JobInv
  <2>3. CASE m = Len(jobs) + 1
    BY <1>6, <1>8, <2>3
  <2> QED
    BY <2>1, <2>2, <2>3
<1>10. Len(jobs') <= MaxGenerations
  BY <1>4, <1>7, <1>8
<1> QED
  BY <1>4, <1>8, <1>9, <1>10, JobsFollow

LEMMA EditKeepsDocument ==
    ASSUME DocType, EditDocument
    PROVE  DocType'
<1>1. doc \in Seq(Sources) /\ Len(doc) \in Nat /\ Len(doc) <= MaxParas /\ MaxParas \in Nat
      /\ DOMAIN doc = 1 .. Len(doc) /\ doc # << >>
  BY BoundsAssumption DEF DocType
<1>2. PICK i \in DOMAIN doc, text \in Sources :
         \/ doc' = [doc EXCEPT ![i] = text]
         \/ Len(doc) < MaxParas /\ doc' = Q!InsertAt(doc, i, text)
         \/ Len(doc) > 1 /\ doc' = Q!RemoveAt(doc, i)
  BY DEF EditDocument
<1>3. i \in 1 .. Len(doc)
  BY <1>1
<1>4. CASE doc' = [doc EXCEPT ![i] = text]
  <2>1. doc' \in Seq(Sources) /\ Len(doc') = Len(doc)
    BY <1>1, <1>3, <1>4, ExceptSeq
  <2> QED
    BY <1>1, <1>3, <2>1 DEF DocType
<1>5. CASE Len(doc) < MaxParas /\ doc' = Q!InsertAt(doc, i, text)
  <2>1. doc' \in Seq(Sources) /\ Len(doc') = Len(doc) + 1
    BY <1>1, <1>3, <1>5, InsertOne
  <2> QED
    BY <1>1, <1>5, <2>1 DEF DocType
<1>6. CASE Len(doc) > 1 /\ doc' = Q!RemoveAt(doc, i)
  <2>1. doc' \in Seq(Sources) /\ Len(doc') = Len(doc) - 1
    BY <1>1, <1>3, <1>6, RemoveOne
  <2> QED
    BY <1>1, <1>6, <2>1 DEF DocType
<1> QED
  BY <1>2, <1>4, <1>5, <1>6
-----------------------------------------------------------------------------
(* The steps together *)

LEMMA NextKeepsSession ==
    ASSUME TInv, Next
    PROVE  SessionInv' /\ KeepsEdits
<1>1. HostType /\ DocType /\ mode \in BOOLEAN /\ SessionInv
  BY HostAssumption DEF TInv, HostType
<1>2. ASSUME UNCHANGED <<host, segments, scan, asks, dialog>>
      PROVE  SessionInv' /\ KeepsEdits
  BY <1>1, <1>2, SessionStays
<1>3. CASE SetTranslationMode
  BY <1>2, <1>3 DEF SetTranslationMode
<1>4. CASE ScanButton
  <2>1. {} \subseteq Units /\ dialog = NoDialog /\ ScanFullDocument("user", {}) /\ host' = host
    BY <1>4 DEF ScanButton, Idle
  <2> QED
    BY <1>1, <2>1, ScanStarts
<1>5. CASE PrepareDocumentGeneration
  <2>1. {} \subseteq Units /\ dialog = NoDialog /\ ScanFullDocument("generate", {}) /\ host' = host
    BY <1>5 DEF PrepareDocumentGeneration, Idle
  <2> QED
    BY <1>1, <2>1, ScanStarts
<1>6. CASE CancelScan
  BY <1>1, <1>6, CancelScanKeeps
<1>7. CASE Restart
  BY <1>1, <1>7, RestartKeeps
<1>8. CASE \E i \in DOMAIN doc : Telemetry(i)
  BY <1>1, <1>8, TelemetryKeeps
<1>9. CASE \E s \in segments, d \in Drafts : UpdateSegmentTarget(s, d)
  BY <1>1, <1>9, UpdateKeeps
<1>10. CASE \E units \in Files, connected \in BOOLEAN : ImportXliff(units, connected)
  BY <1>1, <1>10, ImportXliffKeeps
<1>11. CASE \E chosen \in SUBSET dialog.conflicts : ResolveConflicts(chosen)
  BY <1>1, <1>11, ResolveKeeps
<1>12. ASSUME NEW ask \in asks, Enumerate(ask) \/ ScanAnswered(ask) \/ ScanTimeout(ask)
       PROVE  SessionInv' /\ KeepsEdits
  BY <1>1, <1>12, EnumerateKeeps, ScanAnsweredKeeps, ScanTimeoutKeeps
<1>13. CASE \E asked \in BOOLEAN : GenerateTranslatedDocument(asked)
  <2>1. dialog' = NoDialog /\ UNCHANGED <<host, segments, scan, asks>>
    BY <1>13 DEF GenerateTranslatedDocument
  <2> QED
    BY <1>1, <2>1, DialogCloses
<1>14. CASE Dismiss
  BY <1>1, <1>14, DialogCloses DEF Dismiss
<1>15. CASE CancelDocumentGeneration
  BY <1>2, <1>15 DEF CancelDocumentGeneration
<1>16. ASSUME NEW n \in DOMAIN jobs, Generation(n) \/ CancelArrives(n) \/ CallFails(n)
       PROVE  UNCHANGED <<host, segments, scan, asks, dialog>>
  <2>1. ASSUME NEW job, Become(n, job)
        PROVE  UNCHANGED <<host, segments, scan, asks, dialog>>
    BY <2>1 DEF Become, session
  <2>2. CASE MakeCopy(n)
    BY <2>1, <2>2 DEF MakeCopy, Cancelled, Fail
  <2>3. CASE VerifyCopy(n)
    BY <2>1, <2>3 DEF VerifyCopy, Cancelled, Fail
  <2>4. CASE Materialize(n)
    BY <2>1, <2>4 DEF Materialize, Cancelled, Fail
  <2>5. CASE FinalizeCopy(n)
    BY <2>1, <2>5 DEF FinalizeCopy, Cancelled, Fail
  <2>6. CASE Answer(n)
    BY <2>6 DEF Answer
  <2>7. CASE CancelArrives(n)
    BY <2>1, <2>7 DEF CancelArrives
  <2>8. CASE CallFails(n)
    BY <2>8 DEF CallFails
  <2> QED
    BY <1>16, <2>2, <2>3, <2>4, <2>5, <2>6, <2>7, <2>8 DEF Generation
<1>17. CASE EditDocument
  BY <1>2, <1>17 DEF EditDocument, session
<1> QED
  BY <1>2, <1>3, <1>4, <1>5, <1>6, <1>7, <1>8, <1>9, <1>10, <1>11, <1>12, <1>13, <1>14,
     <1>15, <1>16, <1>17 DEF Next, Store
\* The user's steps in the dashboard leave the generations alone, but for a
\* restart, which hears of none, and the start of one.
LEMMA StoreKeepsRest ==
    ASSUME TInv, Store
    PROVE  host' \in Hosts /\ DocType' /\ mode' \in BOOLEAN /\ ActiveType' /\ JobInv'
<1>1. /\ host \in Hosts /\ DocType /\ mode \in BOOLEAN /\ ActiveType /\ JobInv /\ SessionInv
      /\ MaxGenerations \in Nat
  BY BoundsAssumption DEF TInv
<1>2. UNCHANGED <<host, doc>> /\ mode' \in BOOLEAN
  <2>1. CASE SetTranslationMode
    BY <2>1 DEF SetTranslationMode
  <2>2. CASE ScanButton \/ PrepareDocumentGeneration \/ CancelScan \/ Restart
    BY <1>1, <2>2 DEF ScanButton, PrepareDocumentGeneration, CancelScan, Restart
  <2>3. CASE \/ \E i \in DOMAIN doc : Telemetry(i)
             \/ \E s \in segments, d \in Drafts : UpdateSegmentTarget(s, d)
    BY <1>1, <2>3 DEF Telemetry, UpdateSegmentTarget
  <2>4. CASE \/ \E units \in Files, connected \in BOOLEAN : ImportXliff(units, connected)
             \/ \E chosen \in SUBSET dialog.conflicts : ResolveConflicts(chosen)
    BY <1>1, <2>4 DEF ImportXliff, ResolveConflicts
  <2>5. CASE \E ask \in asks : Enumerate(ask) \/ ScanAnswered(ask) \/ ScanTimeout(ask)
    BY <1>1, <2>5 DEF Enumerate, ScanAnswered, ScanTimeout
  <2>6. CASE \/ \E asked \in BOOLEAN : GenerateTranslatedDocument(asked)
             \/ Dismiss \/ CancelDocumentGeneration
    BY <1>1, <2>6 DEF GenerateTranslatedDocument, Dismiss, CancelDocumentGeneration
  <2> QED
    BY <2>1, <2>2, <2>3, <2>4, <2>5, <2>6 DEF Store
<1>3. DocType'
  BY <1>1, <1>2 DEF DocType
<1>4. CASE UNCHANGED <<active, jobs>>
  BY <1>1, <1>2, <1>3, <1>4, JobsStay DEF ActiveType
<1>5. CASE Restart
  <2>1. 0 \in 0 .. MaxGenerations
    BY <1>1
  <2>2. ActiveType'
    BY <1>5, <2>1 DEF Restart, ActiveType, NoActive
  <2> QED
    BY <1>1, <1>2, <1>3, <1>5, <2>2, RestartKeepsJobs
<1>6. ASSUME NEW asked \in BOOLEAN, GenerateTranslatedDocument(asked)
      PROVE  ActiveType' /\ JobInv'
  <2>1. Len(jobs) \in Nat /\ Len(jobs) < MaxGenerations
    BY <1>1, <1>6 DEF JobInv, GenerateTranslatedDocument
  <2>2. Len(jobs) + 1 \in 0 .. MaxGenerations
    BY <1>1, <2>1
  <2>3. ActiveType'
    BY <1>6, <2>2 DEF GenerateTranslatedDocument, ActiveType
  <2> QED
    BY <1>1, <1>6, <2>3, GenerateKeeps
<1>7. CASE CancelDocumentGeneration
  <2>1. ActiveType'
    BY <1>1, <1>7 DEF CancelDocumentGeneration, ActiveType
  <2> QED
    BY <1>1, <1>2, <1>3, <1>7, <2>1, JobsStay DEF CancelDocumentGeneration
<1>8. \/ UNCHANGED <<active, jobs>> \/ Restart \/ CancelDocumentGeneration
      \/ \E asked \in BOOLEAN : GenerateTranslatedDocument(asked)
  BY DEF Store, SetTranslationMode, ScanButton, PrepareDocumentGeneration, CancelScan, Telemetry,
         UpdateSegmentTarget, ImportXliff, ResolveConflicts, Enumerate, ScanAnswered, ScanTimeout,
         Dismiss
<1> QED
  BY <1>1, <1>2, <1>3, <1>4, <1>5, <1>6, <1>7, <1>8

LEMMA JobsKeepRest ==
    ASSUME TInv, NEW n \in DOMAIN jobs, Generation(n) \/ CancelArrives(n) \/ CallFails(n)
    PROVE  host' \in Hosts /\ DocType' /\ mode' \in BOOLEAN /\ ActiveType' /\ JobInv'
<1>1. HostType /\ host \in Hosts /\ DocType /\ mode \in BOOLEAN /\ ActiveType /\ JobInv
  BY HostAssumption DEF TInv, HostType
<1>2. ASSUME NEW job, Become(n, job)
      PROVE  UNCHANGED <<host, doc, mode, active>>
  BY <1>2 DEF Become, session
<1>3. CASE MakeCopy(n)
  BY <1>1, <1>2, <1>3, MakeCopyKeeps DEF MakeCopy, Cancelled, Fail, DocType, ActiveType
<1>4. CASE VerifyCopy(n)
  BY <1>1, <1>2, <1>4, VerifyCopyKeeps DEF VerifyCopy, Cancelled, Fail, DocType, ActiveType
<1>5. CASE Materialize(n)
  BY <1>1, <1>2, <1>5, MaterializeKeeps DEF Materialize, Cancelled, Fail, DocType, ActiveType
<1>6. CASE FinalizeCopy(n)
  BY <1>1, <1>2, <1>6, FinalizeCopyKeeps DEF FinalizeCopy, Cancelled, Fail, DocType, ActiveType
<1>7. CASE Answer(n)
  <2>1. UNCHANGED <<host, doc, mode>> /\ active' \in {active, NoActive}
    BY <1>7 DEF Answer
  <2>2. NoActive \in [request: 0..MaxGenerations, cancelled: BOOLEAN]
    <3>1. 0 \in 0 .. MaxGenerations
      BY BoundsAssumption
    <3> QED
      BY <3>1 DEF NoActive
  <2> QED
    BY <1>1, <1>7, <2>1, <2>2, AnswerKeeps DEF DocType, ActiveType
<1>8. CASE CancelArrives(n)
  BY <1>1, <1>2, <1>8, CancelArrivesKeeps DEF CancelArrives, DocType, ActiveType
<1>9. CASE CallFails(n)
  BY <1>1, <1>9, CallFailsKeeps DEF CallFails, DocType, ActiveType
<1> QED
  BY <1>3, <1>4, <1>5, <1>6, <1>7, <1>8, <1>9 DEF Generation

LEMMA InitIsSound ==
    ASSUME Init
    PROVE  TInv
<1>1. MaxParas \in Nat /\ MaxScans \in Nat /\ MaxGenerations \in Nat
  BY BoundsAssumption
<1>2. DocType
  BY <1>1, BoundedSequence DEF Init, DocType
<1>3. 0 \in 0 .. MaxScans /\ 0 \in 0 .. MaxGenerations
  BY <1>1
<1>4. SessionInv
  <2>1. AreSound(segments) /\ AsksAreSound(asks, scan.token)
    BY DEF Init, AreSound, AsksAreSound
  <2>2. ScanType
    BY <1>3 DEF Init, NoScan, ScanType
  <2>3. DialogIsSound(dialog, segments, asks, scan.token)
    BY DEF Init, NoDialog, DialogIsSound, Dialogs, PlansAreSound, Harmless, Present
  <2> QED
    BY <2>1, <2>2, <2>3 DEF SessionInv
<1>5. ActiveType
  BY <1>3 DEF Init, NoActive, ActiveType
<1>6. JobInv
  BY <1>1 DEF Init, JobInv
<1> QED
  BY <1>2, <1>4, <1>5, <1>6 DEF Init, TInv

LEMMA NextKeeps ==
    ASSUME TInv, [Next]_vars
    PROVE  TInv' /\ [KeepsEdits]_vars
<1>1. CASE Next
  <2>1. SessionInv' /\ KeepsEdits
    BY <1>1, NextKeepsSession
  <2>2. CASE EditDocument
    <3>1. UNCHANGED <<host, jobs, mode, active>> /\ DocType'
      BY <2>2, EditKeepsDocument DEF EditDocument, session, TInv
    <3> QED
      BY <2>1, <3>1, JobsStay DEF TInv, ActiveType
  <2> QED
    BY <1>1, <2>1, <2>2, StoreKeepsRest, JobsKeepRest DEF Next, TInv
<1>2. CASE UNCHANGED vars
  <2>1. UNCHANGED <<host, doc, mode, segments, scan, asks, dialog, active, jobs>>
    BY <1>2 DEF vars
  <2>2. SessionInv' /\ JobInv'
    BY <2>1, SessionStays, JobsStay DEF TInv
  <2> QED
    BY <1>2, <2>1, <2>2 DEF TInv, DocType, ActiveType
<1> QED
  BY <1>1, <1>2
\* What the invariant says of the types.
LEMMA TypesFollow ==
    ASSUME TInv
    PROVE  TypeOK
<1>1. MaxParas \in Nat /\ MaxScans \in Nat /\ MaxGenerations \in Nat
  BY BoundsAssumption
<1>2. doc \in Q!BoundedSeq(Sources, MaxParas) \ {<< >>}
  BY <1>1, BoundedSequence DEF TInv, DocType
<1>3. ASSUME NEW s \in segments
      PROVE  /\ s.id \in Ids /\ s.text \in Sources /\ s.order \in 0..MaxParas
             /\ s.status \in {"untranslated", "suggested", "draft", "needs-validation"}
             /\ s.origin \in {"tm-exact", "empty", "external-cat"}
             /\ s.target \in Drafts \cup {""} /\ (s.status \in {"suggested", "draft"} => s.target # "")
  <2>1. s \in Segments /\ SegmentIsSound(s)
    BY DEF TInv, SessionInv, AreSound
  <2> QED
    BY <2>1 DEF Segments, SegmentIsSound
<1>4. \A ask \in asks : ask.token \in 1..MaxScans /\ ask.units \subseteq Units
  BY DEF TInv, SessionInv, AsksAreSound, AskType
<1>5. dialog.plans \subseteq PlanSet /\ dialog.auto \cup dialog.conflicts \subseteq Units
  BY DEF TInv, SessionInv, DialogIsSound, PlansAreSound, Dialogs
<1>6. ASSUME NEW n \in DOMAIN jobs
      PROVE  IsJob(jobs[n])
  <2>1. jobs[n] \in Jobs /\ JobIsSound(jobs[n])
    BY DEF TInv, JobInv
  <2>2. /\ jobs[n].plans \subseteq PlanSet /\ jobs[n].left \subseteq jobs[n].plans
        /\ jobs[n].stage \in Working \cup {"done", "over"}
        /\ jobs[n].source \in Seq(Sources) /\ jobs[n].paras \in Seq(Sources \cup Drafts \cup {"mixed"})
        /\ {jobs[n].copy, jobs[n].temporary, jobs[n].cancelled, jobs[n].heard} \subseteq BOOLEAN
    BY <2>1 DEF Jobs, JobIsSound
  <2>3. jobs[n].source \in Seq(Sources \cup Drafts \cup {"mixed"})
    BY <2>2
  <2> QED
    BY <2>2, <2>3 DEF IsJob
<1> QED
  BY <1>2, <1>3, <1>4, <1>5, <1>6 DEF TypeOK, TInv, SessionInv, ScanType, ActiveType, JobInv

\* What the invariant says of a copy that is delivered: the places of the plans
\* are the paragraphs that changed.
LEMMA DeliveredIsFaithful ==
    ASSUME TInv
    PROVE  GeneratedIsFaithful
<1> SUFFICES ASSUME NEW n \in DOMAIN jobs, jobs[n].status = "SUCCESS"
             PROVE  LET changed == {i \in DOMAIN jobs[n].source : jobs[n].paras[i] # jobs[n].source[i]}
                    IN  /\ Cardinality(changed) = Cardinality(jobs[n].plans)
                        /\ \A i \in changed : \E p \in jobs[n].plans :
                              p.text = jobs[n].source[i] /\ p.target = jobs[n].paras[i]
  BY DEF GeneratedIsFaithful
<1>1. PICK job, changed :
         /\ job = jobs[n]
         /\ changed = {i \in DOMAIN job.source : job.paras[i] # job.source[i]}
  OBVIOUS
<1>2. job \in Jobs /\ JobIsSound(job) /\ job.left = {} /\ Progress(job) /\ PlansAreSound(job.plans)
  BY <1>1 DEF TInv, JobInv, JobIsSound
<1>3. PICK f \in [job.plans -> DOMAIN job.source] : PutDown(job, f)
  <2>1. job.plans \ job.left = job.plans
    BY <1>2
  <2> QED
    BY <1>2, <2>1 DEF Progress
<1>4. /\ \A p, q \in job.plans : f[p] = f[q] => p = q
      /\ \A p \in job.plans : job.source[f[p]] = p.text /\ job.paras[f[p]] = p.target
      /\ \A i \in changed : \E p \in job.plans : f[p] = i
  BY <1>1, <1>2, <1>3 DEF PutDown
<1>5. \A p \in job.plans : p.text # p.target
  <2>1. \A p \in job.plans : p.text \in Sources /\ p.target \in Drafts \cup {"mixed"}
    BY <1>2 DEF PlansAreSound, PlanSet
  <2> QED
    BY <2>1, TextsApart
<1>6. \A p \in job.plans : f[p] \in changed
  BY <1>1, <1>4, <1>5
<1>7. f \in Injection(job.plans, changed) /\ f \in Surjection(job.plans, changed)
  BY <1>4, <1>6 DEF Injection, IsInjective, Surjection
<1>8. IsFiniteSet(changed)
  <2>1. IsFiniteSet(DOMAIN job.source)
    BY <1>2, ParasAreFinite DEF Jobs
  <2> QED
    BY <1>1, <2>1, FS_Subset
<1>9. Cardinality(job.plans) = Cardinality(changed)
  BY <1>7, <1>8, FS_Injection
<1> QED
  BY <1>1, <1>4, <1>9

\* TInv is inductive.
THEOREM TranslationInductive == Spec => []TInv
<1>1. Init => TInv
  BY InitIsSound
<1>2. TInv /\ [Next]_vars => TInv'
  BY NextKeeps
<1> QED
  BY <1>1, <1>2, PTL DEF Spec

\* However a generation ends, the copy that is delivered has every planned
\* target in the place of a paragraph with its source and nothing else changed,
\* and nothing is left behind that should not be (both document generators).
THEOREM GenerationsAlwaysEndWell == Spec => []GenerationEndsWell
<1>1. TInv => GenerationEndsWell
  <2> SUFFICES ASSUME TInv
               PROVE  GenerationEndsWell
    OBVIOUS
  <2>1. NothingLeftBehind
    BY DEF TInv, JobInv, JobIsSound, NothingLeftBehind
  <2> QED
    BY <2>1, TypesFollow, DeliveredIsFaithful DEF GenerationEndsWell
<1> QED
  BY <1>1, TranslationInductive, PTL

\* What the user wrote for a sentence is lost to no telemetry, scan, restart,
\* analysed file or generation (the session store and its XLIFF import).
THEOREM EditsAlwaysSurvive == Spec => EditsSurvive
<1>1. TInv /\ [Next]_vars => [KeepsEdits]_vars
  BY NextKeeps
<1> QED
  BY <1>1, TranslationInductive, PTL DEF Spec, EditsSurvive, KeepsEdits
=============================================================================
