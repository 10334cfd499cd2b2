-------------------------- MODULE InDesign_proofs ---------------------------
(***************************************************************************)
(* Proofs about InDesign, for any texts, any normalisation of them, any    *)
(* proposals and any bounds.  The properties of a step need the types of   *)
(* the state before it and no more: every entry point is one step.         *)
(***************************************************************************)
EXTENDS InDesign, FiniteSetTheorems, SequenceTheorems, TLAPS

Statuses == {"DISCONNECTED", "CONNECTED", "ERROR"}
Servers == {"down", "free", "ours", "stale", "other"}
Paragraphs == [id: Ids, text: Texts] \cup {NoParagraph}
Nets == [status: Statuses, server: Servers, sent: Paragraphs, heard: Paragraphs]

DocType ==
    /\ story \in Seq(Texts) /\ story # << >> /\ Len(story) <= MaxParas
    /\ inset \in Texts \cup {None}
    /\ locked \in BOOLEAN
    /\ cursor \in Places \cup {NoPlace}

ReplyType ==
    reply = NoReply \/
       reply \in [op: {"replace", "locate", "snapshot", "snapshots"}, cmd: Commands,
                  status: {"SUCCESS", "FAILED", "ROLLED_BACK", "STALE_REJECTED", "FOUND",
                           "NOT_FOUND", "AMBIGUOUS", "SELECTION_FAILED", "ERROR", "error"},
                  place: -1 .. MaxParas]

\* A bounded sequence is a sequence that is not too long.
LEMMA BoundedSequence ==
    ASSUME NEW S, NEW n \in Nat, NEW s
    PROVE  s \in Q!BoundedSeq(S, n) <=> s \in Seq(S) /\ Len(s) <= n
<1>1. ASSUME s \in Q!BoundedSeq(S, n)
      PROVE  s \in Seq(S) /\ Len(s) <= n
  <2>1. PICK m \in 0 .. n : s \in [1 .. m -> S]
    BY <1>1 DEF Q!BoundedSeq, Q!SeqOf
  <2>2. s \in Seq(S) /\ Len(s) = m
    BY <2>1
  <2> QED
    BY <2>2
<1>2. ASSUME s \in Seq(S), Len(s) <= n
      PROVE  s \in Q!BoundedSeq(S, n)
  <2>1. Len(s) \in 0 .. n /\ s \in [1 .. Len(s) -> S]
    BY <1>2
  <2> QED
    BY <2>1 DEF Q!BoundedSeq, Q!SeqOf
<1> QED
  BY <1>1, <1>2

LEMMA InsertOne ==
    ASSUME NEW S, NEW s \in Seq(S), NEW i \in 1 .. Len(s), NEW e \in S
    PROVE  Q!InsertAt(s, i, e) \in Seq(S) /\ Len(Q!InsertAt(s, i, e)) = Len(s) + 1
<1> DEFINE front == SubSeq(s, 1, i - 1)
           back == SubSeq(s, i, Len(s))
<1>1. front \in Seq(S) /\ Len(front) = i - 1
  BY SubSeqProperties
<1>2. back \in Seq(S) /\ Len(back) = Len(s) - i + 1
  BY SubSeqProperties
<1>3. front \o <<e>> \in Seq(S) /\ Len(front \o <<e>>) = i
  BY <1>1
<1>4. Q!InsertAt(s, i, e) = (front \o <<e>>) \o back
  BY DEF Q!InsertAt
<1> HIDE DEF front, back
<1>5. /\ (front \o <<e>>) \o back \in Seq(S)
      /\ Len((front \o <<e>>) \o back) = Len(front \o <<e>>) + Len(back)
  BY <1>2, <1>3
<1>6. Len(front \o <<e>>) + Len(back) = Len(s) + 1
  BY <1>2, <1>3
<1> QED
  BY <1>4, <1>5, <1>6

LEMMA RemoveOne ==
    ASSUME NEW S, NEW s \in Seq(S), NEW i \in 1 .. Len(s)
    PROVE  Q!RemoveAt(s, i) \in Seq(S) /\ Len(Q!RemoveAt(s, i)) = Len(s) - 1
<1> DEFINE front == SubSeq(s, 1, i - 1)
           back == SubSeq(s, i + 1, Len(s))
<1>1. front \in Seq(S) /\ Len(front) = i - 1
  BY SubSeqProperties
<1>2. back \in Seq(S) /\ Len(back) = Len(s) - i
  BY SubSeqProperties
<1>3. Q!RemoveAt(s, i) = front \o back
  BY DEF Q!RemoveAt
<1> HIDE DEF front, back
<1>4. front \o back \in Seq(S) /\ Len(front \o back) = Len(front) + Len(back)
  BY <1>1, <1>2
<1>5. Len(front) + Len(back) = Len(s) - 1
  BY <1>1, <1>2
<1> QED
  BY <1>3, <1>4, <1>5

LEMMA TypeParts ==
    TypeOK <=> DocType /\ net \in Nets /\ ReplyType /\ events \in 0 .. MaxEvents
<1>1. MaxParas \in Nat
  BY BoundsAssumption
<1>2. story \in Q!BoundedSeq(Texts, MaxParas) \ {<< >>}
        <=> story \in Seq(Texts) /\ story # << >> /\ Len(story) <= MaxParas
  BY <1>1, BoundedSequence
<1> QED
  BY <1>2 DEF TypeOK, DocType, ReplyType, Nets, Statuses, Servers, Paragraphs

-----------------------------------------------------------------------------
(* The document *)

LEMMA PlaceTexts ==
    ASSUME DocType
    PROVE  /\ Places \subseteq 0 .. MaxParas
           /\ NoPlace \notin Places
           /\ 1 .. Len(story) = Places \ {0}
           /\ \A p \in Places : TextAt(p) \in Texts
           /\ 1 \in Places
<1>1. Len(story) \in Nat /\ Len(story) # 0
  BY DEF DocType
<1> QED
  BY <1>1, BoundsAssumption DEF DocType, Places, NoPlace, TextAt

\* The scan trusts a hash only when one paragraph of the story has it.
LEMMA ScanFinds ==
    ASSUME DocType, NEW base
    PROVE  /\ ScanForHash(base) \in Matches(base) \cup {NoPlace}
           /\ ScanForHash(base) # NoPlace => Cardinality(Matches(base)) = 1
<1>1. CASE Cardinality(Matches(base)) = 1
  <2>1. IsFiniteSet(1 .. Len(story))
    BY FS_Interval DEF DocType
  <2>2. IsFiniteSet(Matches(base))
    BY <2>1, FS_Subset, PlaceTexts DEF Matches
  <2>3. PICK p : Matches(base) = {p}
    BY <1>1, <2>2, FS_Singleton
  <2> QED
    BY <1>1, <2>3 DEF ScanForHash
<1>2. CASE Cardinality(Matches(base)) # 1
  BY <1>2 DEF ScanForHash
<1> QED
  BY <1>1, <1>2

\* What an id leads to is a place of the document or none; by a hash, to a place
\* that has it.
LEMMA FindFinds ==
    ASSUME DocType, NEW id, NEW base
    PROVE  LET p == FindParagraphById(id, base)
           IN  /\ p \in Places \cup {NoPlace}
               /\ p # NoPlace /\ base # None => base = Normal[TextAt(p)]
<1>1. \A p \in Matches(base) : p \in Places /\ base = Normal[TextAt(p)]
  BY DEF Matches, TextAt
<1> QED
  BY <1>1, ScanFinds DEF FindParagraphById

LEMMA TargetIsPlace ==
    ASSUME DocType, NEW cmd
    PROVE  Target(cmd) \in Places \cup {NoPlace}
BY FindFinds DEF Target, DocType

LEMMA CommandsAre ==
    ASSUME NEW i \in Ids, NEW t \in Texts, NEW based \in BOOLEAN
    PROVE  /\ CommandOf(i, t, based) \in Commands
           /\ CommandOf(i, t, based).id = i
           /\ CommandOf(i, t, based).new \in Texts
           /\ CommandOf(i, t, based).base = IF based THEN Normal[t] ELSE None
<1> DEFINE b == IF based THEN Normal[t] ELSE None
           Bases == {Normal[u] : u \in Texts} \cup {None}
<1>1. b \in Bases /\ Suggested[t] \in Texts
  BY TextsAssumption
<1>2. CommandOf(i, t, based) = [id |-> i, base |-> b, old |-> t, new |-> Suggested[t]]
  BY DEF CommandOf
<1>3. Commands = {[id |-> j, base |-> c, old |-> u, new |-> Suggested[u]] :
                    j \in Ids, u \in Texts, c \in Bases}
  BY DEF Commands
<1> HIDE DEF b, Bases
<1>4. [id |-> i, base |-> b, old |-> t, new |-> Suggested[t]] \in Commands
  BY <1>1, <1>3
<1> QED
  BY <1>1, <1>2, <1>4 DEF b

\* Giving a place a text changes that place and no other.
LEMMA LeaveChangesOne ==
    ASSUME DocType, NEW p \in Places, NEW t \in Texts, Leave(p, t), locked' = locked
    PROVE  /\ story' \in Seq(Texts) /\ Len(story') = Len(story) /\ story' # << >>
           /\ inset' \in Texts \cup {None}
           /\ Places' = Places
           /\ TextAt(p)' = t
           /\ \A q \in Places \ {p} : TextAt(q)' = TextAt(q)
           /\ t = TextAt(p) => doc' = doc
<1>0. None \notin Texts
  BY TextsAssumption DEF None
<1>1. CASE p = 0
  BY <1>0, <1>1 DEF Leave, DocType, Places, TextAt, doc
<1>2. CASE p # 0
  <2>1. p \in 1 .. Len(story) /\ inset' = inset /\ story' = [story EXCEPT ![p] = t]
    BY <1>2 DEF Leave, Places
  <2>2. /\ story' \in Seq(Texts) /\ Len(story') = Len(story) /\ story' # << >>
        /\ story'[p] = t
        /\ \A q \in (1 .. Len(story)) \ {p} : story'[q] = story[q]
    BY <2>1 DEF DocType
  <2>3. t = story[p] => story' = story
    BY <2>1 DEF DocType
  <2>4. Places' = Places
    BY <2>1, <2>2 DEF Places
  <2>5. TextAt(p)' = t /\ \A q \in Places \ {p} : TextAt(q)' = TextAt(q)
    BY <1>2, <2>1, <2>2 DEF TextAt, Places
  <2> QED
    BY <1>2, <2>1, <2>2, <2>3, <2>4, <2>5 DEF TextAt, doc, DocType
<1> QED
  BY <1>1, <1>2

-----------------------------------------------------------------------------
(* Replacing *)

\* What the transaction can answer and leave: the proposed text with SUCCESS and only
\* when the hash agreed, with anything else the text that was there.
LEMMA AnswersAre ==
    ASSUME DocType, NEW cmd, cmd.new \in Texts, NEW p \in Places \cup {NoPlace},
           NEW a \in Answers(cmd, p)
    PROVE  /\ a[1] \in {"SUCCESS", "FAILED", "ROLLED_BACK", "STALE_REJECTED"}
           /\ a[2] = None => a[1] = "FAILED"
           /\ a[2] # None => p \in Places /\ ~locked /\ a[2] \in Texts
           /\ a[2] # None /\ a[1] # "SUCCESS" => a[2] = TextAt(p)
           /\ a[1] = "SUCCESS" => /\ a[2] = cmd.new
                                  /\ cmd.base \in {None, Normal[TextAt(p)]}
<1>0. None \notin Texts /\ Torn \notin Texts /\ cmd.new # Torn /\ cmd.new # None
  BY TextsAssumption DEF None, Torn
<1>1. CASE p = NoPlace \/ locked
  <2>1. a = <<"FAILED", None>>
    BY <1>1 DEF Answers
  <2> QED
    BY <2>1
<1>2. CASE ~(p = NoPlace \/ locked)
  <2>1. TextAt(p) \in Texts /\ TextAt(p) # None /\ p \in Places
    BY <1>0, <1>2, PlaceTexts
  <2>2. CASE cmd.base \notin {None, Normal[TextAt(p)]}
    <3>1. a = <<"STALE_REJECTED", TextAt(p)>>
      BY <1>2, <2>2 DEF Answers
    <3> QED
      BY <1>2, <2>1, <3>1
  <2>3. CASE cmd.base \in {None, Normal[TextAt(p)]}
    <3>1. PICK fit \in BOOLEAN :
            a \in IF fit THEN RunInTransaction(TextAt(p), cmd) ELSE {<<"FAILED", TextAt(p)>>}
      BY <1>2, <2>3 DEF Answers, MayFit
    <3>2. \/ a = <<"FAILED", TextAt(p)>>
          \/ a = <<"ROLLED_BACK", TextAt(p)>>
          \/ a = <<"SUCCESS", cmd.new>>
      BY <1>0, <3>1 DEF RunInTransaction, ApplyHunks
    <3> QED
      BY <1>0, <1>2, <2>1, <2>3, <3>2
  <2> QED
    BY <2>2, <2>3
<1> QED
  BY <1>1, <1>2

\* A replacement either keeps the document or has SUCCESS with the one place it
\* changed; the dashboard may be told "error" in both cases.
LEMMA ReplaceDoes ==
    ASSUME DocType, NEW cmd, cmd.new \in Texts, NEW com \in {"done", "busy", "lost"},
           Replace(cmd, com)
    PROVE  /\ UNCHANGED <<locked, cursor>>
           /\ reply'.op = "replace" /\ reply'.cmd = cmd
           /\ reply'.place \in Places \cup {NoPlace}
           /\ reply'.status \in {"SUCCESS", "FAILED", "ROLLED_BACK", "STALE_REJECTED", "error"}
           /\ reply' = [op |-> "replace", cmd |-> cmd, status |-> reply'.status,
                        place |-> reply'.place]
           /\ net' = net \/ net' = [net EXCEPT !.status = "ERROR"]
           /\ story' \in Seq(Texts) /\ Len(story') = Len(story) /\ story' # << >>
           /\ inset' \in Texts \cup {None} /\ Places' = Places
           /\ \/ doc' = doc /\ reply'.status # "SUCCESS"
              \/ \E p \in Places :
                     /\ p = Target(cmd) /\ ~locked
                     /\ \A q \in Places \ {p} : TextAt(q)' = TextAt(q)
                     /\ TextAt(p)' = cmd.new
                     /\ cmd.base \in {None, Normal[TextAt(p)]}
                     /\ reply'.status \in {"SUCCESS", "error"} /\ reply'.place = p
<1>1. PICK p \in Places \cup {NoPlace} : p = Target(cmd)
  BY TargetIsPlace
<1>2. locked' = locked /\ cursor' = cursor
  BY DEF Replace
<1>3. PICK a \in Answers(cmd, p) :
        IF com = "busy" THEN /\ Answered("replace", cmd, "error", NoPlace)
                             /\ UNCHANGED <<story, inset, net>>
        ELSE /\ IF a[2] = None THEN UNCHANGED <<story, inset>> ELSE Leave(p, a[2])
             /\ Answered("replace", cmd, IF com = "lost" THEN "error" ELSE a[1], p)
             /\ DispatchResult
  BY <1>1 DEF Replace
<1>4. /\ a[1] \in {"SUCCESS", "FAILED", "ROLLED_BACK", "STALE_REJECTED"}
      /\ a[2] = None => a[1] = "FAILED"
      /\ a[2] # None => p \in Places /\ ~locked /\ a[2] \in Texts
      /\ a[2] # None /\ a[1] # "SUCCESS" => a[2] = TextAt(p)
      /\ a[1] = "SUCCESS" => a[2] = cmd.new /\ cmd.base \in {None, Normal[TextAt(p)]}
  BY <1>1, AnswersAre
<1>5. CASE com = "busy" \/ a[2] = None
  <2>1. UNCHANGED <<story, inset>>
    BY <1>3, <1>5
  <2>2. doc' = doc /\ Places' = Places
    BY <1>2, <2>1 DEF doc, Places
  <2> QED
    BY <1>1, <1>2, <1>3, <1>4, <1>5, <2>1, <2>2 DEF Answered, DispatchResult, DocType
<1>6. CASE com # "busy" /\ a[2] # None
  <2>1. Leave(p, a[2]) /\ p \in Places /\ ~locked /\ a[2] \in Texts
    BY <1>3, <1>4, <1>6
  <2>2. /\ story' \in Seq(Texts) /\ Len(story') = Len(story) /\ story' # << >>
        /\ inset' \in Texts \cup {None}
        /\ Places' = Places
        /\ TextAt(p)' = a[2]
        /\ \A q \in Places \ {p} : TextAt(q)' = TextAt(q)
        /\ a[2] = TextAt(p) => doc' = doc
    BY <1>2, <2>1, LeaveChangesOne
  <2>3. /\ reply' = [op |-> "replace", cmd |-> cmd,
                     status |-> IF com = "lost" THEN "error" ELSE a[1], place |-> p]
        /\ net' = [net EXCEPT !.status = "ERROR"]
    BY <1>3, <1>6 DEF Answered, DispatchResult
  <2>4. CASE a[1] = "SUCCESS"
    BY <1>1, <1>2, <1>4, <2>1, <2>2, <2>3, <2>4
  <2>5. CASE a[1] # "SUCCESS"
    <3>1. doc' = doc /\ Places' = Places
      BY <1>4, <1>6, <2>2, <2>5
    <3>2. reply'.status # "SUCCESS"
      BY <2>3, <2>5
    <3>3. reply'.op = "replace" /\ reply'.cmd = cmd /\ reply'.place = p
          /\ reply'.status \in {"SUCCESS", "FAILED", "ROLLED_BACK", "STALE_REJECTED", "error"}
      BY <1>4, <2>3
    <3>4. reply' = [op |-> "replace", cmd |-> cmd, status |-> reply'.status,
                    place |-> reply'.place]
      BY <2>3
    <3>5. net' = [net EXCEPT !.status = "ERROR"] /\ p \in Places /\ story' # << >>
          /\ story' \in Seq(Texts) /\ Len(story') = Len(story)
          /\ inset' \in Texts \cup {None}
      BY <2>1, <2>2, <2>3
    <3> QED
      BY <1>2, <3>1, <3>2, <3>3, <3>4, <3>5
  <2> QED
    BY <2>4, <2>5
<1> QED
  BY <1>5, <1>6

-----------------------------------------------------------------------------
(* The daemon *)

LEMMA ActiveParagraphType ==
    ASSUME DocType, cursor # NoPlace
    PROVE  ActiveParagraph \in Paragraphs
<1>1. cursor \in Places /\ cursor \in 0 .. MaxParas /\ TextAt(cursor) \in Texts
  BY PlaceTexts DEF DocType
<1>2. MaxParas \in Nat /\ Width \in Nat
  BY BoundsAssumption
<1>3. Len(story) >= 1 /\ Len(story) \in Nat /\ Len(story) <= MaxParas
  BY DEF DocType
<1>4. 0 \in 0 .. Width * (MaxParas - 1)
  BY <1>2, <1>3
<1>5. cursor # 0 => Width * (cursor - 1) \in 0 .. Width * (MaxParas - 1)
  <2> SUFFICES ASSUME cursor # 0
               PROVE  Width * (cursor - 1) \in 0 .. Width * (MaxParas - 1)
    OBVIOUS
  <2>1. \A a, b, w \in Nat : a <= b => w * a \in Nat /\ w * b \in Nat /\ w * a <= w * b
    OBVIOUS
  <2>2. cursor - 1 \in Nat /\ MaxParas - 1 \in Nat /\ cursor - 1 <= MaxParas - 1
    BY <1>1, <1>2
  <2> QED
    BY <1>2, <2>1, <2>2
<1>6. \A i \in 0 .. Width * (MaxParas - 1) : Id("story", i) \in Ids
  BY DEF Ids
<1> QED
  BY <1>1, <1>4, <1>5, <1>6 DEF ActiveParagraph, Paragraphs

LEMMA HandshakeStep ==
    ASSUME NEW n \in Nets, NEW m \in Handshake(n)
    PROVE  m \in Nets /\ m.heard = n.heard
<1>1. CASE n.server \in {"down", "other"}
  <2>1. m = [n EXCEPT !.status = "ERROR"]
    BY <1>1 DEF Handshake
  <2> QED
    BY <2>1 DEF Nets, Statuses
<1>2. CASE n.server \notin {"down", "other"}
  <2>1. PICK lost \in Losses :
          m = [n EXCEPT !.status = IF lost THEN "ERROR" ELSE "CONNECTED",
                        !.server = IF lost THEN "stale" ELSE "ours"]
    BY <1>2 DEF Handshake
  <2> QED
    BY <2>1 DEF Nets, Statuses, Servers
<1> QED
  BY <1>1, <1>2

LEMMA AttemptStep ==
    ASSUME NEW n \in Nets, NEW due, NEW m \in AttemptConnection(n, due)
    PROVE  m \in Nets /\ m.heard = n.heard
BY HandshakeStep DEF AttemptConnection

LEMMA HeartbeatStep ==
    ASSUME NEW n \in Nets, NEW due, NEW m \in Heartbeat(n, due)
    PROVE  m \in Nets /\ m.heard = n.heard
BY HandshakeStep DEF Heartbeat

\* The only operator that has the server hear of a paragraph, and it is the active one.
LEMMA CaptureStep ==
    ASSUME DocType, NEW n \in Nets, NEW m \in CaptureActiveParagraph(n)
    PROVE  m \in Nets /\ (m.heard = n.heard \/ m.heard = ActiveParagraph)
<1>1. CASE m = n
  BY <1>1
<1>2. CASE m # n
  <2> DEFINE k == [n EXCEPT !.sent = ActiveParagraph]
  <2>1. cursor # NoPlace
    BY <1>2 DEF CaptureActiveParagraph
  <2>2. k \in Nets /\ k.heard = n.heard /\ k.sent = ActiveParagraph
    BY <2>1, ActiveParagraphType DEF Nets
  <2>3. \/ m = k
        \/ \E lost \in Losses :
             m = [Request(k, lost) EXCEPT !.heard = IF n.server = "ours" THEN k.sent ELSE @]
    BY <1>2 DEF CaptureActiveParagraph
  <2> HIDE DEF k
  <2>4. \A lost : /\ Request(k, lost) \in Nets /\ Request(k, lost).heard = k.heard
    BY <2>2 DEF Request, Nets, Statuses
  <2>5. ActiveParagraph \in Paragraphs
    BY <2>1, ActiveParagraphType
  <2>6. \A r \in Nets : /\ [r EXCEPT !.heard = ActiveParagraph] \in Nets
                        /\ [r EXCEPT !.heard = ActiveParagraph].heard = ActiveParagraph
                        /\ [r EXCEPT !.heard = r.heard] = r
    BY <2>5 DEF Nets
  <2>7. ASSUME NEW lost \in Losses,
               m = [Request(k, lost) EXCEPT !.heard = IF n.server = "ours" THEN k.sent ELSE @]
        PROVE  m \in Nets /\ (m.heard = n.heard \/ m.heard = ActiveParagraph)
    <3>1. PICK r \in Nets : r = Request(k, lost) /\ r.heard = n.heard
      BY <2>2, <2>4
    <3>2. CASE n.server = "ours"
      <4>1. m = [r EXCEPT !.heard = ActiveParagraph]
        BY <2>2, <2>7, <3>1, <3>2
      <4> QED
        BY <2>6, <4>1
    <3>3. CASE n.server # "ours"
      <4>1. m = [r EXCEPT !.heard = r.heard]
        BY <2>7, <3>1, <3>3
      <4> QED
        BY <2>6, <3>1, <4>1
    <3> QED
      BY <3>2, <3>3
  <2> QED
    BY <2>2, <2>3, <2>7
<1> QED
  BY <1>1, <1>2

LEMMA DaemonStep ==
    ASSUME DocType, net \in Nets, NEW c \in BOOLEAN, NEW b \in BOOLEAN,
           OnIdleTick(c, b) \/ OnEvent(c)
    PROVE  /\ net' \in Nets /\ (net'.heard = net.heard \/ net'.heard = ActiveParagraph)
           /\ reply' = NoReply /\ UNCHANGED <<story, inset, locked, cursor>>
           /\ events \in 0 .. MaxEvents => events' \in 0 .. MaxEvents
<1>1. reply' = NoReply /\ UNCHANGED <<story, inset, locked, cursor>>
  BY DEF OnIdleTick, OnEvent
<1>2. CASE OnIdleTick(c, b)
  <2>1. PICK k \in AttemptConnection(net, c) : \E l \in CaptureActiveParagraph(k) :
          \E m \in Heartbeat(l, b) : Network(m)
    BY <1>2 DEF OnIdleTick
  <2>2. PICK l \in CaptureActiveParagraph(k) : \E m \in Heartbeat(l, b) : Network(m)
    BY <2>1
  <2>3. PICK m \in Heartbeat(l, b) : Network(m)
    BY <2>2
  <2>4. k \in Nets /\ k.heard = net.heard
    BY AttemptStep
  <2>5. l \in Nets /\ (l.heard = k.heard \/ l.heard = ActiveParagraph)
    BY <2>4, CaptureStep
  <2>6. m \in Nets /\ m.heard = l.heard
    BY <2>5, HeartbeatStep
  <2> QED
    BY <1>1, <2>3, <2>4, <2>5, <2>6, BoundsAssumption DEF Network
<1>3. CASE OnEvent(c)
  <2>1. PICK k \in AttemptConnection(net, c) : \E l \in CaptureActiveParagraph(k) : Network(l)
    BY <1>3 DEF OnEvent
  <2>2. PICK l \in CaptureActiveParagraph(k) : Network(l)
    BY <2>1
  <2>3. k \in Nets /\ k.heard = net.heard
    BY AttemptStep
  <2>4. l \in Nets /\ (l.heard = k.heard \/ l.heard = ActiveParagraph)
    BY <2>3, CaptureStep
  <2> QED
    BY <1>1, <2>2, <2>3, <2>4, BoundsAssumption DEF Network
<1> QED
  BY <1>2, <1>3

-----------------------------------------------------------------------------
(* Reading, the user and the rest *)

Replies == [op: {"replace", "locate", "snapshot", "snapshots"}, cmd: Commands,
            status: {"SUCCESS", "FAILED", "ROLLED_BACK", "STALE_REJECTED", "FOUND",
                     "NOT_FOUND", "AMBIGUOUS", "SELECTION_FAILED", "ERROR", "error"},
            place: -1 .. MaxParas]

LEMMA LocateDoes ==
    ASSUME DocType, NEW cmd \in Commands, Locate(cmd)
    PROVE  /\ UNCHANGED <<story, inset, locked, net>>
           /\ reply' \in Replies /\ reply'.op = "locate" /\ reply'.cmd = cmd
           /\ cursor' \in Places \cup {NoPlace}
           /\ cursor' # cursor => FindParagraphById(cmd.id, cmd.base) # NoPlace
<1>1. PICK p \in Places \cup {NoPlace} : p = FindParagraphById(cmd.id, cmd.base)
  BY FindFinds
<1>2. p \in -1 .. MaxParas /\ NoPlace \in -1 .. MaxParas
  BY <1>1, PlaceTexts, BoundsAssumption DEF NoPlace
<1>3. PICK s \in {"FOUND", "SELECTION_FAILED", "NOT_FOUND", "AMBIGUOUS", "ERROR"},
           at \in {p, NoPlace} :
        /\ Answered("locate", cmd, s, at)
        /\ cursor' \in {p, cursor} /\ (cursor' # cursor => p # NoPlace)
  BY <1>1 DEF Locate
<1>4. UNCHANGED <<story, inset, locked, net>>
  BY DEF Locate
<1>5. reply' = [op |-> "locate", cmd |-> cmd, status |-> s, place |-> at]
  BY <1>3 DEF Answered
<1> QED
  BY <1>1, <1>2, <1>3, <1>4, <1>5 DEF Replies, DocType

LEMMA SnapshotDoes ==
    ASSUME DocType, NEW cmd \in Commands, Snapshot(cmd)
    PROVE  /\ UNCHANGED <<story, inset, locked, cursor, net>>
           /\ reply' \in Replies /\ reply'.op = "snapshot"
<1> DEFINE p == IF Hint(cmd.id) \in Places THEN Hint(cmd.id) ELSE ScanForHash(cmd.base)
           place == IF cmd.id.kind = "story" THEN p ELSE NoPlace
           s == IF cmd.id.kind # "story" THEN "ERROR"
                ELSE IF p # NoPlace THEN "FOUND"
                ELSE IF cmd.base = None THEN "ERROR"
                ELSE IF Matches(cmd.base) = {} THEN "NOT_FOUND" ELSE "AMBIGUOUS"
<1>1. p \in Places \cup {NoPlace}
  BY ScanFinds DEF Matches
<1>2. place \in -1 .. MaxParas
  BY <1>1, PlaceTexts, BoundsAssumption DEF NoPlace
<1>3. reply' = [op |-> "snapshot", cmd |-> cmd, status |-> s, place |-> place]
  BY DEF Snapshot, Answered
<1>4. s \in {"ERROR", "FOUND", "NOT_FOUND", "AMBIGUOUS"}
  OBVIOUS
<1> HIDE DEF s, place
<1> QED
  BY <1>2, <1>3, <1>4 DEF Snapshot, Replies

LEMMA SnapshotsDo ==
    ASSUME DocType, NEW i \in Ids, Snapshots(i)
    PROVE  /\ UNCHANGED <<story, inset, locked, cursor, net>>
           /\ reply' \in Replies /\ reply'.op = "snapshots"
<1> DEFINE cmd == CommandOf(i, CHOOSE t \in Texts : TRUE, FALSE)
           place == IF i.kind = "story" /\ Hint(i) \in Places THEN Hint(i) ELSE NoPlace
           s == IF i.kind # "story" THEN "ERROR"
                ELSE IF Hint(i) \in Places THEN "FOUND" ELSE "NOT_FOUND"
<1>1. cmd \in Commands
  <2>1. TextAt(1) \in Texts
    BY PlaceTexts
  <2>2. (CHOOSE t \in Texts : TRUE) \in Texts
    BY <2>1
  <2> QED
    BY <2>2, CommandsAre
<1>2. place \in -1 .. MaxParas
  BY PlaceTexts, BoundsAssumption DEF NoPlace
<1>3. reply' = [op |-> "snapshots", cmd |-> cmd, status |-> s, place |-> place]
  BY DEF Snapshots, Answered
<1>4. s \in {"ERROR", "FOUND", "NOT_FOUND"}
  OBVIOUS
<1> HIDE DEF s, place, cmd
<1> QED
  BY <1>1, <1>2, <1>3, <1>4 DEF Snapshots, Replies

LEMMA UserStep ==
    ASSUME DocType, User
    PROVE  DocType' /\ reply' = NoReply /\ net' = net
<1>0. /\ Len(story) \in Nat /\ MaxParas \in Nat /\ story \in Seq(Texts)
      /\ Len(story) <= MaxParas /\ Len(story) # 0
  BY BoundsAssumption DEF DocType
<1>1. ASSUME NEW p \in 0 .. MaxParas, NEW t \in Texts, Edit(p, t)
      PROVE  DocType'
  BY <1>1, LeaveChangesOne DEF Edit, DocType
<1>2. ASSUME NEW p \in 0 .. MaxParas, NEW t \in Texts, InsertAbove(p, t)
      PROVE  DocType'
  <2>1. /\ p \in 1 .. Len(story) /\ Len(story) < MaxParas
        /\ story' = Q!InsertAt(story, p, t)
        /\ cursor' = p /\ inset' = inset /\ locked' = locked
    BY <1>2 DEF InsertAbove
  <2>3. story' \in Seq(Texts) /\ Len(story') = Len(story) + 1
    BY <1>0, <2>1, InsertOne
  <2>4. story' # << >> /\ Len(story') <= MaxParas /\ cursor' \in 1 .. Len(story')
    BY <1>0, <2>1, <2>3
  <2> QED
    BY <2>1, <2>3, <2>4 DEF DocType, Places
<1>3. ASSUME NEW p \in 0 .. MaxParas, Delete(p)
      PROVE  DocType'
  <2>1. CASE p = 0
    BY <1>3, <2>1 DEF Delete, DocType, Places
  <2>2. CASE p # 0
    <3>1. /\ p <= Len(story) /\ Len(story) > 1 /\ inset' = inset
          /\ locked' = locked /\ cursor' = NoPlace
          /\ story' = Q!RemoveAt(story, p)
      BY <1>3, <2>2 DEF Delete
    <3>2. p \in 1 .. Len(story)
      BY <1>0, <2>2, <3>1
    <3>3. story' \in Seq(Texts) /\ Len(story') = Len(story) - 1
      BY <1>0, <3>1, <3>2, RemoveOne
    <3>4. story' # << >> /\ Len(story') <= MaxParas
      BY <1>0, <3>1, <3>3
    <3> QED
      BY <3>1, <3>3, <3>4 DEF DocType
  <2> QED
    BY <2>1, <2>2
<1>4. ASSUME NEW p \in NoPlace .. MaxParas, Select(p)
      PROVE  DocType'
  BY <1>4 DEF Select, doc, DocType, Places
<1>5. ASSUME ToggleLock
      PROVE  DocType'
  BY <1>5 DEF ToggleLock, DocType, Places
<1> QED
  BY <1>1, <1>2, <1>3, <1>4, <1>5 DEF User

LEMMA RestartDoes ==
    ASSUME net \in Nets, Restart
    PROVE  net' \in Nets /\ net'.heard = net.heard
<1> DEFINE n == [net EXCEPT !.status = "DISCONNECTED", !.sent = NoParagraph,
                            !.server = IF @ = "ours" THEN "stale" ELSE @]
<1>1. n \in Nets /\ n.heard = net.heard
  BY DEF Nets, Statuses, Servers, Paragraphs
<1>2. net' \in Handshake(n)
  BY DEF Restart
<1> HIDE DEF n
<1> QED
  BY <1>1, <1>2, HandshakeStep

TypeInv == DocType /\ net \in Nets /\ ReplyType /\ events \in 0 .. MaxEvents

\* Every step is a replacement, a lookup or a read the dashboard asked for, or has no
\* answer at all; in none of them the server hears of another paragraph than the
\* active one.
LEMMA StepDoes ==
    ASSUME TypeInv, [Next]_vars
    PROVE  /\ TypeInv'
           /\ net'.heard # net.heard => net'.heard = ActiveParagraph
           /\ \/ \E cmd \in Commands, com \in {"done", "busy", "lost"} :
                    cmd.new \in Texts /\ cmd.id \in Ids /\ cmd.base \in Texts \cup {None}
                    /\ Replace(cmd, com)
              \/ \E cmd \in Commands : /\ Locate(cmd)
                                       /\ cmd.id \in Ids /\ cmd.base \in Texts \cup {None}
              \/ /\ reply' \in Replies /\ reply'.op \in {"snapshot", "snapshots"}
                 /\ UNCHANGED <<story, inset, locked, cursor>>
              \/ reply' = NoReply
              \/ UNCHANGED vars
<1>0. /\ Event => events' \in 0 .. MaxEvents
      /\ reply' \in Replies \/ reply' = NoReply => ReplyType'
  BY BoundsAssumption DEF Event, TypeInv, ReplyType, Replies
<1> USE DEF TypeInv
<1>1. ASSUME NEW i \in Ids, NEW t \in Texts, NEW based \in BOOLEAN,
             NEW com \in {"done", "busy", "lost"}, Replace(CommandOf(i, t, based), com)
      PROVE  /\ TypeInv' /\ net'.heard = net.heard
             /\ \E cmd \in Commands : /\ cmd.new \in Texts /\ cmd.id \in Ids
                                      /\ cmd.base \in Texts \cup {None} /\ Replace(cmd, com)
  <2>1. PICK cmd \in Commands : /\ cmd = CommandOf(i, t, based) /\ cmd.new \in Texts
                                /\ cmd.id \in Ids /\ cmd.base \in Texts \cup {None}
    BY CommandsAre, TextsAssumption
  <2>2. Replace(cmd, com)
    BY <1>1, <2>1
  <2>3. DocType'
    BY <2>1, <2>2, ReplaceDoes DEF DocType
  <2>4. net' \in Nets /\ net'.heard = net.heard
    <3>1. [net EXCEPT !.status = "ERROR"] \in Nets
          /\ [net EXCEPT !.status = "ERROR"].heard = net.heard
      BY DEF Nets, Statuses
    <3> QED
      BY <2>1, <2>2, <3>1, ReplaceDoes
  <2>5. reply' \in Replies
    <3>1. reply'.place \in -1 .. MaxParas
      BY <2>1, <2>2, ReplaceDoes, PlaceTexts, BoundsAssumption DEF NoPlace
    <3>2. /\ reply' = [op |-> "replace", cmd |-> cmd, status |-> reply'.status,
                       place |-> reply'.place]
          /\ reply'.status \in {"SUCCESS", "FAILED", "ROLLED_BACK", "STALE_REJECTED", "error"}
      BY <2>1, <2>2, ReplaceDoes
    <3> QED
      BY <3>1, <3>2 DEF Replies
  <2>6. events' \in 0 .. MaxEvents
    BY <1>0, <2>2 DEF Replace
  <2> QED
    BY <1>0, <2>1, <2>2, <2>3, <2>4, <2>5, <2>6
<1>2. ASSUME NEW i \in Ids, NEW t \in Texts, NEW based \in BOOLEAN,
             Locate(CommandOf(i, t, based))
      PROVE  /\ TypeInv' /\ net' = net
             /\ \E cmd \in Commands : /\ Locate(cmd) /\ cmd.id \in Ids
                                      /\ cmd.base \in Texts \cup {None}
  <2>1. PICK cmd \in Commands : /\ cmd = CommandOf(i, t, based) /\ cmd.id \in Ids
                                /\ cmd.base \in Texts \cup {None}
    BY CommandsAre, TextsAssumption
  <2>2. Locate(cmd)
    BY <1>2, <2>1
  <2>3. Event
    BY <2>2 DEF Locate
  <2>4. DocType'
    BY <2>2, LocateDoes DEF DocType, Places
  <2> QED
    BY <1>0, <2>1, <2>2, <2>3, <2>4, LocateDoes
<1>3. ASSUME NEW i \in Ids, NEW t \in Texts, NEW based \in BOOLEAN,
             Snapshot(CommandOf(i, t, based))
      PROVE  /\ TypeInv' /\ net' = net
             /\ reply' \in Replies /\ reply'.op = "snapshot"
             /\ UNCHANGED <<story, inset, locked, cursor>>
  <2>1. CommandOf(i, t, based) \in Commands
    BY CommandsAre
  <2>2. Event
    BY <1>3 DEF Snapshot
  <2> QED
    BY <1>0, <1>3, <2>1, <2>2, SnapshotDoes DEF DocType, Places
<1>4. ASSUME NEW i \in Ids, Snapshots(i)
      PROVE  /\ TypeInv' /\ net' = net
             /\ reply' \in Replies /\ reply'.op = "snapshots"
             /\ UNCHANGED <<story, inset, locked, cursor>>
  <2>1. Event
    BY <1>4 DEF Snapshots
  <2> QED
    BY <1>0, <1>4, <2>1, SnapshotsDo DEF DocType, Places
<1>5. ASSUME NEW c \in BOOLEAN, NEW b \in BOOLEAN, OnIdleTick(c, b) \/ OnEvent(c)
      PROVE  /\ TypeInv' /\ reply' = NoReply
             /\ net'.heard = net.heard \/ net'.heard = ActiveParagraph
  BY <1>0, <1>5, DaemonStep DEF DocType, Places
<1>6. ASSUME Restart
      PROVE  TypeInv' /\ reply' = NoReply /\ net'.heard = net.heard
  BY <1>0, <1>6, RestartDoes DEF Restart, DocType, Places
<1>7. ASSUME User
      PROVE  TypeInv' /\ reply' = NoReply /\ net' = net
  BY <1>0, <1>7, UserStep DEF User
<1>8. ASSUME NEW s \in {"down", "free", "other"}, Server(s)
      PROVE  TypeInv' /\ reply' = NoReply /\ net'.heard = net.heard
  <2>1. [net EXCEPT !.server = s] \in Nets /\ [net EXCEPT !.server = s].heard = net.heard
    BY DEF Nets, Servers
  <2> QED
    BY <1>0, <1>8, <2>1 DEF Server, DocType, Places
<1>9. ASSUME UNCHANGED vars
      PROVE  TypeInv' /\ net' = net
  BY <1>9 DEF vars, DocType, Places, ReplyType
<1> QED
  BY <1>1, <1>2, <1>3, <1>4, <1>5, <1>6, <1>7, <1>8, <1>9 DEF Next

-----------------------------------------------------------------------------
(* The theorems *)

LEMMA InitTypes ==
    ASSUME Init
    PROVE  TypeInv
<1>1. MaxParas \in Nat /\ MaxEvents \in Nat
  BY BoundsAssumption
<1>2. story \in Seq(Texts) /\ story # << >> /\ Len(story) <= MaxParas
  BY <1>1, BoundedSequence DEF Init
<1>3. DocType
  <2>1. Len(story) \in Nat /\ Len(story) # 0
    BY <1>2
  <2>2. 1 \in 1 .. Len(story)
    BY <2>1
  <2>3. cursor \in Places
    BY <2>2 DEF Init, Places
  <2> QED
    BY <1>2, <2>3 DEF Init, DocType
<1>4. net \in Nets
  BY DEF Init, Nets, Statuses, Servers, Paragraphs
<1> QED
  BY <1>1, <1>3, <1>4 DEF Init, TypeInv, ReplyType

\* Types hold for every document, server and sequence of calls: in particular the
\* selection never names a place that is gone.
THEOREM TypeCorrect == Spec => []TypeOK
<1>1. Init => TypeInv
  BY InitTypes
<1>2. TypeInv /\ [Next]_vars => TypeInv'
  BY StepDoes
<1>3. TypeInv => TypeOK
  BY TypeParts DEF TypeInv
<1> QED
  BY <1>1, <1>2, <1>3, PTL DEF Spec

\* A step with an answer that changed the document was a replacement, at the place
\* its command leads to.
LEMMA ChangeIsReplacement ==
    ASSUME TypeInv, [Next]_vars, reply' # NoReply, doc' # doc
    PROVE  /\ reply'.op = "replace" /\ ~locked /\ Places' = Places
           /\ \E p \in Places :
                /\ \A q \in Places \ {p} : TextAt(q)' = TextAt(q)
                /\ reply'.cmd.base \in {None, Normal[TextAt(p)]}
<1>1. PICK cmd \in Commands, com \in {"done", "busy", "lost"} :
        cmd.new \in Texts /\ Replace(cmd, com)
  <2>1. \A cmd \in Commands : ~Locate(cmd)
    BY LocateDoes DEF doc, TypeInv
  <2>2. ~UNCHANGED vars /\ ~UNCHANGED <<story, inset, locked, cursor>>
    BY DEF vars, doc
  <2> QED
    BY <2>1, <2>2, StepDoes
<1>2. PICK p \in Places :
        /\ ~locked
        /\ \A q \in Places \ {p} : TextAt(q)' = TextAt(q)
        /\ cmd.base \in {None, Normal[TextAt(p)]}
  BY <1>1, ReplaceDoes DEF TypeInv
<1> QED
  BY <1>1, <1>2, ReplaceDoes DEF TypeInv

\* Whatever the user inserts, deletes and edits between the making of an id and its use,
\* a command changes at most one paragraph, which has the hash the command was made for.
THEOREM OnlyTheAskedChanges == Spec => OnlyTheAsked
<1> DEFINE Asked ==
      reply' # NoReply /\ doc' # doc =>
          /\ reply'.op = "replace" /\ ~locked
          /\ Places' = Places
          /\ \E p \in Places :
                /\ \A q \in Places \ {p} : TextAt(q)' = TextAt(q)
                /\ reply'.cmd.base \in {None, Normal[TextAt(p)]}
<1>1. TypeInv /\ [Next]_vars => [Asked]_vars
  BY ChangeIsReplacement
<1>2. Init => TypeInv
  BY InitTypes
<1>3. TypeInv /\ [Next]_vars => TypeInv'
  BY StepDoes
<1> QED
  BY <1>1, <1>2, <1>3, PTL DEF Spec, OnlyTheAsked

\* SUCCESS is said of the proposed text in its place, and every refusal and rollback of
\* an unchanged document; the server hears of the active paragraph and of no other.
THEOREM ReportsStayTrue == Spec => ReportsAreTrue
<1> DEFINE True ==
      reply' # NoReply /\ reply'.op = "replace" =>
          IF reply'.status = "SUCCESS"
          THEN \E p \in Places : p = reply'.place /\ TextAt(p)' = reply'.cmd.new
          ELSE reply'.status # "error" => doc' = doc
<1>1. TypeInv /\ [Next]_vars => [True]_vars
  <2> SUFFICES ASSUME TypeInv, Next, reply' # NoReply, reply'.op = "replace", ~UNCHANGED vars
               PROVE  IF reply'.status = "SUCCESS"
                      THEN \E p \in Places : p = reply'.place /\ TextAt(p)' = reply'.cmd.new
                      ELSE reply'.status # "error" => doc' = doc
    OBVIOUS
  <2>1. PICK cmd \in Commands, com \in {"done", "busy", "lost"} :
          cmd.new \in Texts /\ Replace(cmd, com)
    <3>1. \A cmd \in Commands : ~Locate(cmd)
      BY LocateDoes DEF TypeInv
    <3> QED
      BY <3>1, StepDoes
  <2> QED
    BY <2>1, ReplaceDoes DEF TypeInv
<1>2. TypeInv /\ [Next]_vars => [net'.heard # net.heard => net'.heard = ActiveParagraph]_vars
  BY StepDoes
<1>3. Init => TypeInv
  BY InitTypes
<1>4. TypeInv /\ [Next]_vars => TypeInv'
  BY StepDoes
<1> QED
  BY <1>1, <1>2, <1>3, <1>4, PTL DEF Spec, ReportsAreTrue, AnswerIsTrue, HeardIsActive

\* An id that points elsewhere and a hash that two paragraphs have: neither a
\* replacement nor a lookup picks one of the two.
THEOREM TwinsAreLeftAlone == Spec => NoGuess
<1> DEFINE Guessed ==
      reply' # NoReply /\ reply'.op \in {"replace", "locate"} =>
          LET cmd == reply'.cmd
              twins == {p \in Places \ {0} : Normal[story[p]] = cmd.base}
          IN  cmd.id.kind = "story" /\ Cardinality(twins) > 1 /\ cmd.id.index + 1 \notin twins =>
              doc' = doc /\ cursor' = cursor
<1>1. ASSUME TypeInv, NEW cmd, cmd.id \in Ids, cmd.base \in Texts \cup {None},
             cmd.id.kind = "story", Cardinality(Matches(cmd.base)) > 1,
             cmd.id.index + 1 \notin Matches(cmd.base)
      PROVE  FindParagraphById(cmd.id, cmd.base) = NoPlace /\ Target(cmd) = NoPlace
  <2>1. cmd.id.index \in Nat
    BY <1>1, BoundsAssumption DEF Ids, Id
  <2>2. cmd.base # None
    <3>1. ASSUME cmd.base = None
          PROVE  Matches(cmd.base) = {}
      <4>1. ASSUME NEW p \in Places \ {0}
            PROVE  Normal[story[p]] \in Texts
        <5>1. story[p] \in Texts
          BY <1>1, PlaceTexts DEF TextAt, TypeInv
        <5> QED
          BY <5>1, TextsAssumption
      <4>2. None \notin Texts
        BY TextsAssumption DEF None
      <4> QED
        BY <3>1, <4>1, <4>2 DEF Matches
    <3> QED
      BY <1>1, <3>1, FS_EmptySet
  <2>3. Hint(cmd.id) = cmd.id.index + 1 /\ Hint(cmd.id) # 0
    BY <1>1, <2>1 DEF Hint
  <2>4. ~(Hint(cmd.id) \in Places /\ cmd.base \in {None, Normal[TextAt(Hint(cmd.id))]})
    BY <1>1, <2>2, <2>3 DEF Matches, TextAt
  <2>5. ScanForHash(cmd.base) = NoPlace
    BY <1>1 DEF ScanForHash
  <2> QED
    BY <1>1, <2>2, <2>4, <2>5 DEF FindParagraphById, Target
<1>2. TypeInv /\ [Next]_vars => [Guessed]_vars
  <2> SUFFICES ASSUME TypeInv, Next, reply' # NoReply, reply'.op \in {"replace", "locate"},
                      ~UNCHANGED vars, reply'.cmd.id.kind = "story",
                      Cardinality(Matches(reply'.cmd.base)) > 1,
                      reply'.cmd.id.index + 1 \notin Matches(reply'.cmd.base)
               PROVE  doc' = doc /\ cursor' = cursor
    BY DEF Matches
  <2>1. ASSUME NEW cmd \in Commands, NEW com \in {"done", "busy", "lost"},
               cmd.new \in Texts, cmd.id \in Ids, cmd.base \in Texts \cup {None}, Replace(cmd, com)
        PROVE  doc' = doc /\ cursor' = cursor
    <3>1. reply'.cmd = cmd
      BY <2>1, ReplaceDoes DEF TypeInv
    <3>2. Target(cmd) = NoPlace
      BY <1>1, <2>1, <3>1
    <3> QED
      BY <2>1, <3>2, ReplaceDoes, PlaceTexts DEF TypeInv
  <2>2. ASSUME NEW cmd \in Commands, Locate(cmd), cmd.id \in Ids, cmd.base \in Texts \cup {None}
        PROVE  doc' = doc /\ cursor' = cursor
    <3>1. reply'.cmd = cmd
      BY <2>2, LocateDoes DEF TypeInv
    <3>2. FindParagraphById(cmd.id, cmd.base) = NoPlace
      BY <1>1, <2>2, <3>1
    <3> QED
      BY <2>2, <3>2, LocateDoes DEF TypeInv, doc
  <2> QED
    BY <2>1, <2>2, StepDoes DEF doc
<1>3. Init => TypeInv
  BY InitTypes
<1>4. TypeInv /\ [Next]_vars => TypeInv'
  BY StepDoes
<1> QED
  BY <1>2, <1>3, <1>4, PTL DEF Spec, NoGuess
=============================================================================
