-------------------------- MODULE WordAddin_proofs --------------------------
(***************************************************************************)
(* Proofs about WordAddin, for any texts, any hash of them and any bounds. *)
(*                                                                         *)
(* That the client is never stranded does not follow from itself: it needs *)
(* that a connect() under way and a live socket exclude each other and any *)
(* status a finished handshake leaves (Underway).                          *)
(***************************************************************************)
EXTENDS WordAddin, FiniteSetTheorems, SequenceTheorems, TLAPS

Underway ==
    /\ connect # "idle" => client.status # "CONNECTED"
    /\ client.socket = "admitted" => client.status = "CONNECTED" /\ connect = "idle"

ClientInv == ClientIsSound /\ Underway

-----------------------------------------------------------------------------
(* Types *)

ClientStates ==
    [status: {"DISCONNECTED", "CONNECTING", "AUTHENTICATING", "CONNECTED", "ERROR"},
     socket: {"none", "connecting", "open", "admitted", "closed"},
     timer: BOOLEAN, attempts: 0 .. MaxAttempts, beat: BOOLEAN, disposed: BOOLEAN]

NetType ==
    /\ client \in ClientStates
    /\ connect \in {"idle", "token", "socket", "rest"}
    /\ server \in [up: BOOLEAN, admits: BOOLEAN, session: {"none", "socket", "rest"}]

Listeners ==
    [on: BOOLEAN, debounce: BOOLEAN, held: BOOLEAN, leaked: Nat,
     attempt: 0 .. MaxRetries, pending: Texts \cup {None}, last: Texts \cup {None}]

DocType ==
    /\ doc \in [paras: Q!BoundedSeq(Texts, MaxParas) \ {<< >>}, cursor: Nat]
    /\ doc.cursor \in DOMAIN doc.paras

LEMMA TypeParts ==
    TypeOK <=> /\ NetType /\ DocType
               /\ listener \in Listeners /\ posting \in Seq(Texts)
               /\ events \in 0 .. MaxEvents
BY DEF TypeOK, NetType, ClientStates, Listeners, DocType

\* A bounded sequence is a sequence that is not too long.
LEMMA BoundedSequence ==
    ASSUME NEW S, NEW n \in Nat, NEW s
    PROVE  s \in Q!BoundedSeq(S, n) <=> s \in Seq(S) /\ Len(s) <= n
<1>1. ASSUME s \in Q!BoundedSeq(S, n)
      PROVE  s \in Seq(S) /\ Len(s) <= n
  <2>1. PICK m \in 0 .. n : s \in [1 .. m -> S]
    BY <1>1 DEF Q!BoundedSeq, Q!SeqOf
  <2>2. s \in Seq(S) /\ Len(s) = m
    BY <2>1
  <2> QED
    BY <2>2
<1>2. ASSUME s \in Seq(S), Len(s) <= n
      PROVE  s \in Q!BoundedSeq(S, n)
  <2>1. Len(s) \in 0 .. n /\ s \in [1 .. Len(s) -> S]
    BY <1>2
  <2> QED
    BY <2>1 DEF Q!BoundedSeq, Q!SeqOf
<1> QED
  BY <1>1, <1>2

LEMMA ParagraphsAreSequence ==
    ASSUME DocType
    PROVE  /\ doc.paras \in Seq(Texts) /\ doc.paras # << >> /\ Len(doc.paras) <= MaxParas
           /\ doc.cursor \in 1 .. Len(doc.paras)
           /\ doc.paras[doc.cursor] \in Texts
<1>1. MaxParas \in Nat
  BY BoundsAssumption
<1>2. doc.paras \in Seq(Texts) /\ Len(doc.paras) <= MaxParas /\ doc.paras # << >>
  BY <1>1, BoundedSequence DEF DocType
<1> QED
  BY <1>2 DEF DocType

LEMMA RemoveOne ==
    ASSUME NEW S, NEW s \in Seq(S), NEW i \in DOMAIN s
    PROVE  Q!RemoveAt(s, i) \in Seq(S)
<1>1. SubSeq(s, 1, i - 1) \in Seq(S) /\ SubSeq(s, i + 1, Len(s)) \in Seq(S)
  BY SubSeqProperties
<1> QED
  BY <1>1 DEF Q!RemoveAt

-----------------------------------------------------------------------------
(* The connection *)


\* Scheduling changes the timer and the attempts, and leaves a client that has a
\* timer, is disposed or has used up its attempts.
LEMMA Scheduled ==
    ASSUME NEW c \in ClientStates
    PROVE  LET d == ScheduleReconnect(c)
           IN  /\ d \in ClientStates
               /\ d.status = c.status /\ d.socket = c.socket /\ d.beat = c.beat
               /\ d.disposed = c.disposed
               /\ d.timer \/ d.disposed \/ d.attempts = MaxAttempts
<1>1. MaxAttempts \in Nat
  BY BoundsAssumption
<1>2. CASE c.disposed \/ c.timer \/ c.attempts >= MaxAttempts
  <2>1. ScheduleReconnect(c) = c
    BY <1>2 DEF ScheduleReconnect
  <2>2. c.attempts >= MaxAttempts => c.attempts = MaxAttempts
    BY <1>1 DEF ClientStates
  <2> QED
    BY <1>2, <2>1, <2>2
<1>3. CASE ~(c.disposed \/ c.timer \/ c.attempts >= MaxAttempts)
  <2>1. ScheduleReconnect(c) = [c EXCEPT !.timer = TRUE, !.attempts = @ + 1]
    BY <1>3 DEF ScheduleReconnect
  <2>2. c.attempts + 1 \in 0 .. MaxAttempts
    BY <1>1, <1>3 DEF ClientStates
  <2> QED
    BY <2>1, <2>2 DEF ClientStates
<1> QED
  BY <1>2, <1>3

LEMMA AdmittedClient ==
    ASSUME NEW c \in ClientStates
    PROVE  /\ Admitted(c) \in ClientStates
           /\ Admitted(c).status = "CONNECTED" /\ Admitted(c).beat
           /\ Admitted(c).timer = c.timer /\ Admitted(c).socket = c.socket
<1>1. 0 \in 0 .. MaxAttempts
  BY BoundsAssumption
<1> QED
  BY <1>1 DEF Admitted, ClientStates

NetInv == NetType /\ NeverStranded /\ OneAttempt /\ BeatsWhileConnected /\ Underway

LEMMA NetInit ==
    ASSUME Init
    PROVE  NetInv
<1>1. MaxAttempts \in Nat
  BY BoundsAssumption
<1>2. client \in ClientStates
  BY <1>1 DEF Init, ClientStates
<1>3. server \in [up: BOOLEAN, admits: BOOLEAN, session: {"none", "socket", "rest"}]
  BY DEF Init
<1> QED
  BY <1>2, <1>3
  DEF Init, NetInv, NetType, NeverStranded, OneAttempt, BeatsWhileConnected, Underway

\* The REST fallback of a connect() whose socket came to nothing.
LEMMA FallbackStep ==
    ASSUME NetInv, NEW c \in ClientStates, connect = "socket",
           c.socket = "closed", c.timer = client.timer, c.beat = client.beat,
           c.status # "CONNECTED", c.disposed = client.disposed, c.attempts = client.attempts,
           Fallback(c), server' \in [up: BOOLEAN, admits: BOOLEAN, session: {"none", "socket", "rest"}]
    PROVE  NetInv'
<1>1. ~client.timer /\ ~client.beat
  BY DEF NetInv, NetType, ClientStates, OneAttempt, BeatsWhileConnected, Underway
<1>2. CASE c.disposed
  BY <1>1, <1>2
  DEF Fallback, NetInv, NetType, ClientStates, NeverStranded, OneAttempt,
      BeatsWhileConnected, Underway
<1>3. CASE ~c.disposed
  <2>1. /\ client' = [c EXCEPT !.socket = "none", !.timer = FALSE, !.status = "AUTHENTICATING"]
        /\ connect' = "rest"
    BY <1>3 DEF Fallback
  <2>2. /\ client' \in ClientStates
        /\ client'.socket = "none" /\ ~client'.timer /\ client'.status = "AUTHENTICATING"
        /\ ~client'.beat
    BY <1>1, <2>1 DEF ClientStates
  <2> QED
    BY <2>1, <2>2
    DEF NetInv, NetType, NeverStranded, OneAttempt, BeatsWhileConnected, Underway
<1> QED
  BY <1>2, <1>3

LEMMA AuthStep ==
    ASSUME NetInv, OnAuthResponse
    PROVE  NetInv'
<1>0. connect = "socket" /\ ~client.timer /\ client.status # "CONNECTED" /\ ~client.beat
  BY DEF OnAuthResponse, NetInv, NetType, ClientStates, OneAttempt, Underway, BeatsWhileConnected
<1>1. CASE server.admits /\ server.session = "none"
  <2>1. /\ client' = [Admitted(client) EXCEPT !.socket = "admitted"]
        /\ connect' = "idle"
        /\ server' = [server EXCEPT !.session = "socket"]
    BY <1>1 DEF OnAuthResponse
  <2>2. /\ client' \in ClientStates
        /\ client'.status = "CONNECTED" /\ client'.socket = "admitted"
        /\ client'.beat /\ ~client'.timer
    BY <1>0, <2>1, AdmittedClient DEF NetInv, NetType, ClientStates
  <2>3. server' \in [up: BOOLEAN, admits: BOOLEAN, session: {"none", "socket", "rest"}]
    BY <2>1 DEF NetInv, NetType
  <2> QED
    BY <2>1, <2>2, <2>3
    DEF NetInv, NetType, NeverStranded, OneAttempt, BeatsWhileConnected, Underway
<1>2. CASE ~(server.admits /\ server.session = "none")
  <2> DEFINE c == [client EXCEPT !.socket = "closed", !.status = "ERROR"]
  <2>1. Fallback(c) /\ server' = server
    BY <1>2 DEF OnAuthResponse
  <2>2. /\ c \in ClientStates /\ c.socket = "closed" /\ c.timer = client.timer
        /\ c.beat = client.beat /\ c.status = "ERROR" /\ c.disposed = client.disposed
        /\ c.attempts = client.attempts
    BY DEF NetInv, NetType, ClientStates
  <2>3. server' \in [up: BOOLEAN, admits: BOOLEAN, session: {"none", "socket", "rest"}]
    BY <2>1 DEF NetInv, NetType
  <2> HIDE DEF c
  <2> QED
    BY <1>0, <2>1, <2>2, <2>3, FallbackStep
<1> QED
  BY <1>1, <1>2

LEMMA ErrorStep ==
    ASSUME NetInv, NEW lost \in BOOLEAN, OnError(lost)
    PROVE  NetInv'
<1> DEFINE c == [client EXCEPT !.socket = "closed"]
<1>1. Fallback(c) /\ server' = server /\ connect = "socket"
  BY DEF OnError
<1>2. /\ c \in ClientStates /\ c.socket = "closed" /\ c.timer = client.timer
      /\ c.beat = client.beat /\ c.status = client.status /\ c.disposed = client.disposed
      /\ c.attempts = client.attempts
  BY DEF NetInv, NetType, ClientStates
<1>3. server' \in [up: BOOLEAN, admits: BOOLEAN, session: {"none", "socket", "rest"}]
  BY <1>1 DEF NetInv, NetType
<1>4. client.status # "CONNECTED"
  BY <1>1 DEF NetInv, Underway
<1> HIDE DEF c
<1> QED
  BY <1>1, <1>2, <1>3, <1>4, FallbackStep

LEMMA CloseStep ==
    ASSUME NetInv, OnClose
    PROVE  NetInv'
<1> DEFINE c == [client EXCEPT !.socket = "closed", !.beat = FALSE]
           d == [c EXCEPT !.status = "DISCONNECTED"]
<1>1. client.status = "CONNECTED" /\ connect = "idle" /\ ~client.timer /\ client.socket = "admitted"
  BY DEF OnClose, NetInv, NetType, ClientStates, Underway, OneAttempt
<1>2. client' = IF c.status = "DISCONNECTED" \/ c.disposed THEN c ELSE ScheduleReconnect(d)
  BY DEF OnClose
<1>3. /\ c \in ClientStates /\ c.socket = "closed" /\ ~c.beat /\ c.status = "CONNECTED"
      /\ c.disposed = client.disposed /\ ~c.timer
      /\ d \in ClientStates /\ d.socket = "closed" /\ ~d.beat /\ d.status = "DISCONNECTED"
      /\ d.disposed = client.disposed
  BY <1>1 DEF NetInv, NetType, ClientStates
<1>4. connect' = connect /\ server' = server
  BY DEF OnClose
<1> HIDE DEF c, d
<1>5. CASE c.disposed
  BY <1>1, <1>2, <1>3, <1>4, <1>5
  DEF NetInv, NetType, NeverStranded, OneAttempt, BeatsWhileConnected, Underway
<1>6. CASE ~c.disposed
  BY <1>1, <1>2, <1>3, <1>4, <1>6, Scheduled
  DEF NetInv, NetType, NeverStranded, OneAttempt, BeatsWhileConnected, Underway
<1> QED
  BY <1>5, <1>6

LEMMA RestStep ==
    ASSUME NetInv, NEW lost \in BOOLEAN, RestHandshake(lost)
    PROVE  NetInv'
<1>1. /\ connect = "rest" /\ client.status # "CONNECTED" /\ ~client.timer /\ ~client.beat
      /\ client.socket \notin {"connecting", "open", "admitted"}
  BY DEF RestHandshake, NetInv, NetType, ClientStates, Underway, OneAttempt, BeatsWhileConnected
<1>2. server' \in [up: BOOLEAN, admits: BOOLEAN, session: {"none", "socket", "rest"}]
  BY DEF RestHandshake, NetInv, NetType
<1>3. connect' = "idle"
  BY DEF RestHandshake
<1>4. CASE ~server.up \/ lost
  <2> DEFINE d == [client EXCEPT !.status = "DISCONNECTED"]
  <2>1. client' = ScheduleReconnect(d)
    BY <1>4 DEF RestHandshake
  <2>2. /\ d \in ClientStates /\ d.status = "DISCONNECTED" /\ ~d.beat
        /\ d.socket = client.socket
    BY <1>1 DEF NetInv, NetType, ClientStates
  <2> HIDE DEF d
  <2>3. /\ client' \in ClientStates /\ client'.status = "DISCONNECTED" /\ ~client'.beat
        /\ client'.socket = client.socket
        /\ client'.timer \/ client'.disposed \/ client'.attempts = MaxAttempts
    BY <2>1, <2>2, Scheduled
  <2> QED
    BY <1>1, <1>2, <1>3, <2>3
    DEF NetInv, NetType, NeverStranded, OneAttempt, BeatsWhileConnected, Underway
<1>5. CASE ~(~server.up \/ lost) /\ server.admits
  <2>1. client' = [Admitted(client) EXCEPT !.timer = FALSE]
    BY <1>5 DEF RestHandshake
  <2>2. /\ client' \in ClientStates /\ client'.status = "CONNECTED" /\ client'.beat
        /\ ~client'.timer /\ client'.socket = client.socket
    BY <1>1, <2>1, AdmittedClient DEF NetInv, NetType, ClientStates
  <2> QED
    BY <1>1, <1>2, <1>3, <2>2
    DEF NetInv, NetType, NeverStranded, OneAttempt, BeatsWhileConnected, Underway
<1>6. CASE ~(~server.up \/ lost) /\ ~server.admits
  <2>1. client' = [client EXCEPT !.status = "ERROR"]
    BY <1>6 DEF RestHandshake
  <2>2. /\ client' \in ClientStates /\ client'.status = "ERROR" /\ ~client'.beat
        /\ ~client'.timer /\ client'.socket = client.socket
    BY <1>1, <2>1 DEF NetInv, NetType, ClientStates
  <2> QED
    BY <1>1, <1>2, <1>3, <2>2
    DEF NetInv, NetType, NeverStranded, OneAttempt, BeatsWhileConnected, Underway
<1> QED
  BY <1>4, <1>5, <1>6

LEMMA NetStep ==
    ASSUME NetInv, [Next]_vars
    PROVE  NetInv'
<1> USE DEF NetInv, NetType, ClientStates, NeverStranded, OneAttempt,
            BeatsWhileConnected, Underway
<1>1. CASE OpenSocket \/ OnOpen
  BY <1>1 DEF OpenSocket, OnOpen
<1>2. CASE ReconnectTimer
  BY <1>2 DEF ReconnectTimer
<1>3. CASE Server
  BY <1>3 DEF Server
<1>4. CASE Shutdown
  BY <1>4 DEF Shutdown, Disconnect
<1>5. CASE UNCHANGED net
  BY <1>5 DEF net
<1> USE DEF NetInv
<1>6. CASE Connection \/ Loss
  BY <1>1, <1>2, <1>6, AuthStep, ErrorStep, CloseStep, RestStep DEF Connection, Loss
<1>7. CASE Listening \/ User
  BY <1>5, <1>7 DEF Listening, User
<1>8. ASSUME NEW op, NEW id, Receive(op, id)
      PROVE  UNCHANGED net
  BY <1>8 DEF Receive
<1>9. ASSUME NEW ok, Serve(ok)
      PROVE  UNCHANGED net
  BY <1>9 DEF Serve
<1> QED
  BY <1>3, <1>4, <1>5, <1>6, <1>7, <1>8, <1>9 DEF Next, vars, net

-----------------------------------------------------------------------------
(* The listener and the requests *)

ReportType == listener \in Listeners /\ posting \in Seq(Texts)

LEMMA DispatchStep ==
    ASSUME posting \in Seq(Texts), NEW l \in Listeners, NEW t \in Texts, Dispatch(l, t)
    PROVE  ReportType' /\ (listener'.last # l.last => Online)
<1>1. CASE Online
  <2>1. listener' = [l EXCEPT !.last = t, !.attempt = 0, !.pending = None] /\ posting' = posting
    BY <1>1 DEF Dispatch
  <2>2. 0 \in 0 .. MaxRetries
    BY BoundsAssumption
  <2> QED
    BY <1>1, <2>1, <2>2 DEF ReportType, Listeners
<1>2. CASE ~Online
  <2>1. listener' = l /\ posting' = Append(posting, t)
    BY <1>2 DEF Dispatch
  <2> QED
    BY <2>1 DEF ReportType
<1> QED
  BY <1>1, <1>2

LEMMA CaptureStep ==
    ASSUME posting \in Seq(Texts), DocType, NEW l \in Listeners, Capture(l)
    PROVE  ReportType' /\ (listener'.last # l.last => Online)
<1>1. doc.paras[doc.cursor] \in Texts
  BY ParagraphsAreSequence
<1>2. \/ listener' = l /\ posting' = posting
      \/ Dispatch(l, doc.paras[doc.cursor])
  BY DEF Capture
<1> QED
  BY <1>1, <1>2, DispatchStep DEF ReportType

\* Cancelling a retry and arming the debounce keep what was reported last.
LEMMA ListenerOps ==
    ASSUME NEW l \in Listeners
    PROVE  /\ CancelRetry(l) \in Listeners /\ CancelRetry(l).last = l.last
           /\ TriggerDebouncedCapture(l) \in Listeners
           /\ TriggerDebouncedCapture(l).last = l.last
<1>1. 0 \in 0 .. MaxRetries
  BY BoundsAssumption
<1>2. CancelRetry(l) \in Listeners /\ CancelRetry(l).last = l.last
  BY <1>1 DEF CancelRetry, Listeners
<1>3. \A m \in Listeners :
        [m EXCEPT !.debounce = TRUE] \in Listeners /\ [m EXCEPT !.debounce = TRUE].last = m.last
  BY DEF Listeners
<1> QED
  BY <1>2, <1>3 DEF TriggerDebouncedCapture

LEMMA RetryOps ==
    ASSUME NEW l \in Listeners, NEW t \in Texts
    PROVE  ScheduleRetry(l, t) \in Listeners /\ ScheduleRetry(l, t).last = l.last
<1>1. MaxRetries \in Nat
  BY BoundsAssumption
<1>2. CASE l.attempt >= MaxRetries \/ ~l.on
  <2>1. ScheduleRetry(l, t) = [l EXCEPT !.pending = t]
    BY <1>2 DEF ScheduleRetry
  <2> QED
    BY <2>1 DEF Listeners
<1>3. CASE ~(l.attempt >= MaxRetries \/ ~l.on)
  <2>1. l.attempt + 1 \in 0 .. MaxRetries /\ l.leaked + 1 \in Nat
    BY <1>1, <1>3 DEF Listeners
  <2>2. CASE l.held
    <3>1. ScheduleRetry(l, t) = [l EXCEPT !.pending = t, !.attempt = @ + 1, !.held = TRUE,
                                          !.leaked = @ + 1]
      BY <1>3, <2>2 DEF ScheduleRetry
    <3> QED
      BY <2>1, <3>1 DEF Listeners
  <2>3. CASE ~l.held
    <3>1. ScheduleRetry(l, t) = [l EXCEPT !.pending = t, !.attempt = @ + 1, !.held = TRUE,
                                          !.leaked = @]
      BY <1>3, <2>3 DEF ScheduleRetry
    <3> QED
      BY <2>1, <3>1 DEF Listeners
  <2> QED
    BY <2>2, <2>3
<1> QED
  BY <1>2, <1>3

LEMMA ListeningStep ==
    ASSUME ReportType, DocType, Listening
    PROVE  ReportType' /\ (listener'.last # listener.last => Online)
<1>1. CASE Start
  <2> DEFINE l == [listener EXCEPT !.on = TRUE]
  <2>1. l \in Listeners /\ l.last = listener.last /\ Capture(l)
    BY <1>1 DEF Start, ReportType, Listeners
  <2> HIDE DEF l
  <2> QED
    BY <2>1, CaptureStep DEF ReportType
<1>2. CASE DebounceFires
  <2> DEFINE l == [listener EXCEPT !.debounce = FALSE]
  <2>1. l \in Listeners /\ l.last = listener.last /\ Capture(l)
    BY <1>2 DEF DebounceFires, ReportType, Listeners
  <2> HIDE DEF l
  <2> QED
    BY <2>1, CaptureStep DEF ReportType
<1>3. ASSUME NEW held \in BOOLEAN, RetryFires(held)
      PROVE  ReportType' /\ (listener'.last # listener.last => Online)
  <2> DEFINE left == IF held THEN listener.leaked
                     ELSE IF listener.held THEN listener.leaked ELSE listener.leaked - 1
             l == [listener EXCEPT !.held = FALSE, !.leaked = left]
  <2>1. left \in Nat
    BY <1>3 DEF RetryFires, ReportType, Listeners
  <2> HIDE DEF left
  <2>2. l \in Listeners /\ l.last = listener.last
    BY <2>1 DEF ReportType, Listeners
  <2>3. \/ listener' = l /\ posting' = posting
        \/ l.pending # None /\ Dispatch(l, l.pending)
    BY <1>3 DEF RetryFires, left
  <2>4. l.pending # None => l.pending \in Texts
    BY <2>2 DEF Listeners
  <2> HIDE DEF l
  <2> QED
    BY <2>2, <2>3, <2>4, DispatchStep DEF ReportType
<1>4. ASSUME NEW i \in DOMAIN posting, PostFails(i)
      PROVE  ReportType' /\ (listener'.last # listener.last => Online)
  <2>1. posting[i] \in Texts
    BY DEF ReportType
  <2> QED
    BY <1>4, <2>1, RemoveOne, RetryOps DEF PostFails, ReportType
<1> QED
  BY <1>1, <1>2, <1>3, <1>4 DEF Listening

\* What a user does to the document keeps it one, and makes the listener look again.
LEMMA UserStep ==
    ASSUME ReportType, DocType, User
    PROVE  ReportType' /\ DocType' /\ listener'.last = listener.last
<1>1. listener' = TriggerDebouncedCapture(listener) /\ posting' = posting
  BY DEF User, Changed
<1>2. ReportType' /\ listener'.last = listener.last
  BY <1>1, ListenerOps DEF ReportType
<1>3. /\ doc.paras \in Seq(Texts) /\ doc.paras # << >> /\ Len(doc.paras) <= MaxParas
      /\ doc.cursor \in 1 .. Len(doc.paras) /\ MaxParas \in Nat
  BY ParagraphsAreSequence, BoundsAssumption
<1>4. ASSUME NEW i \in DOMAIN doc.paras, NEW t \in Texts,
             doc' = [doc EXCEPT !.paras[i] = t, !.cursor = i]
      PROVE  DocType'
  <2>1. doc'.paras = [doc.paras EXCEPT ![i] = t] /\ doc'.cursor = i
        /\ doc' = [paras |-> doc'.paras, cursor |-> doc'.cursor]
    BY <1>4 DEF DocType
  <2>2. doc'.paras \in Seq(Texts) /\ Len(doc'.paras) = Len(doc.paras)
        /\ doc'.paras # << >>
    BY <1>3, <2>1
  <2>3. doc'.paras \in Q!BoundedSeq(Texts, MaxParas)
    BY <1>3, <2>2, BoundedSequence
  <2> QED
    BY <1>3, <2>1, <2>2, <2>3 DEF DocType
<1>5. ASSUME NEW t \in Texts, Len(doc.paras) < MaxParas,
             doc' = [paras |-> <<t>> \o doc.paras, cursor |-> 1]
      PROVE  DocType'
  <2>1. /\ <<t>> \o doc.paras \in Seq(Texts)
        /\ Len(<<t>> \o doc.paras) = Len(doc.paras) + 1
    BY <1>3
  <2>2. /\ <<t>> \o doc.paras # << >>
        /\ 1 \in DOMAIN (<<t>> \o doc.paras)
        /\ Len(<<t>> \o doc.paras) <= MaxParas
    BY <1>3, <1>5, <2>1
  <2>3. <<t>> \o doc.paras \in Q!BoundedSeq(Texts, MaxParas)
    BY <1>3, <2>1, <2>2, BoundedSequence
  <2> QED
    BY <1>5, <2>2, <2>3 DEF DocType
<1> QED
  BY <1>2, <1>4, <1>5 DEF User, Changed

\* A lookup that reports FOUND has found one paragraph.
LEMMA FoundOne ==
    ASSUME DocType, NEW id, Status(Cardinality(Named(id))) = "FOUND"
    PROVE  \E i \in DOMAIN doc.paras :
               Named(id) = {i} /\ (CHOOSE j \in Named(id) : TRUE) = i
<1>1. Cardinality(Named(id)) = 1
  BY DEF Status
<1>2. IsFiniteSet(Named(id))
  <2>1. DOMAIN doc.paras = 1 .. Len(doc.paras) /\ Len(doc.paras) \in Nat
    BY ParagraphsAreSequence
  <2>2. IsFiniteSet(1 .. Len(doc.paras))
    BY <2>1, FS_Interval
  <2>3. Named(id) \subseteq 1 .. Len(doc.paras)
    BY <2>1 DEF Named
  <2> QED
    BY <2>2, <2>3, FS_Subset
<1>3. PICK i : Named(id) = {i}
  BY <1>1, <1>2, FS_Singleton
<1>4. i \in DOMAIN doc.paras
  BY <1>3 DEF Named
<1>5. (CHOOSE j \in Named(id) : TRUE) = i
  BY <1>3
<1> QED
  BY <1>3, <1>4, <1>5

LEMMA ServeStep ==
    ASSUME ReportType, DocType, NEW ok \in BOOLEAN, Serve(ok)
    PROVE  /\ ReportType' /\ DocType' /\ listener'.last = listener.last
           /\ (answer' # Nothing /\ answer'.status = "FOUND")
                => Named(answer'.id) = {answer'.place}
<1> DEFINE found == Named(request.id)
           s == IF ok THEN Status(Cardinality(found)) ELSE "ERROR"
           i == IF s = "FOUND" THEN CHOOSE j \in found : TRUE ELSE 0
<1>1. /\ doc' = IF request.op = "locate" /\ i # 0 THEN [doc EXCEPT !.cursor = i] ELSE doc
      /\ listener' = IF doc' # doc THEN TriggerDebouncedCapture(listener) ELSE listener
      /\ answer' = IF Online
                   THEN [op |-> request.op, id |-> request.id, status |-> s, place |-> i]
                   ELSE Nothing
      /\ posting' = posting
  BY DEF Serve
<1>2. s = "FOUND" => i \in DOMAIN doc.paras /\ found = {i}
  BY FoundOne
<1>3. i # 0 => s = "FOUND"
  OBVIOUS
<1> HIDE DEF found, i, s
<1>4. ReportType' /\ listener'.last = listener.last
  BY <1>1, ListenerOps DEF ReportType
<1>5. DocType'
  <2>1. CASE doc' = doc
    BY <2>1 DEF DocType
  <2>2. CASE doc' = [doc EXCEPT !.cursor = i] /\ i # 0
    <3>1. i \in DOMAIN doc.paras /\ i \in Nat
      BY <1>2, <1>3, <2>2, ParagraphsAreSequence
    <3> QED
      BY <2>2, <3>1 DEF DocType
  <2> QED
    BY <1>1, <2>1, <2>2
<1>6. ASSUME answer' # Nothing, answer'.status = "FOUND"
      PROVE  Named(answer'.id) = {answer'.place}
  <2>1. answer'.id = request.id /\ answer'.status = s /\ answer'.place = i
    BY <1>1, <1>6
  <2> QED
    BY <1>2, <1>6, <2>1 DEF found
<1> QED
  BY <1>4, <1>5, <1>6

LEMMA ShutdownStep ==
    ASSUME ReportType, DocType, Shutdown
    PROVE  ReportType' /\ DocType' /\ listener'.last = listener.last
<1>1. \A m \in Listeners :
        /\ [m EXCEPT !.on = FALSE, !.debounce = FALSE] \in Listeners
        /\ [m EXCEPT !.on = FALSE, !.debounce = FALSE].last = m.last
  BY DEF Listeners
<1>2. listener' = [CancelRetry(listener) EXCEPT !.on = FALSE, !.debounce = FALSE]
      /\ posting' = posting /\ doc' = doc
  BY DEF Shutdown, Stop
<1> QED
  BY <1>1, <1>2, ListenerOps DEF ReportType, DocType

AddinType == ReportType /\ DocType /\ events \in 0 .. MaxEvents

LEMMA AddinInit ==
    ASSUME Init
    PROVE  AddinType
<1>1. events \in 0 .. MaxEvents
  BY BoundsAssumption DEF Init
<1>2. listener \in Listeners
  <2>1. 0 \in 0 .. MaxRetries
    BY BoundsAssumption
  <2> QED
    BY <2>1 DEF Init, Listeners
<1>3. DocType
  <2>1. doc \in [paras: Q!BoundedSeq(Texts, MaxParas) \ {<< >>}, cursor: {1}]
    BY DEF Init
  <2>2. doc.paras \in Seq(Texts) /\ doc.paras # << >>
    BY <2>1, BoundedSequence, BoundsAssumption
  <2> QED
    BY <2>1, <2>2 DEF DocType
<1> QED
  BY <1>1, <1>2, <1>3 DEF Init, AddinType, ReportType

LEMMA AddinStep ==
    ASSUME AddinType, [Next]_vars
    PROVE  /\ AddinType'
           /\ listener'.last # listener.last => Online
           /\ (answer' # answer /\ answer' # Nothing /\ answer'.status = "FOUND")
                => Named(answer'.id) = {answer'.place}
<1>0. Event => events' \in 0 .. MaxEvents
  BY BoundsAssumption DEF Event, AddinType
<1>1. ASSUME UNCHANGED <<listener, posting, doc>>, events' = events \/ Event,
             answer' = answer \/ answer' = Nothing
      PROVE  AddinType' /\ listener'.last = listener.last
  BY <1>0, <1>1 DEF AddinType, ReportType, DocType
<1>2. CASE Connection \/ Loss \/ Server \/ UNCHANGED vars
  BY <1>1, <1>2 DEF Connection, Loss, Server, vars
<1>3. ASSUME NEW op, NEW id, Receive(op, id)
      PROVE  /\ UNCHANGED <<listener, posting, doc>> /\ Event /\ answer' = Nothing
  BY <1>3 DEF Receive
<1>4. CASE Listening
  BY <1>4, ListeningStep DEF Listening, AddinType, DocType
<1>5. CASE User
  BY <1>0, <1>5, UserStep DEF User, AddinType
<1>6. ASSUME NEW ok \in BOOLEAN, Serve(ok)
      PROVE  /\ AddinType' /\ listener'.last = listener.last
             /\ (answer' # Nothing /\ answer'.status = "FOUND")
                  => Named(answer'.id) = {answer'.place}
  BY <1>6, ServeStep DEF Serve, AddinType
<1>7. CASE Shutdown
  BY <1>7, ShutdownStep DEF Shutdown, AddinType
<1> QED
  BY <1>1, <1>2, <1>3, <1>4, <1>5, <1>6, <1>7 DEF Next

-----------------------------------------------------------------------------
(* The theorems *)

THEOREM AddinInductive == Spec => [](NetInv /\ AddinType)
<1>1. Init => NetInv /\ AddinType
  BY NetInit, AddinInit
<1>2. NetInv /\ AddinType /\ [Next]_vars => NetInv' /\ AddinType'
  BY NetStep, AddinStep
<1> QED
  BY <1>1, <1>2, PTL DEF Spec

\* In every order of socket events, answers, timers, losses and shutdown the client
\* is in a situation its methods are written for: not stranded without an attempt
\* under way, with no second attempt beside it, and beating while connected.
THEOREM ClientStaysSound == Spec => []ClientIsSound
<1>1. NetInv /\ AddinType => ClientIsSound
  BY TypeParts DEF NetInv, AddinType, ReportType, ClientIsSound
<1> QED
  BY <1>1, AddinInductive, PTL

\* A paragraph is recorded as reported by no step that did not send it on the
\* socket of a connected client, whichever timer or failure comes late.
THEOREM RecordedOnlyWhenSent == Spec => RecordedWhenSent
<1>1. AddinType /\ [Next]_vars => [listener'.last # listener.last => Online]_vars
  BY AddinStep
<1> QED
  BY <1>1, AddinInductive, PTL DEF Spec, RecordedWhenSent

\* A lookup names a paragraph only when no other of the document can be meant, for
\* any hash (texts may collide) and any document.
THEOREM FoundIsUnique == Spec => FoundIsTheOnlyOne
<1>1. AddinType /\ [Next]_vars
        => [answer' # answer /\ answer' # Nothing /\ answer'.status = "FOUND" =>
               Named(answer'.id) = {answer'.place}]_vars
  BY AddinStep
<1> QED
  BY <1>1, AddinInductive, PTL DEF Spec, FoundIsTheOnlyOne
=============================================================================
