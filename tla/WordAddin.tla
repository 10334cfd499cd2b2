------------------------------ MODULE WordAddin ------------------------------
(***************************************************************************)
(* The Word add-in of SmartLinter (plugins/word/src) without its           *)
(* replacement executor (WordReplacement) and generator (Translation): the *)
(* bridge client with its WebSocket, REST fallback, heartbeat and          *)
(* reconnect timer, the listener that reports the active paragraph, and    *)
(* the requests of the dashboard that read or show a paragraph.            *)
(*                                                                         *)
(* One script thread: a step is what runs between two awaits or events.    *)
(* The server is what a client can tell of it (Session models it); Word    *)
(* and its user are external.                                              *)
(***************************************************************************)
EXTENDS Integers, Sequences, FiniteSets

Q == INSTANCE SequencesExt

CONSTANTS
    Texts,        \* contents of a paragraph
    Hash,         \* what the paragraph hash tells of a text
    MaxParas,     \* bound: paragraphs of the document
    MaxAttempts,  \* maxReconnectAttempts
    MaxRetries,   \* how often a failed report is sent again
    MaxEvents     \* bound: changes of the server, the document and the selection, requests

ASSUME HashAssumption == Hash \in [Texts -> Texts]
ASSUME BoundsAssumption == {MaxParas, MaxAttempts, MaxRetries, MaxEvents} \subseteq Nat

None == "none"
Nothing == [op |-> None]

VARIABLES
    client,    \* status, socket, heartbeat and reconnect timers of WordBridgeClient
    connect,   \* where its connect() is: idle, at the token, the socket or the REST call
    server,    \* up: it runs; admits: it takes Word; session: by what Word holds it
    listener,  \* timers and deduplication of WordDocumentListener, and the text it
               \* captured last
    posting,   \* the reports on their way over REST, oldest first
    doc,       \* the paragraphs of the document and the one with the cursor
    request,   \* the request that is being served, or Nothing
    answer,    \* the last answer to a request
    events     \* how much of MaxEvents has been used

net == <<client, connect, server>>
vars == <<client, connect, server, listener, posting, doc, request, answer, events>>

Init ==
    /\ client = [status |-> "DISCONNECTED", socket |-> "none", timer |-> FALSE,
                 attempts |-> 0, beat |-> FALSE, disposed |-> FALSE]
    /\ connect = "token"
    /\ server \in [up: BOOLEAN, admits: BOOLEAN, session: {"none"}]
    /\ listener = [on |-> FALSE, debounce |-> FALSE, held |-> FALSE, leaked |-> 0,
                   attempt |-> 0, pending |-> None, last |-> None]
    /\ posting = << >>
    /\ doc \in [paras: Q!BoundedSeq(Texts, MaxParas) \ {<< >>}, cursor: {1}]
    /\ request = Nothing
    /\ answer = Nothing
    /\ events = 0

Event == events < MaxEvents /\ events' = events + 1

----------------------------------------------------------------------------
(* The connection                                                          *)

\* At most one timer, none once disposed or when the attempts are used up.
ScheduleReconnect(c) ==
    IF c.disposed \/ c.timer \/ c.attempts >= MaxAttempts THEN c
    ELSE [c EXCEPT !.timer = TRUE, !.attempts = @ + 1]

\* A handshake that succeeded, over either transport.
Admitted(c) == [c EXCEPT !.status = "CONNECTED", !.attempts = 0, !.beat = TRUE]

\* A socket that comes to nothing is detached and the REST fallback starts, unless the
\* client was disposed meanwhile.
Fallback_Zombie(c) ==                                                 \* mutant
    IF c.disposed THEN client' = c /\ connect' = "idle"
    ELSE /\ client' = ScheduleReconnect([c EXCEPT !.socket = "none", !.status = "AUTHENTICATING"])
         /\ connect' = "rest"
Fallback(c) ==
    IF c.disposed THEN client' = c /\ connect' = "idle"
    ELSE /\ client' = [c EXCEPT !.socket = "none", !.timer = FALSE, !.status = "AUTHENTICATING"]
         /\ connect' = "rest"

\* The pairing token is there; nothing asks whether the client was disposed meanwhile.
OpenSocket ==
    /\ connect = "token"
    /\ client' = [client EXCEPT !.timer = FALSE, !.status = "CONNECTING", !.socket = "connecting"]
    /\ connect' = "socket"
    /\ UNCHANGED server

OnOpen ==
    /\ client.socket = "connecting" /\ server.up
    /\ client' = [client EXCEPT !.status = "AUTHENTICATING", !.socket = "open"]
    /\ UNCHANGED <<connect, server>>

OnAuthResponse ==
    /\ client.socket = "open" /\ server.up
    /\ IF server.admits /\ server.session = "none"
       THEN /\ client' = [Admitted(client) EXCEPT !.socket = "admitted"]
            /\ connect' = "idle"
            /\ server' = [server EXCEPT !.session = "socket"]
       ELSE Fallback([client EXCEPT !.socket = "closed", !.status = "ERROR"]) /\ UNCHANGED server

\* The socket fails or closes before it was admitted: the server is down, the client
\* closed it, or the network lost it.
OnError(lost) ==
    /\ connect = "socket"
    /\ ~server.up \/ client.socket = "closed" \/ lost
    /\ Fallback([client EXCEPT !.socket = "closed"])
    /\ UNCHANGED server

\* The socket of a session closes: the server went down, dropped or refused it.
OnClose ==
    /\ client.socket = "admitted" /\ server.session # "socket"
    /\ LET c == [client EXCEPT !.socket = "closed", !.beat = FALSE]
       IN  client' = IF c.status = "DISCONNECTED" \/ c.disposed THEN c
                     ELSE ScheduleReconnect([c EXCEPT !.status = "DISCONNECTED"])
    /\ UNCHANGED <<connect, server>>

\* The answer of POST /auth/handshake; `lost` when it does not arrive.
RestHandshake(lost) ==
    /\ connect = "rest"
    /\ connect' = "idle"
    /\ server' = IF server.up /\ server.admits THEN [server EXCEPT !.session = "rest"] ELSE server
    /\ client' =
          IF ~server.up \/ lost THEN ScheduleReconnect([client EXCEPT !.status = "DISCONNECTED"])
          ELSE IF server.admits THEN [Admitted(client) EXCEPT !.timer = FALSE]
          ELSE [client EXCEPT !.status = "ERROR"]

ReconnectTimer ==
    /\ client.timer
    /\ client' = [client EXCEPT !.timer = FALSE]
    /\ connect' = IF client.disposed THEN connect ELSE "token"
    /\ UNCHANGED server

\* Disposes the client; a socket it has is closed, an await under way goes on.
Disconnect ==
    client' = [client EXCEPT !.status = "DISCONNECTED", !.timer = FALSE, !.beat = FALSE,
                             !.disposed = TRUE,
                             !.socket = IF @ = "none" THEN @ ELSE "closed"]

Connection ==
    /\ \/ OpenSocket \/ OnOpen \/ OnAuthResponse \/ OnClose \/ ReconnectTimer
       \/ OnError(FALSE) \/ RestHandshake(FALSE)
    /\ UNCHANGED <<listener, posting, doc, request, answer, events>>

\* The network loses the socket or the answer of the handshake.
Loss ==
    /\ Event
    /\ OnError(TRUE) \/ RestHandshake(TRUE)
    /\ UNCHANGED <<listener, posting, doc, request, answer>>

----------------------------------------------------------------------------
(* The listener                                                            *)

Online == client.socket = "admitted" /\ client.status = "CONNECTED"

\* Only the newest retry timer can be cleared: one it replaced keeps running.
ScheduleRetry_Endless(l, t) ==                                        \* mutant
    IF ~l.on THEN [l EXCEPT !.pending = t]
    ELSE [l EXCEPT !.pending = t, !.held = TRUE]
ScheduleRetry(l, t) ==
    IF l.attempt >= MaxRetries \/ ~l.on THEN [l EXCEPT !.pending = t]
    ELSE [l EXCEPT !.pending = t, !.attempt = @ + 1, !.held = TRUE,
                   !.leaked = IF l.held THEN @ + 1 ELSE @]

CancelRetry(l) == [l EXCEPT !.held = FALSE, !.attempt = 0, !.pending = None]

\* Over the socket the report is sent at once, otherwise over REST; the socket
\* reports carry no session the REST route would want, so it refuses all of them.
Dispatch_RecordsFirst(l, t) ==                                        \* mutant
    IF Online
    THEN /\ listener' = [l EXCEPT !.last = t, !.attempt = 0, !.pending = None]
         /\ UNCHANGED posting
    ELSE listener' = [l EXCEPT !.last = t] /\ posting' = Append(posting, t)
Dispatch(l, t) ==
    IF Online
    THEN /\ listener' = [l EXCEPT !.last = t, !.attempt = 0, !.pending = None]
         /\ UNCHANGED posting
    ELSE listener' = l /\ posting' = Append(posting, t)

\* The active paragraph is reported unless it is the one reported last.
Capture(l) ==
    LET t == doc.paras[doc.cursor]
    IN  IF l.last # None /\ Hash[l.last] = Hash[t] THEN listener' = l /\ UNCHANGED posting
        ELSE Dispatch(l, t)

\* Office has registered the handler of selection changes.
Start == ~listener.on /\ ~client.disposed /\ Capture([listener EXCEPT !.on = TRUE])

\* The selection changed: a capture is due after the idle time.
TriggerDebouncedCapture(l) ==
    IF l.on THEN [CancelRetry(l) EXCEPT !.debounce = TRUE] ELSE l

DebounceFires == listener.debounce /\ Capture([listener EXCEPT !.debounce = FALSE])

\* The handle is forgotten whichever timer fires.
RetryFires(held) ==
    /\ IF held THEN listener.held ELSE listener.leaked > 0
    /\ LET l == [listener EXCEPT !.held = FALSE,
                                 !.leaked = IF held THEN @ ELSE IF listener.held THEN @ ELSE @ - 1]
       IN  IF l.pending = None \/ ~l.on THEN listener' = l /\ UNCHANGED posting
           ELSE Dispatch(l, l.pending)

\* A REST report names no session and the route wants one, so it comes back refused or
\* not at all.
PostFails(i) ==
    /\ i \in DOMAIN posting
    /\ listener' = ScheduleRetry(listener, posting[i])
    /\ posting' = Q!RemoveAt(posting, i)

Stop == [CancelRetry(listener) EXCEPT !.on = FALSE, !.debounce = FALSE]

Listening ==
    /\ \/ Start
       \/ DebounceFires
       \/ \E held \in BOOLEAN : RetryFires(held)
       \/ \E i \in DOMAIN posting : PostFails(i)
    /\ UNCHANGED <<net, doc, request, answer, events>>

----------------------------------------------------------------------------
(* Requests of the dashboard                                               *)

\* A paragraph is named by its content, or by its content and place.
Named(id) == {i \in DOMAIN doc.paras : /\ Hash[doc.paras[i]] = id.hash
                                       /\ id.place \in {0, i}}

\* Requests come over the socket; each is served by its handler while others run.
Receive(op, id) ==
    /\ Event
    /\ server.session = "socket" /\ Online /\ request = Nothing
    /\ request' = [op |-> op, id |-> id]
    /\ answer' = Nothing
    /\ UNCHANGED <<net, listener, posting, doc>>

Status_First(n) == IF n = 0 THEN "NOT_FOUND" ELSE "FOUND"             \* mutant
Status(n) == IF n = 0 THEN "NOT_FOUND" ELSE IF n = 1 THEN "FOUND" ELSE "AMBIGUOUS"

\* Word.run may fail; the answer goes out on the socket there is by then, if any.
Serve(ok) ==
    /\ request # Nothing
    /\ LET found == Named(request.id)
           s == IF ok THEN Status(Cardinality(found)) ELSE "ERROR"
           i == IF s = "FOUND" THEN CHOOSE i \in found : TRUE ELSE 0
       IN  /\ doc' = IF request.op = "locate" /\ i # 0 THEN [doc EXCEPT !.cursor = i] ELSE doc
           /\ listener' = IF doc' # doc THEN TriggerDebouncedCapture(listener) ELSE listener
           /\ answer' = IF Online THEN [op |-> request.op, id |-> request.id, status |-> s, place |-> i]
                        ELSE Nothing
    /\ request' = Nothing
    /\ UNCHANGED <<net, posting, events>>

----------------------------------------------------------------------------
(* The user, the server and the end                                        *)

Changed(d) == doc' = d /\ listener' = TriggerDebouncedCapture(listener)

User ==
    /\ Event
    /\ \/ \E i \in DOMAIN doc.paras, t \in Texts :
             Changed([doc EXCEPT !.paras[i] = t, !.cursor = i])
       \/ \E t \in Texts :
             Len(doc.paras) < MaxParas /\ Changed([paras |-> <<t>> \o doc.paras, cursor |-> 1])
    /\ UNCHANGED <<net, posting, request, answer>>

\* It stops, starts, forgets the session, or takes the other editor instead.
Server ==
    /\ Event
    /\ \/ server' = [server EXCEPT !.up = ~@, !.session = "none"]
       \/ server' = [server EXCEPT !.admits = ~@, !.session = "none"]
       \/ server.session # "none" /\ server' = [server EXCEPT !.session = "none"]
    /\ UNCHANGED <<client, connect, listener, posting, doc, request, answer>>

\* The runtime shuts down: the listener first, then the client with its handlers.
Shutdown ==
    /\ ~client.disposed
    /\ listener' = Stop
    /\ Disconnect
    /\ request' = Nothing
    /\ server' = IF server.session = "socket" THEN [server EXCEPT !.session = "none"] ELSE server
    /\ UNCHANGED <<connect, posting, doc, answer, events>>

Next ==
    \/ Connection
    \/ Loss
    \/ Listening
    \/ \E op \in {"snapshot", "locate"}, id \in [hash: {Hash[t] : t \in Texts}, place: 0 .. MaxParas] :
          Receive(op, id)
    \/ \E ok \in BOOLEAN : Serve(ok)
    \/ User
    \/ Server
    \/ Shutdown

Spec == Init /\ [][Next]_vars

\* Timers fire and every network call ends, one way or the other.
Fairness == WF_net(Connection) /\ WF_<<listener, posting>>(Listening)
FairSpec == Spec /\ Fairness

----------------------------------------------------------------------------
(* Properties                                                              *)

TypeOK ==
    /\ client \in [status: {"DISCONNECTED", "CONNECTING", "AUTHENTICATING", "CONNECTED", "ERROR"},
                   socket: {"none", "connecting", "open", "admitted", "closed"},
                   timer: BOOLEAN, attempts: 0 .. MaxAttempts, beat: BOOLEAN, disposed: BOOLEAN]
    /\ connect \in {"idle", "token", "socket", "rest"}
    /\ server \in [up: BOOLEAN, admits: BOOLEAN, session: {"none", "socket", "rest"}]
    /\ listener \in [on: BOOLEAN, debounce: BOOLEAN, held: BOOLEAN, leaked: Nat,
                     attempt: 0 .. MaxRetries, pending: Texts \cup {None},
                     last: Texts \cup {None}]
    /\ posting \in Seq(Texts)
    /\ doc \in [paras: Q!BoundedSeq(Texts, MaxParas) \ {<< >>}, cursor: Nat]
    /\ doc.cursor \in DOMAIN doc.paras
    /\ events \in 0 .. MaxEvents

\* A client that is not connected has something under way that will end in another
\* attempt: a connect() or the timer, whatever order sockets, answers and timers come
\* in. Only a refusal and the last of its attempts end the trying (bridge_client.ts
\* connect, onclose, scheduleReconnect).
NeverStranded ==
    ~client.disposed /\ client.status # "CONNECTED" =>
        \/ connect # "idle" \/ client.timer
        \/ client.status = "ERROR"
        \/ client.attempts = MaxAttempts

\* One attempt at a time: while the reconnect timer runs there is no connect() under
\* way, no session and no socket left that could still open (word_plugin.test.ts
\* "does not leave a zombie WebSocket reconnect timer").
OneAttempt ==
    /\ client.timer => connect = "idle" /\ client.status = "DISCONNECTED"
    /\ connect # "socket" => client.socket \notin {"connecting", "open"}

\* Heartbeats are sent exactly while the client is connected (startHeartbeat,
\* clearHeartbeat).  A client that was disposed during connect() can stay CONNECTED
\* without any.
BeatsWhileConnected ==
    /\ client.beat => client.status = "CONNECTED"
    /\ client.status = "CONNECTED" => client.beat \/ client.disposed

\* The client is always in one of the situations its methods are written for.
ClientIsSound == TypeOK /\ NeverStranded /\ OneAttempt /\ BeatsWhileConnected

\* Once server and user rest, a client that was not disposed, refused or out of
\* attempts is connected if the server takes it, and does not stay with the socket of a
\* session the server has given up.
Reconnects ==
    <>[](/\ \/ client.disposed \/ ~server.up \/ ~server.admits
            \/ client.status \in {"CONNECTED", "ERROR"} \/ client.attempts = MaxAttempts
         /\ client.socket = "admitted" => server.session = "socket")

\* A paragraph counts as reported only when its report went out on the socket of a
\* connected client: what failed over REST can be captured and sent again
\* (document_listener.ts dispatchPayload).
RecordedWhenSent == [][listener'.last # listener.last => Online]_vars

\* Failed reports are not sent again for ever, although timers that were replaced keep
\* firing and every failure may start another (scheduleRetry).
RetriesEnd == <>[](posting = << >> /\ ~listener.held /\ listener.leaked = 0)

\* Left alone, the add-in comes to rest with a session and nothing to retry.
ComesToRest == Reconnects /\ RetriesEnd

\* A lookup shows and returns a paragraph only when it is the only one the request can
\* mean, however the document has changed since the id was made (snapshot_provider.ts,
\* locate_provider.ts).
FoundIsTheOnlyOne ==
    [][answer' # answer /\ answer' # Nothing /\ answer'.status = "FOUND" =>
          Named(answer'.id) = {answer'.place}]_vars
=============================================================================
