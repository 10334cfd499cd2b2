------------------------------- MODULE Session ------------------------------
(***************************************************************************)
(* The bridge server's session manager                                     *)
(* (src-tauri/src/server/session.rs) with the handlers that drive it: the  *)
(* WebSocket loop (ws_handler.rs), the REST handshake (router.rs), the     *)
(* heartbeat watchdog (server/mod.rs), and the dashboard commands that     *)
(* wait for the Word add-in (commands.rs).                                 *)
(*                                                                         *)
(* At most one editor holds the session.  lifecycle_gate serialises        *)
(* admissions with target switches; the write lock of active_session       *)
(* covers a release from the take to the status event.  A connection       *)
(* acquires at most one session, so connections stand for session ids.     *)
(* The four kinds of pending calls live in maps of the same shape; a       *)
(* request is a call of one kind.                                          *)
(***************************************************************************)
EXTENDS Integers, FiniteSets

CONSTANTS
    Sockets,        \* authenticated WebSocket connections
    RestCalls,      \* verified POST /auth/handshake calls
    Editors,        \* editor types
    EditorOf,       \* the editor type of each connection
    Word,           \* the editor type served over the bridge
    Requests,       \* calls of the dashboard that wait for the editor
    Kind,           \* per request: "rpc", "generation" or "command"
    Nobody,         \* not a connection
    Policies,       \* admitted sets a switch may choose ({}: blocked)
    MaxSwitches,    \* bound: target switches and forced disconnects
    MaxProgress,    \* progress reports before a generation's hard limit
    StrayAnswers    \* an editor may answer on a socket it was not asked on

Connections == Sockets \cup RestCalls

ASSUME SessionAssumption ==
    /\ Sockets \cap RestCalls = {} /\ Nobody \notin Connections
    /\ EditorOf \in [Connections -> Editors] /\ Word \in Editors
    /\ Kind \in [Requests -> {"rpc", "generation", "command"}]
    /\ Policies \subseteq SUBSET Editors
    /\ MaxSwitches \in Nat /\ MaxProgress \in Nat /\ StrayAnswers \in BOOLEAN

VARIABLES
    active,      \* active_session
    admitted,    \* admission_policy as the set of editor types it admits
    ending,      \* the session being ended, and what its ending holds
    pc,          \* where each connection's handler is
    victim,      \* the session a REST handshake found in its way
    sending,     \* sockets whose send task runs (their command channel is open)
    crashed,     \* connections whose editor died without closing
    quiet,       \* the active session's last heartbeat is 45 s old
    shown,       \* the session of the last status event, Nobody if none
    switches     \* switches so far

VARIABLES
    status,      \* where each request's caller is
    asked,       \* the socket a request was sent to
    pending,     \* the maps of pending calls: the originating session
    mailbox,     \* the oneshot (or broadcast) channel of each request
    holding,     \* per socket, a pending call complete_* took out of its map
    answeredBy,  \* history: the socket whose answer was delivered
    progressed,  \* last_activity moved since the waiter last looked
    reports,     \* progress reports accepted so far
    cancelling   \* generations whose cancellation was requested

lockVars == <<active, admitted, ending, pc, victim, sending, crashed, quiet,
              shown, switches>>
callVars == <<status, asked, pending, mailbox, holding, answeredBy, progressed,
              reports, cancelling>>
vars == <<lockVars, callVars>>

Ending == [session : Connections, cleared : BOOLEAN, holds : {"lock", "gate"}]
NoEnding == [session |-> Nobody, cleared |-> TRUE, holds |-> "nothing"]
NoCall == [request |-> Nobody, from |-> Nobody]

TypeOK ==
    /\ active \in Connections \cup {Nobody}
    /\ admitted \in SUBSET Editors
    /\ ending \in Ending \cup {NoEnding}
    /\ pc \in [Connections -> {"idle", "admitting", "evicting", "retrying", "open",
                               "leaving", "gone", "rejected"}]
    /\ victim \in [RestCalls -> Connections \cup {Nobody}]
    /\ sending \in SUBSET Sockets
    /\ crashed \in SUBSET Connections
    /\ quiet \in BOOLEAN
    /\ shown \in Connections \cup {Nobody}
    /\ switches \in 0 .. MaxSwitches
    /\ status \in [Requests -> {"idle", "routed", "waiting", "expired", "answered",
                                "cancelled", "timeout", "failed", "com"}]
    /\ asked \in [Requests -> Sockets \cup {Nobody}]
    /\ pending \in [Requests -> Sockets \cup {Nobody}]
    /\ mailbox \in [Requests -> {"empty", "response", "closed"}]
    /\ holding \in [Sockets -> [request : Requests, from : Sockets] \cup {NoCall}]
    /\ answeredBy \in [Requests -> Sockets \cup {Nobody}]
    /\ progressed \in SUBSET Requests
    /\ reports \in [Requests -> 0 .. MaxProgress]
    /\ cancelling \in SUBSET Requests

Init ==
    /\ active = Nobody
    /\ admitted = Editors
    /\ ending = NoEnding
    /\ pc = [c \in Connections |-> "idle"]
    /\ victim = [c \in RestCalls |-> Nobody]
    /\ sending = {}
    /\ crashed = {}
    /\ quiet = FALSE
    /\ shown = Nobody
    /\ switches = 0
    /\ status = [r \in Requests |-> "idle"]
    /\ asked = [r \in Requests |-> Nobody]
    /\ pending = [r \in Requests |-> Nobody]
    /\ mailbox = [r \in Requests |-> "empty"]
    /\ holding = [s \in Sockets |-> NoCall]
    /\ answeredBy = [r \in Requests |-> Nobody]
    /\ progressed = {}
    /\ reports = [r \in Requests |-> 0]
    /\ cancelling = {}

-----------------------------------------------------------------------------
(* The two locks *)

\* lifecycle_gate: an admission in progress holds it, and so does a switch
\* until its status event is out.
GateFree ==
    /\ \A c \in Connections : pc[c] # "admitting"
    /\ ending.holds # "gate"

\* The write lock of active_session: a release holds it to the end, a switch
\* only while it takes the session out.
LockFree_AndGate ==                                                 \* mutant
    ending.holds # "lock" /\ \A c \in Connections : pc[c] # "admitting"
LockFree == ending.holds # "lock"

At(c, place) == pc' = [pc EXCEPT ![c] = place]

\* The session leaves active_session; what remains is to clear its calls and
\* to report.
EndSession(how) ==
    /\ active' = Nobody
    /\ ending' = [session |-> active, cleared |-> FALSE, holds |-> how]
    /\ quiet' = FALSE

-----------------------------------------------------------------------------
(* Admission *)

\* acquire_session_with_close: the gate, then the policy.
Knock(c) ==
    /\ pc[c] = "idle" \/ (pc[c] = "retrying" /\ LockFree)
    /\ GateFree
    /\ At(c, IF EditorOf[c] \in admitted THEN "admitting" ELSE "rejected")
    /\ UNCHANGED <<active, admitted, ending, victim, sending, crashed, quiet,
                   shown, switches, callVars>>

\* Then the write lock.  A REST handshake that meets a session of its own editor
\* type will release it and try once more; everybody else is refused.
Enter(c) ==
    /\ pc[c] = "admitting"
    /\ LockFree
    /\ \/ /\ active = Nobody
          /\ active' = c
          /\ shown' = c
          /\ At(c, "open")
          /\ sending' = sending \cup ({c} \cap Sockets)
          /\ UNCHANGED victim
       \/ /\ active # Nobody
          /\ IF c \in RestCalls /\ victim[c] = Nobody /\ EditorOf[active] = EditorOf[c]
             THEN At(c, "evicting") /\ victim' = [victim EXCEPT ![c] = active]
             ELSE At(c, "rejected") /\ UNCHANGED victim
          /\ UNCHANGED <<active, shown, sending>>
    /\ UNCHANGED <<admitted, ending, crashed, quiet, switches, callVars>>

\* release_session ends the session only if it is still the one meant.
Meant_Any(session) == active # Nobody                               \* mutant
Meant(session) == active = session

Evict(c) ==
    /\ pc[c] = "evicting"
    /\ LockFree
    /\ IF Meant(victim[c])
       THEN EndSession("lock")
       ELSE UNCHANGED <<active, ending, quiet>>
    /\ At(c, "retrying")
    /\ UNCHANGED <<admitted, victim, sending, crashed, shown, switches, callVars>>

\* set_admission_and_disconnect: policy and take under the gate.
SwitchHolds_Nothing == "nothing"                                    \* mutant
SwitchHolds == "gate"

SwitchTarget(policy) ==
    /\ switches < MaxSwitches
    /\ GateFree /\ LockFree
    /\ admitted' = policy
    /\ switches' = switches + 1
    /\ IF active # Nobody
       THEN EndSession(SwitchHolds)
       ELSE UNCHANGED <<active, ending, quiet>>
    /\ UNCHANGED <<pc, victim, sending, crashed, shown, callVars>>

-----------------------------------------------------------------------------
(* The life of a connection *)

\* The receive loop ends: close frame, read error, or the ack could not be sent.
SocketLeaves(s) ==
    /\ pc[s] = "open"
    /\ holding[s] = NoCall
    /\ At(s, "leaving")
    /\ sending' = sending \ {s}
    /\ UNCHANGED <<active, admitted, ending, victim, crashed, quiet, shown,
                   switches, callVars>>

Release(s) ==
    /\ pc[s] = "leaving"
    /\ LockFree
    /\ IF Meant(s)
       THEN EndSession("lock")
       ELSE UNCHANGED <<active, ending, quiet>>
    /\ At(s, "gone")
    /\ UNCHANGED <<admitted, victim, sending, crashed, shown, switches, callVars>>

\* The send task stops: a write failed, or close_sender was used or dropped.
SendTaskEnds(s) ==
    /\ s \in sending
    /\ sending' = sending \ {s}
    /\ UNCHANGED <<active, admitted, ending, pc, victim, crashed, quiet, shown,
                   switches, callVars>>

\* The editor dies and its connection stays half open.
Crash(c) ==
    /\ pc[c] = "open" /\ c \notin crashed
    /\ crashed' = crashed \cup {c}
    /\ UNCHANGED <<active, admitted, ending, pc, victim, sending, quiet, shown,
                   switches, callVars>>

\* record_heartbeat: only the active session's heartbeat counts.
Heartbeat(c) ==
    /\ pc[c] = "open" /\ c \notin crashed
    /\ LockFree
    /\ active = c /\ quiet
    /\ quiet' = FALSE
    /\ UNCHANGED <<active, admitted, ending, pc, victim, sending, crashed, shown,
                   switches, callVars>>

TimePasses ==
    /\ active # Nobody /\ ~quiet
    /\ quiet' = TRUE
    /\ UNCHANGED <<active, admitted, ending, pc, victim, sending, crashed, shown,
                   switches, callVars>>

\* check_heartbeat_timeout, on every tick of the watchdog.
TimedOut_Closed == quiet /\ pc[active] # "open"                      \* mutant
TimedOut == quiet
Watchdog ==
    /\ LockFree
    /\ active # Nobody /\ TimedOut
    /\ EndSession("lock")
    /\ UNCHANGED <<admitted, pc, victim, sending, crashed, shown, switches, callVars>>

\* clear_pending_snapshots_for_session: dropping an entry closes its channel.
Cleared_Snapshots(r) == pending[r] = ending.session /\ Kind[r] # "generation" \* mutant
Cleared(r) == pending[r] = ending.session

ClearCalls ==
    /\ ending # NoEnding /\ ~ending.cleared
    /\ pending' = [r \in Requests |-> IF Cleared(r) THEN Nobody ELSE pending[r]]
    /\ mailbox' = [r \in Requests |->
                     IF Cleared(r) /\ mailbox[r] = "empty" THEN "closed" ELSE mailbox[r]]
    /\ ending' = [ending EXCEPT !.cleared = TRUE]
    /\ UNCHANGED <<active, admitted, pc, victim, sending, crashed, quiet, shown,
                   switches, status, asked, holding, answeredBy, progressed,
                   reports, cancelling>>

\* emit_status_changed, Disconnected or HeartbeatTimeout; then the lock or the
\* gate is dropped.
ReportEnd ==
    /\ ending # NoEnding /\ ending.cleared
    /\ shown' = Nobody
    /\ ending' = NoEnding
    /\ UNCHANGED <<active, admitted, pc, victim, sending, crashed, quiet,
                   switches, callVars>>

Lifecycle ==
    \/ \E c \in Connections : Knock(c) \/ Enter(c) \/ Crash(c) \/ Heartbeat(c)
    \/ \E c \in RestCalls : Evict(c)
    \/ \E s \in Sockets : SocketLeaves(s) \/ Release(s) \/ SendTaskEnds(s)
    \/ \E policy \in Policies : SwitchTarget(policy)
    \/ TimePasses \/ Watchdog \/ ClearCalls \/ ReportEnd

-----------------------------------------------------------------------------
(* Calls to the editor *)

Becomes(r, what) == status' = [status EXCEPT ![r] = what]

\* The dashboard command looks at the session to choose between the bridge and
\* InDesign's COM interface, which is outside this module.
Route(r) ==
    /\ status[r] = "idle"
    /\ LockFree
    /\ Becomes(r, IF active = Nobody THEN "failed"
                  ELSE IF EditorOf[active] = Word THEN "routed" ELSE "com")
    /\ UNCHANGED <<lockVars, asked, pending, mailbox, holding, answeredBy,
                   progressed, reports, cancelling>>

\* request_* and send_command look again, under the read lock: the session must
\* have a command channel, and a generation insists on Word.
Reachable(r) ==
    /\ active \in sending
    /\ Kind[r] = "generation" => EditorOf[active] = Word

Ask(r) ==
    /\ status[r] = "routed"
    /\ LockFree
    /\ IF Reachable(r)
       THEN /\ asked' = [asked EXCEPT ![r] = active]
            /\ pending' = [pending EXCEPT ![r] = IF Kind[r] = "command" THEN Nobody ELSE active]
            /\ Becomes(r, "waiting")
       ELSE /\ Becomes(r, "failed")
            /\ UNCHANGED <<asked, pending>>
    /\ UNCHANGED <<lockVars, mailbox, holding, answeredBy, progressed, reports,
                   cancelling>>

Hears(s) == pc[s] = "open" /\ s \notin crashed /\ holding[s] = NoCall

\* complete_*: the entry leaves the map first ...
TakeCall(s, r) ==
    /\ Hears(s)
    /\ asked[r] = s \/ (StrayAnswers /\ asked[r] # Nobody)
    /\ pending[r] # Nobody
    /\ holding' = [holding EXCEPT ![s] = [request |-> r, from |-> pending[r]]]
    /\ pending' = [pending EXCEPT ![r] = Nobody]
    /\ UNCHANGED <<lockVars, status, asked, mailbox, answeredBy, progressed,
                   reports, cancelling>>

\* ... and is used, if its receiver is still there, or put back when the answer
\* came from another session.
Originating_Any(s) == TRUE                                          \* mutant
Originating(s) == holding[s].from = s

Deliver(s) ==
    LET r == holding[s].request IN
    /\ holding[s] # NoCall
    /\ IF Originating(s)
       THEN /\ IF status[r] = "waiting"
               THEN /\ mailbox' = [mailbox EXCEPT ![r] = "response"]
                    /\ answeredBy' = [answeredBy EXCEPT ![r] = s]
               ELSE UNCHANGED <<mailbox, answeredBy>>
            /\ UNCHANGED pending
       ELSE /\ pending' = [pending EXCEPT ![r] = holding[s].from]
            /\ UNCHANGED <<mailbox, answeredBy>>
    /\ holding' = [holding EXCEPT ![s] = NoCall]
    /\ UNCHANGED <<lockVars, status, asked, progressed, reports, cancelling>>

\* emit_replacement_result broadcasts to every waiter; the one with the command's
\* id takes it.
PublishResult(s, r) ==
    /\ Hears(s)
    /\ Kind[r] = "command" /\ asked[r] # Nobody /\ (asked[r] = s \/ StrayAnswers)
    /\ status[r] = "waiting" /\ mailbox[r] = "empty"
    /\ mailbox' = [mailbox EXCEPT ![r] = "response"]
    /\ answeredBy' = [answeredBy EXCEPT ![r] = s]
    /\ UNCHANGED <<lockVars, status, asked, pending, holding, progressed, reports,
                   cancelling>>

Receive(r) ==
    /\ status[r] = "waiting"
    /\ mailbox[r] # "empty"
    /\ Becomes(r, IF mailbox[r] = "response" THEN "answered" ELSE "cancelled")
    /\ UNCHANGED <<lockVars, asked, pending, mailbox, holding, answeredBy,
                   progressed, reports, cancelling>>

\* tokio's timeout polls the channel before the clock.
Unanswered(r) == mailbox[r] = "empty"

Deadline(r) ==
    /\ status[r] = "waiting" /\ Kind[r] # "generation"
    /\ Unanswered(r)
    /\ Becomes(r, "expired")
    /\ UNCHANGED <<lockVars, asked, pending, mailbox, holding, answeredBy,
                   progressed, reports, cancelling>>

\* No progress for the idle limit, or the hard limit is reached.
OutOfTime_SessionGone(r) == pending[r] # active                     \* mutant
OutOfTime(r) == r \notin progressed \/ reports[r] = MaxProgress

\* The sleep of the generation loop elapses (select! may prefer it to a ready
\* answer) and the loop looks its entry up again.
Wake(r) ==
    /\ status[r] = "waiting" /\ Kind[r] = "generation"
    /\ IF pending[r] = Nobody
       THEN Becomes(r, "cancelled") /\ UNCHANGED <<progressed, cancelling>>
       ELSE \/ /\ r \in progressed
               /\ progressed' = progressed \ {r}
               /\ UNCHANGED <<status, cancelling>>
            \/ /\ OutOfTime(r)
               /\ Becomes(r, "expired")
               /\ cancelling' = cancelling \cup {r}
               /\ UNCHANGED progressed
    /\ UNCHANGED <<lockVars, asked, pending, mailbox, holding, answeredBy, reports>>

\* After a deadline the waiter removes its own entry.
Expire(r) == pending' = [pending EXCEPT ![r] = Nobody]

GiveUp(r) ==
    /\ status[r] = "expired"
    /\ Expire(r)
    /\ Becomes(r, "timeout")
    /\ UNCHANGED <<lockVars, asked, mailbox, holding, answeredBy, progressed,
                   reports, cancelling>>

\* record_document_generation_progress.
Progress(s, r) ==
    /\ Hears(s)
    /\ Kind[r] = "generation" /\ pending[r] = s
    /\ r \notin cancelling
    /\ reports[r] < MaxProgress
    /\ progressed' = progressed \cup {r}
    /\ reports' = [reports EXCEPT ![r] = @ + 1]
    /\ UNCHANGED <<lockVars, status, asked, pending, mailbox, holding, answeredBy,
                   cancelling>>

\* cancel_generate_translated_document on the user's request.
CancelGeneration(r) ==
    /\ Kind[r] = "generation" /\ pending[r] # Nobody
    /\ r \notin cancelling
    /\ cancelling' = cancelling \cup {r}
    /\ UNCHANGED <<lockVars, status, asked, pending, mailbox, holding, answeredBy,
                   progressed, reports>>

Waits(r) == Receive(r) \/ Deadline(r) \/ Wake(r) \/ GiveUp(r)

Calls ==
    \/ \E r \in Requests : Route(r) \/ Ask(r) \/ Waits(r) \/ CancelGeneration(r)
    \/ \E s \in Sockets : Deliver(s)
    \/ \E s \in Sockets, r \in Requests :
           TakeCall(s, r) \/ PublishResult(s, r) \/ Progress(s, r)

Next == Lifecycle \/ Calls

Spec == Init /\ [][Next]_vars

\* tokio runs every ready task, its timers fire, and the watchdog ticks; nothing
\* is assumed of the editors.
Fairness ==
    /\ \A c \in Connections : WF_vars(Knock(c)) /\ WF_vars(Enter(c))
    /\ \A c \in RestCalls : WF_vars(Evict(c))
    /\ \A s \in Sockets : WF_vars(Release(s)) /\ WF_vars(Deliver(s))
    /\ WF_vars(TimePasses) /\ WF_vars(Watchdog)
    /\ WF_vars(ClearCalls) /\ WF_vars(ReportEnd)
    /\ \A r \in Requests : WF_vars(Ask(r)) /\ WF_vars(Waits(r))

FairSpec == Spec /\ Fairness

-----------------------------------------------------------------------------
(* Properties *)

\* A reconnect cannot race a switch: whoever holds the session is of an editor
\* type the current policy admits.
AdmittedOnly == active # Nobody => EditorOf[active] \in admitted

\* The dashboard is told the truth: when no ending is under way the last status
\* event is about the session there is, or reports that there is none.
StatusIsTrue == ending = NoEnding => shown = active

\* What is said of the session is so: the types, the policy and the status.
LockIsTrue == TypeOK /\ AdmittedOnly /\ StatusIsTrue

\* A pending call belongs to the session that can still answer it, or to the one
\* whose ending is about to drop it: no caller waits for a session that is gone.
PendingBelongsToSession ==
    \A r \in Requests : pending[r] # Nobody =>
        pending[r] = active \/ (pending[r] = ending.session /\ ~ending.cleared)

\* A call that is over leaves no entry behind.
NoLeakedCall ==
    \A r \in Requests :
        status[r] \in {"answered", "cancelled", "timeout"} => pending[r] = Nobody

\* The table of calls has the calls that can still be answered and no other.
CallTableIsTrue == PendingBelongsToSession /\ NoLeakedCall

\* An answer delivered in time is returned to the caller, not an error.
DeliveredIsReturned ==
    \A r \in Requests :
        mailbox[r] = "response" => status[r] \notin {"cancelled", "expired", "timeout"}

\* A correlated call is completed only by the session it was sent to.
AnswersComeFromTheAsked ==
    \A r \in Requests :
        (Kind[r] # "command" /\ answeredBy[r] # Nobody) => answeredBy[r] = asked[r]

\* A caller gets the answer to its own question, if there is one.
AnswersAreOwn == DeliveredIsReturned /\ AnswersComeFromTheAsked

\* Re-authentication over REST ends sessions of its own editor type only.
EvictsOwnEditorOnly ==
    [][\A c \in RestCalls :
         (pc[c] = "evicting" /\ pc'[c] = "retrying" /\ active' # active)
             => EditorOf[active] = EditorOf[c]]_vars

\* Every call of the dashboard ends, whatever the editor does.
CallsEnd ==
    \A r \in Requests :
        status[r] = "waiting" ~> status[r] \in {"answered", "cancelled", "timeout"}

\* A session whose editor died is given up, so that another may connect.
DeadSessionIsFreed ==
    \A c \in Connections : (active = c /\ c \in crashed) ~> active # c

\* Every handshake is answered: gate and lock are always given back.
HandshakesAreAnswered ==
    \A c \in Connections : pc[c] = "admitting" ~> pc[c] \in {"open", "rejected", "gone"}
=============================================================================
