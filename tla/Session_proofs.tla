--------------------------- MODULE Session_proofs ---------------------------
(***************************************************************************)
(* Proofs about Session, for any connections, editors, policies and        *)
(* requests.  The invariants split as the variables do: LockInv is about   *)
(* the session and is kept by every call of the dashboard; CallInv is      *)
(* about the calls and meets the life of the session in one step only, the *)
(* clearing of the calls of a session that ends.                           *)
(***************************************************************************)
EXTENDS Session, TLAPS

LockTypes ==
    /\ active \in Connections \cup {Nobody}
    /\ admitted \in SUBSET Editors
    /\ ending \in Ending \cup {NoEnding}
    /\ pc \in [Connections -> {"idle", "admitting", "evicting", "retrying", "open",
                               "leaving", "gone", "rejected"}]
    /\ victim \in [RestCalls -> Connections \cup {Nobody}]
    /\ sending \in SUBSET Sockets
    /\ crashed \in SUBSET Connections
    /\ quiet \in BOOLEAN
    /\ shown \in Connections \cup {Nobody}
    /\ switches \in 0 .. MaxSwitches

CallTypes ==
    /\ status \in [Requests -> {"idle", "routed", "waiting", "expired", "answered",
                                "cancelled", "timeout", "failed", "com"}]
    /\ asked \in [Requests -> Sockets \cup {Nobody}]
    /\ pending \in [Requests -> Sockets \cup {Nobody}]
    /\ mailbox \in [Requests -> {"empty", "response", "closed"}]
    /\ holding \in [Sockets -> [request : Requests, from : Sockets] \cup {NoCall}]
    /\ answeredBy \in [Requests -> Sockets \cup {Nobody}]
    /\ progressed \in SUBSET Requests
    /\ reports \in [Requests -> 0 .. MaxProgress]
    /\ cancelling \in SUBSET Requests

\* While a session is being ended there is no other, and a switch ends one only
\* when no admission is half way: so an admitted editor is still admitted when it
\* gets the lock.
Exclusion ==
    /\ ending # NoEnding => active = Nobody
    /\ \A c \in Connections : pc[c] = "admitting" =>
           EditorOf[c] \in admitted /\ ending.holds # "gate"

\* The session a REST handshake remembers to be in its way was one of its editor.
VictimIsOwn ==
    \A c \in RestCalls :
        /\ pc[c] = "evicting" => victim[c] # Nobody
        /\ victim[c] # Nobody => EditorOf[victim[c]] = EditorOf[c]

LockInv == LockTypes /\ AdmittedOnly /\ StatusIsTrue /\ Exclusion /\ VictimIsOwn

\* A call is in the table or in the hands of a socket for the session it was sent
\* to, and in neither before it is sent.
CallsAreSent ==
    /\ \A r \in Requests : pending[r] # Nobody => pending[r] = asked[r]
    /\ \A s \in Sockets : holding[s] # NoCall =>
           /\ holding[s].from = asked[holding[s].request]
           /\ status[holding[s].request] \notin {"idle", "routed"}
    /\ \A r \in Requests : status[r] \in {"idle", "routed"} =>
           asked[r] = Nobody /\ answeredBy[r] = Nobody /\ mailbox[r] = "empty"

\* DeliveredIsReturned, but for the loop of a generation, which may look for its
\* entry before it looks at its channel.
DeliveredInTime ==
    \A r \in Requests :
        (Kind[r] # "generation" /\ mailbox[r] = "response")
            => status[r] \notin {"cancelled", "expired", "timeout"}

CallInv == CallTypes /\ CallsAreSent /\ AnswersComeFromTheAsked /\ DeliveredInTime

\* A call a socket has taken, or whose channel was used or dropped, is not in the
\* table; a command never is.
OutOfTable ==
    /\ \A s \in Sockets : holding[s] # NoCall =>
           holding[s].from = s /\ pending[holding[s].request] = Nobody
    /\ \A r \in Requests :
           (mailbox[r] # "empty" \/ Kind[r] = "command") => pending[r] = Nobody

TableInv == OutOfTable /\ CallTableIsTrue

-----------------------------------------------------------------------------
(* The two halves of the state *)

LEMMA TypeIsBoth == TypeOK <=> LockTypes /\ CallTypes
BY DEF TypeOK, LockTypes, CallTypes

LEMMA CallsKeepTheLock ==
    ASSUME Calls
    PROVE  UNCHANGED lockVars
BY DEF Calls, Route, Ask, Waits, Receive, Deadline, Wake, GiveUp, CancelGeneration,
       Deliver, TakeCall, PublishResult, Progress

LEMMA LifecycleKeepsTheCalls ==
    ASSUME Lifecycle
    PROVE  ClearCalls \/ UNCHANGED callVars
BY DEF Lifecycle, Knock, Enter, Crash, Heartbeat, Evict, SocketLeaves, Release,
       SendTaskEnds, SwitchTarget, TimePasses, Watchdog, ReportEnd

-----------------------------------------------------------------------------
(* The session *)

\* Ending a session, the form in which four actions use it.
LEMMA EndSessionKeeps ==
    ASSUME LockInv, NEW how \in {"lock", "gate"}, EndSession(how), active # Nobody
    PROVE  /\ active' = Nobody /\ quiet' = FALSE
           /\ ending' \in Ending /\ ending' # NoEnding
           /\ ending'.holds = how
BY SessionAssumption DEF LockInv, LockTypes, EndSession, Ending, NoEnding

LEMMA LockInit ==
    ASSUME Init
    PROVE  LockInv
<1>1. LockTypes
  <2>1. /\ pc \in [Connections -> {"idle", "admitting", "evicting", "retrying", "open",
                                   "leaving", "gone", "rejected"}]
        /\ victim \in [RestCalls -> Connections \cup {Nobody}]
    BY DEF Init
  <2>2. switches \in 0 .. MaxSwitches
    BY SessionAssumption DEF Init
  <2> QED
    BY <2>1, <2>2 DEF Init, LockTypes
<1>2. AdmittedOnly /\ StatusIsTrue /\ Exclusion /\ VictimIsOwn
  <2>1. /\ \A c \in Connections : pc[c] = "idle"
        /\ \A c \in RestCalls : pc[c] = "idle" /\ victim[c] = Nobody
    BY DEF Init, Connections
  <2> QED
    BY <2>1 DEF Init, AdmittedOnly, StatusIsTrue, Exclusion, VictimIsOwn
<1> QED
  BY <1>1, <1>2 DEF LockInv

\* The steps of a connection: only an admission and its outcome touch the rest.
LEMMA KnockStep ==
    ASSUME LockInv, NEW c \in Connections, Knock(c)
    PROVE  LockInv'
<1>1. LockTypes'
  BY DEF LockInv, LockTypes, Knock, At
<1>2. Exclusion'
  BY DEF LockInv, LockTypes, Exclusion, Knock, At, GateFree
<1>3. VictimIsOwn'
  BY SessionAssumption DEF LockInv, LockTypes, VictimIsOwn, Knock, At, Connections
<1> QED
  BY <1>1, <1>2, <1>3 DEF LockInv, AdmittedOnly, StatusIsTrue, Knock

LEMMA EnterStep ==
    ASSUME LockInv, NEW c \in Connections, Enter(c)
    PROVE  LockInv'
<1>1. LockTypes'
  BY DEF LockInv, LockTypes, Enter, At
<1>2. CASE active = Nobody
  <2>1. active' = c /\ shown' = c /\ At(c, "open") /\ victim' = victim
    BY <1>2 DEF Enter
  <2>2. EditorOf[c] \in admitted /\ ending.holds # "gate" /\ ending.holds # "lock"
    BY DEF Enter, LockInv, Exclusion, LockFree
  <2>3. ending = NoEnding
    BY <2>2 DEF LockInv, LockTypes, Ending
  <2>4. ending' = ending /\ admitted' = admitted
    BY DEF Enter
  <2>5. Exclusion'
    BY <2>1, <2>3, <2>4 DEF LockInv, LockTypes, Exclusion, At
  <2>6. VictimIsOwn'
    BY <2>1 DEF LockInv, LockTypes, VictimIsOwn, At, Connections
  <2> QED
    BY <1>1, <2>1, <2>2, <2>4, <2>5, <2>6 DEF LockInv, AdmittedOnly, StatusIsTrue
<1>3. CASE active # Nobody
  <2>1. UNCHANGED <<active, shown, ending, admitted>>
    BY <1>3 DEF Enter
  <2>2. /\ \E place \in {"evicting", "rejected"} : At(c, place)
        /\ c \notin RestCalls => victim' = victim /\ At(c, "rejected")
    BY <1>3 DEF Enter
  <2>3. Exclusion'
    BY <2>1, <2>2 DEF LockInv, LockTypes, Exclusion, At
  <2>4. c \in RestCalls =>
          \/ /\ At(c, "evicting")
             /\ victim' = [victim EXCEPT ![c] = active]
             /\ EditorOf[active] = EditorOf[c]
          \/ At(c, "rejected") /\ victim' = victim
    BY <1>3 DEF Enter
  <2>5. VictimIsOwn'
    BY <1>3, <2>2, <2>4 DEF LockInv, LockTypes, VictimIsOwn, At, Connections
  <2> QED
    BY <1>1, <2>1, <2>3, <2>5 DEF LockInv, AdmittedOnly, StatusIsTrue
<1> QED
  BY <1>2, <1>3

\* Who takes the session out leaves the rest of the invariant to the ending.
LEMMA EndingStep ==
    ASSUME LockInv, LockTypes', Exclusion', VictimIsOwn',
           active' = Nobody, ending' # NoEnding
    PROVE  LockInv'
BY DEF LockInv, AdmittedOnly, StatusIsTrue

LEMMA EvictStep ==
    ASSUME LockInv, NEW c \in RestCalls, Evict(c)
    PROVE  LockInv'
<1>1. VictimIsOwn'
  BY DEF LockInv, LockTypes, VictimIsOwn, Evict, At, Connections
<1>2. CASE Meant(victim[c])
  <2>1. active # Nobody /\ EndSession("lock")
    BY <1>2 DEF Evict, Meant, LockInv, VictimIsOwn
  <2>2. active' = Nobody /\ ending' # NoEnding /\ ending'.holds = "lock"
        /\ ending' \in Ending /\ quiet' = FALSE
    BY <2>1, EndSessionKeeps
  <2>3. LockTypes'
    BY <2>2 DEF LockInv, LockTypes, Evict, At, Connections
  <2>4. Exclusion'
    BY <2>2 DEF LockInv, LockTypes, Exclusion, Evict, At
  <2> QED
    BY <1>1, <2>2, <2>3, <2>4, EndingStep
<1>3. CASE ~Meant(victim[c])
  BY <1>1, <1>3
  DEF Evict, At, LockInv, LockTypes, AdmittedOnly, StatusIsTrue, Exclusion
<1> QED
  BY <1>2, <1>3

LEMMA ReleaseStep ==
    ASSUME LockInv, NEW s \in Sockets, Release(s)
    PROVE  LockInv'
<1>1. VictimIsOwn'
  BY SessionAssumption DEF LockInv, LockTypes, VictimIsOwn, Release, At, Connections
<1>2. CASE Meant(s)
  <2>1. active # Nobody /\ EndSession("lock")
    BY <1>2, SessionAssumption DEF Release, Meant, Connections
  <2>2. active' = Nobody /\ ending' # NoEnding /\ ending'.holds = "lock"
        /\ ending' \in Ending /\ quiet' = FALSE
    BY <2>1, EndSessionKeeps
  <2>3. LockTypes'
    BY <2>2 DEF LockInv, LockTypes, Release, At, Connections
  <2>4. Exclusion'
    BY <2>2 DEF LockInv, LockTypes, Exclusion, Release, At
  <2> QED
    BY <1>1, <2>2, <2>3, <2>4, EndingStep
<1>3. CASE ~Meant(s)
  BY <1>1, <1>3
  DEF Release, At, LockInv, LockTypes, AdmittedOnly, StatusIsTrue, Exclusion
<1> QED
  BY <1>2, <1>3

LEMMA SwitchStep ==
    ASSUME LockInv, NEW policy \in Policies, SwitchTarget(policy)
    PROVE  LockInv'
<1>1. admitted' \in SUBSET Editors /\ switches' \in 0 .. MaxSwitches
  BY SessionAssumption DEF SwitchTarget, LockInv, LockTypes
<1>2. VictimIsOwn'
  BY DEF LockInv, VictimIsOwn, SwitchTarget
<1>3. \A c \in Connections : pc'[c] # "admitting"
  BY DEF SwitchTarget, GateFree
<1>4. CASE active # Nobody
  <2>1. EndSession("gate")
    BY <1>4 DEF SwitchTarget, SwitchHolds
  <2>2. active' = Nobody /\ ending' # NoEnding /\ ending' \in Ending /\ quiet' = FALSE
    BY <1>4, <2>1, EndSessionKeeps
  <2>3. LockTypes'
    BY <1>1, <2>2 DEF LockInv, LockTypes, SwitchTarget
  <2>4. Exclusion'
    BY <1>3, <2>2 DEF Exclusion
  <2> QED
    BY <1>2, <2>2, <2>3, <2>4, EndingStep
<1>5. CASE active = Nobody
  <2>1. LockTypes'
    BY <1>1, <1>5 DEF LockInv, LockTypes, SwitchTarget
  <2>2. Exclusion'
    BY <1>3, <1>5 DEF LockInv, Exclusion, SwitchTarget
  <2> QED
    BY <1>2, <1>5, <2>1, <2>2 DEF LockInv, AdmittedOnly, StatusIsTrue, SwitchTarget
<1> QED
  BY <1>4, <1>5

LEMMA LockStep ==
    ASSUME LockInv, Lifecycle \/ UNCHANGED lockVars
    PROVE  LockInv'
<1>1. ASSUME NEW s \in Sockets, SocketLeaves(s)
      PROVE  LockInv'
  BY <1>1, SessionAssumption
  DEF SocketLeaves, At, LockInv, LockTypes, AdmittedOnly, StatusIsTrue, Exclusion,
      VictimIsOwn, Connections
<1>2. ASSUME TimePasses \/ \E s \in Sockets : SendTaskEnds(s)
      PROVE  LockInv'
  BY <1>2
  DEF SendTaskEnds, TimePasses, LockInv, LockTypes, AdmittedOnly, StatusIsTrue,
      Exclusion, VictimIsOwn
<1>3. CASE Watchdog
  <2>1. active # Nobody /\ EndSession("lock")
    BY <1>3 DEF Watchdog
  <2>2. active' = Nobody /\ ending' # NoEnding /\ ending'.holds = "lock"
        /\ ending' \in Ending /\ quiet' = FALSE
    BY <2>1, EndSessionKeeps
  <2>3. LockTypes'
    BY <1>3, <2>2 DEF LockInv, LockTypes, Watchdog
  <2>4. Exclusion' /\ VictimIsOwn'
    BY <1>3, <2>2 DEF LockInv, Exclusion, VictimIsOwn, Watchdog
  <2> QED
    BY <2>2, <2>3, <2>4, EndingStep
<1>4. CASE ClearCalls
  <2>1. /\ ending' = [ending EXCEPT !.cleared = TRUE] /\ ending \in Ending
        /\ ending # NoEnding
    BY <1>4 DEF ClearCalls, LockInv, LockTypes
  <2>2. ending' \in Ending /\ ending'.holds = ending.holds /\ ending' # NoEnding
    BY <2>1, SessionAssumption DEF Ending, NoEnding
  <2> QED
    BY <1>4, <2>1, <2>2
    DEF ClearCalls, LockInv, LockTypes, AdmittedOnly, StatusIsTrue, Exclusion, VictimIsOwn
<1>5. CASE ReportEnd
  <2>1. active = Nobody /\ NoEnding.holds # "gate"
    BY <1>5 DEF ReportEnd, LockInv, Exclusion, NoEnding
  <2> QED
    BY <1>5, <2>1
    DEF ReportEnd, LockInv, LockTypes, AdmittedOnly, StatusIsTrue, Exclusion, VictimIsOwn
<1>6. CASE UNCHANGED lockVars
  BY <1>6
  DEF lockVars, LockInv, LockTypes, AdmittedOnly, StatusIsTrue, Exclusion, VictimIsOwn
<1>7. ASSUME NEW c \in Connections, Crash(c) \/ Heartbeat(c)
      PROVE  LockInv'
  BY <1>7
  DEF Crash, Heartbeat, LockInv, LockTypes, AdmittedOnly, StatusIsTrue, Exclusion,
      VictimIsOwn
<1> QED
  BY <1>1, <1>2, <1>3, <1>4, <1>5, <1>6, <1>7, KnockStep, EnterStep, EvictStep,
     ReleaseStep, SwitchStep DEF Lifecycle

-----------------------------------------------------------------------------
(* The calls *)

LEMMA CallInit ==
    ASSUME Init
    PROVE  CallInv
<1>1. /\ status \in [Requests -> {"idle", "routed", "waiting", "expired", "answered",
                                  "cancelled", "timeout", "failed", "com"}]
      /\ asked \in [Requests -> Sockets \cup {Nobody}]
      /\ pending \in [Requests -> Sockets \cup {Nobody}]
      /\ mailbox \in [Requests -> {"empty", "response", "closed"}]
      /\ holding \in [Sockets -> [request : Requests, from : Sockets] \cup {NoCall}]
      /\ answeredBy \in [Requests -> Sockets \cup {Nobody}]
  BY DEF Init
<1>2. reports \in [Requests -> 0 .. MaxProgress]
  <2>1. 0 \in 0 .. MaxProgress
    BY SessionAssumption
  <2> QED
    BY <2>1 DEF Init
<1>3. CallTypes
  BY <1>1, <1>2 DEF Init, CallTypes
<1> QED
  BY <1>3 DEF Init, CallInv, CallsAreSent, AnswersComeFromTheAsked, DeliveredInTime

LEMMA AskStep ==
    ASSUME LockInv, CallInv, NEW r \in Requests, Ask(r)
    PROVE  CallInv'
<1>1. CASE Reachable(r)
  <2>1. active \in Sockets
    BY <1>1 DEF Reachable, LockInv, LockTypes
  <2>2. CallTypes'
    BY <1>1, <2>1 DEF Ask, Becomes, CallInv, CallTypes
  <2>3. /\ asked' = [asked EXCEPT ![r] = active]
        /\ pending' = [pending EXCEPT ![r] = IF Kind[r] = "command" THEN Nobody ELSE active]
        /\ status' = [status EXCEPT ![r] = "waiting"]
        /\ UNCHANGED <<holding, mailbox, answeredBy>>
        /\ status[r] = "routed"
    BY <1>1 DEF Ask, Becomes
  <2>4. CallsAreSent'
    BY <2>1, <2>3, SessionAssumption DEF CallInv, CallTypes, CallsAreSent, Connections, NoCall
  <2>5. AnswersComeFromTheAsked' /\ DeliveredInTime'
    BY <2>3 DEF CallInv, CallTypes, CallsAreSent, AnswersComeFromTheAsked, DeliveredInTime
  <2> QED
    BY <2>2, <2>4, <2>5 DEF CallInv
<1>2. CASE ~Reachable(r)
  BY <1>2
  DEF Ask, Becomes, CallInv, CallTypes, CallsAreSent, AnswersComeFromTheAsked,
      DeliveredInTime
<1> QED
  BY <1>1, <1>2

LEMMA TakeCallStep ==
    ASSUME CallInv, NEW s \in Sockets, NEW r \in Requests, TakeCall(s, r)
    PROVE  CallInv'
<1>1. pending[r] \in Sockets /\ pending[r] = asked[r] /\ status[r] \notin {"idle", "routed"}
  BY DEF TakeCall, CallInv, CallTypes, CallsAreSent
<1>2. CallTypes'
  BY <1>1 DEF TakeCall, CallInv, CallTypes
<1>3. CallsAreSent'
  BY <1>1 DEF TakeCall, CallInv, CallTypes, CallsAreSent
<1> QED
  BY <1>2, <1>3 DEF TakeCall, CallInv, AnswersComeFromTheAsked, DeliveredInTime

\* Whatever a socket holds, it holds of a call that was sent to some session.
LEMMA HeldCall ==
    ASSUME CallInv, NEW s \in Sockets, holding[s] # NoCall
    PROVE  /\ holding[s].request \in Requests /\ holding[s].from \in Sockets
           /\ holding[s].from = asked[holding[s].request]
           /\ status[holding[s].request] \notin {"idle", "routed"}
BY DEF CallInv, CallTypes, CallsAreSent

LEMMA DeliverStep ==
    ASSUME CallInv, NEW s \in Sockets, Deliver(s)
    PROVE  CallInv'
<1> DEFINE r == holding[s].request
<1>1. /\ r \in Requests /\ holding[s].from \in Sockets /\ holding[s].from = asked[r]
      /\ status[r] \notin {"idle", "routed"}
  BY HeldCall DEF Deliver
<1>2. CASE Originating(s) /\ status[r] = "waiting"
  <2>1. /\ mailbox' = [mailbox EXCEPT ![r] = "response"]
        /\ answeredBy' = [answeredBy EXCEPT ![r] = s]
        /\ holding' = [holding EXCEPT ![s] = NoCall]
        /\ UNCHANGED <<pending, status, asked, progressed, reports, cancelling>>
        /\ asked[r] = s
    BY <1>1, <1>2 DEF Deliver, Originating
  <2>2. CallTypes'
    BY <1>1, <2>1 DEF CallInv, CallTypes
  <2>3. CallsAreSent'
    BY <1>1, <2>1 DEF CallInv, CallTypes, CallsAreSent
  <2>4. AnswersComeFromTheAsked'
    BY <1>1, <2>1 DEF CallInv, CallTypes, AnswersComeFromTheAsked
  <2>5. DeliveredInTime'
    BY <1>1, <1>2, <2>1 DEF CallInv, CallTypes, DeliveredInTime
  <2> QED
    BY <2>2, <2>3, <2>4, <2>5 DEF CallInv
<1>3. CASE Originating(s) /\ status[r] # "waiting"
  BY <1>1, <1>3
  DEF Deliver, CallInv, CallTypes, CallsAreSent, AnswersComeFromTheAsked, DeliveredInTime
<1>4. CASE ~Originating(s)
  <2>1. CallTypes'
    BY <1>1, <1>4 DEF Deliver, CallInv, CallTypes
  <2>2. CallsAreSent'
    BY <1>1, <1>4 DEF Deliver, CallInv, CallTypes, CallsAreSent
  <2> QED
    BY <1>4, <2>1, <2>2 DEF Deliver, CallInv, AnswersComeFromTheAsked, DeliveredInTime
<1> QED
  BY <1>2, <1>3, <1>4

LEMMA PublishStep ==
    ASSUME CallInv, NEW s \in Sockets, NEW r \in Requests, PublishResult(s, r)
    PROVE  CallInv'
BY DEF PublishResult, CallInv, CallTypes, CallsAreSent, AnswersComeFromTheAsked,
       DeliveredInTime

\* What a waiter does changes its own status, may remove its own entry, and lets
\* no delivered answer go by unless it waits for a generation.
LEMMA WaiterStep ==
    ASSUME CallInv, NEW r \in Requests,
           Route(r) \/ Receive(r) \/ Deadline(r) \/ Wake(r) \/ GiveUp(r)
    PROVE  CallInv'
<1> USE DEF Becomes, CallInv, CallTypes, CallsAreSent, AnswersComeFromTheAsked,
            DeliveredInTime
<1>1. CASE Route(r)
  BY <1>1 DEF Route
<1>2. CASE Receive(r)
  BY <1>2 DEF Receive
<1>3. CASE Deadline(r)
  BY <1>3 DEF Deadline, Unanswered
<1>4. CASE Wake(r)
  BY <1>4 DEF Wake
<1>5. CASE GiveUp(r)
  BY <1>5 DEF GiveUp, Expire
<1> QED
  BY <1>1, <1>2, <1>3, <1>4, <1>5

LEMMA ClearStep ==
    ASSUME LockInv, CallInv, ClearCalls
    PROVE  CallInv'
<1>1. CallTypes'
  BY DEF ClearCalls, CallInv, CallTypes
<1>2. ending.session # Nobody
  BY SessionAssumption DEF ClearCalls, LockInv, LockTypes, Ending
<1>3. \A r \in Requests :
        /\ pending'[r] # Nobody => pending'[r] = pending[r]
        /\ mailbox'[r] = "response" => mailbox[r] = "response"
        /\ mailbox'[r] = mailbox[r] \/ pending[r] # Nobody
  BY <1>2 DEF ClearCalls, Cleared, CallInv, CallTypes
<1>4. CallsAreSent'
  BY <1>3 DEF ClearCalls, CallInv, CallsAreSent
<1> QED
  BY <1>1, <1>3, <1>4 DEF ClearCalls, CallInv, AnswersComeFromTheAsked, DeliveredInTime

LEMMA CallStep ==
    ASSUME LockInv, CallInv, [Next]_vars
    PROVE  CallInv'
<1>1. CASE UNCHANGED callVars
  BY <1>1
  DEF callVars, CallInv, CallTypes, CallsAreSent, AnswersComeFromTheAsked, DeliveredInTime
<1>2. CASE Lifecycle
  BY <1>1, <1>2, LifecycleKeepsTheCalls, ClearStep
<1>3. ASSUME NEW r \in Requests, CancelGeneration(r)
      PROVE  CallInv'
  BY <1>3
  DEF CancelGeneration, CallInv, CallTypes, CallsAreSent, AnswersComeFromTheAsked,
      DeliveredInTime
<1>4. ASSUME NEW s \in Sockets, NEW r \in Requests, Progress(s, r)
      PROVE  CallInv'
  BY <1>4, SessionAssumption
  DEF Progress, CallInv, CallTypes, CallsAreSent, AnswersComeFromTheAsked, DeliveredInTime
<1>5. CASE Calls
  BY <1>3, <1>4, <1>5, AskStep, TakeCallStep, DeliverStep, PublishStep, WaiterStep
  DEF Calls, Waits
<1> QED
  BY <1>1, <1>2, <1>5 DEF Next, vars

-----------------------------------------------------------------------------
(* The table of calls, when editors answer on the socket they were asked on *)

LEMMA TableInit ==
    ASSUME Init
    PROVE  TableInv
BY DEF Init, TableInv, OutOfTable, CallTableIsTrue, PendingBelongsToSession, NoLeakedCall

\* The session's steps: its calls follow it into its ending, where they are dropped.
LEMMA TableLifecycle ==
    ASSUME LockInv, CallInv, TableInv, Lifecycle
    PROVE  TableInv'
<1>1. CASE ClearCalls
  <2>1. \A r \in Requests : pending'[r] = Nobody \/ (pending'[r] = pending[r] /\ pending[r] = active)
    BY <1>1 DEF ClearCalls, Cleared, TableInv, CallTableIsTrue, PendingBelongsToSession
  <2>2. \A r \in Requests : mailbox'[r] # "empty" => pending'[r] = Nobody
    BY <1>1 DEF ClearCalls, Cleared, TableInv, OutOfTable
  <2>3. UNCHANGED <<active, status, holding>>
    BY <1>1 DEF ClearCalls
  <2> QED
    BY <2>1, <2>2, <2>3, HeldCall
    DEF TableInv, OutOfTable, CallTableIsTrue, PendingBelongsToSession, NoLeakedCall
<1>2. CASE UNCHANGED callVars /\ ~ClearCalls
  <2>1. OutOfTable' /\ NoLeakedCall'
    BY <1>2 DEF callVars, TableInv, OutOfTable, CallTableIsTrue, NoLeakedCall
  <2>2. \/ active' = active /\ ending' = ending
        \/ active = Nobody /\ ending' = ending
        \/ \E how \in {"lock", "gate"} : EndSession(how) /\ active # Nobody
        \/ ReportEnd
    <3>1. ASSUME NEW c \in Connections, Enter(c)
          PROVE  ending' = ending /\ (active' = active \/ active = Nobody)
      BY <3>1 DEF Enter
    <3>2. ASSUME NEW c \in RestCalls, Evict(c)
          PROVE  \/ active' = active /\ ending' = ending
                 \/ EndSession("lock") /\ active # Nobody
      BY <3>2 DEF Evict, Meant, LockInv, VictimIsOwn
    <3>3. ASSUME NEW s \in Sockets, Release(s)
          PROVE  \/ active' = active /\ ending' = ending
                 \/ EndSession("lock") /\ active # Nobody
      BY <3>3, SessionAssumption DEF Release, Meant, Connections
    <3>4. ASSUME NEW policy \in Policies, SwitchTarget(policy)
          PROVE  \/ active' = active /\ ending' = ending
                 \/ EndSession("gate") /\ active # Nobody
      BY <3>4 DEF SwitchTarget, SwitchHolds
    <3>5. Watchdog => EndSession("lock") /\ active # Nobody
      BY DEF Watchdog
    <3>6. ASSUME NEW c \in Connections, Knock(c) \/ Crash(c) \/ Heartbeat(c)
          PROVE  active' = active /\ ending' = ending
      BY <3>6 DEF Knock, Crash, Heartbeat
    <3>7. ASSUME NEW s \in Sockets, SocketLeaves(s) \/ SendTaskEnds(s)
          PROVE  active' = active /\ ending' = ending
      BY <3>7 DEF SocketLeaves, SendTaskEnds
    <3>8. TimePasses => active' = active /\ ending' = ending
      BY DEF TimePasses
    <3> QED
      BY <1>2, <3>1, <3>2, <3>3, <3>4, <3>5, <3>6, <3>7, <3>8 DEF Lifecycle
  <2>3. PendingBelongsToSession'
    <3>1. CASE ending' = ending /\ (active' = active \/ active = Nobody)
      BY <1>2, <3>1 DEF callVars, TableInv, CallTableIsTrue, PendingBelongsToSession
    <3>2. ASSUME NEW how \in {"lock", "gate"}, EndSession(how), active # Nobody
          PROVE  PendingBelongsToSession'
      <4>1. ending = NoEnding
        BY <3>2 DEF LockInv, Exclusion
      <4>2. \A r \in Requests : pending[r] # Nobody => pending[r] = active
        BY <4>1 DEF TableInv, CallTableIsTrue, PendingBelongsToSession, NoEnding
      <4>3. ending'.session = active /\ ~ending'.cleared
        BY <3>2 DEF EndSession
      <4> QED
        BY <1>2, <4>2, <4>3 DEF callVars, PendingBelongsToSession
    <3>3. CASE ReportEnd
      BY <1>2, <3>3
      DEF ReportEnd, callVars, TableInv, CallTableIsTrue, PendingBelongsToSession
    <3> QED
      BY <2>2, <3>1, <3>2, <3>3
  <2> QED
    BY <2>1, <2>3 DEF TableInv, CallTableIsTrue
<1> QED
  BY <1>1, <1>2, LifecycleKeepsTheCalls

LEMMA TableCalls ==
    ASSUME ~StrayAnswers, LockInv, CallInv, TableInv, Calls
    PROVE  TableInv'
<1>0. UNCHANGED <<active, ending>>
  BY CallsKeepTheLock DEF lockVars
<1> USE DEF TableInv, OutOfTable, CallTableIsTrue, PendingBelongsToSession, NoLeakedCall
<1>1. ASSUME NEW r \in Requests, Ask(r)
      PROVE  TableInv'
  <2>1. /\ status[r] = "routed" /\ mailbox[r] = "empty"
        /\ \A s \in Sockets : holding[s] # NoCall => holding[s].request # r
    BY <1>1 DEF Ask, CallInv, CallsAreSent
  <2> QED
    BY <1>0, <1>1, <2>1, HeldCall DEF Ask, Becomes, CallInv, CallTypes
<1>2. ASSUME NEW s \in Sockets, NEW r \in Requests, TakeCall(s, r)
      PROVE  TableInv'
  <2>1. pending[r] = s /\ s # Nobody
    BY <1>2, SessionAssumption DEF TakeCall, CallInv, CallsAreSent, Connections
  <2>2. \A t \in Sockets : holding[t] # NoCall => holding[t].request # r
    BY <2>1
  <2> QED
    BY <1>0, <1>2, <2>1, <2>2 DEF TakeCall, CallInv, CallTypes
<1>3. ASSUME NEW s \in Sockets, Deliver(s)
      PROVE  TableInv'
  <2>1. /\ holding[s].request \in Requests /\ holding[s].from = s
        /\ pending[holding[s].request] = Nobody
    BY <1>3, HeldCall DEF Deliver
  <2> QED
    BY <1>0, <1>3, <2>1 DEF Deliver, Originating, CallInv, CallTypes
<1>4. ASSUME NEW s \in Sockets, NEW r \in Requests, PublishResult(s, r)
      PROVE  TableInv'
  BY <1>0, <1>4 DEF PublishResult, CallInv, CallTypes
<1>5. ASSUME NEW r \in Requests, Route(r) \/ Receive(r) \/ Deadline(r)
      PROVE  TableInv'
  BY <1>0, <1>5 DEF Route, Receive, Deadline, Becomes, CallInv, CallTypes
<1>6. ASSUME NEW r \in Requests, Wake(r) \/ GiveUp(r)
      PROVE  TableInv'
  BY <1>0, <1>6 DEF Wake, GiveUp, Expire, Becomes, CallInv, CallTypes
<1>7. ASSUME NEW r \in Requests, CancelGeneration(r)
      PROVE  TableInv'
  BY <1>0, <1>7 DEF CancelGeneration
<1>8. ASSUME NEW r \in Requests, NEW s \in Sockets, Progress(s, r)
      PROVE  TableInv'
  BY <1>0, <1>8 DEF Progress
<1> QED
  BY <1>1, <1>2, <1>3, <1>4, <1>5, <1>6, <1>7, <1>8 DEF Calls, Waits

-----------------------------------------------------------------------------
(* The theorems *)

THEOREM SessionInductive == Spec => [](LockInv /\ CallInv)
<1>1. Init => LockInv /\ CallInv
  BY LockInit, CallInit
<1>2. LockInv /\ CallInv /\ [Next]_vars => LockInv' /\ CallInv'
  <2> SUFFICES ASSUME LockInv, CallInv, [Next]_vars
               PROVE  LockInv'
    BY CallStep
  <2> QED
    BY LockStep, CallsKeepTheLock DEF Next, vars
<1> QED
  BY <1>1, <1>2, PTL DEF Spec

\* At most one editor holds the session, of a type the policy of the moment admits,
\* and the last status event tells the dashboard of it: for any number of
\* WebSockets, REST handshakes, target switches, timeouts and releases.
THEOREM LockIsAlwaysTrue == Spec => []LockIsTrue
<1>1. LockInv /\ CallInv => LockIsTrue
  BY TypeIsBoth DEF LockInv, CallInv, LockIsTrue
<1> QED
  BY <1>1, SessionInductive, PTL

\* A caller is answered by the session it asked, although an editor may answer on
\* any socket, and a delivered answer is never turned into a timeout; for a
\* generation the second half is not true of the code (DeliveredInTime), so the
\* theorem is about dashboards whose calls are of the other two kinds.
THEOREM AnswersAreTheirOwn ==
    ASSUME \A r \in Requests : Kind[r] # "generation"
    PROVE  Spec => []AnswersAreOwn
<1>1. CallInv => AnswersAreOwn
  BY DEF CallInv, DeliveredInTime, AnswersAreOwn, DeliveredIsReturned
<1> QED
  BY <1>1, SessionInductive, PTL

\* Whatever kinds of call there are, none is completed by a session that was not
\* asked.
THEOREM OnlyTheAskedAnswers == Spec => []AnswersComeFromTheAsked
<1>1. CallInv => AnswersComeFromTheAsked
  BY DEF CallInv
<1> QED
  BY <1>1, SessionInductive, PTL

\* No caller waits for a session that is gone, and no call that ended is left in
\* the table.  An answer on a foreign socket is put back after the fact, which may
\* leak an entry: the theorem is about editors that answer where they were asked.
THEOREM CallTableIsAlwaysTrue ==
    ASSUME ~StrayAnswers
    PROVE  Spec => []CallTableIsTrue
<1>1. Init => TableInv
  BY TableInit
<1>2. LockInv /\ CallInv /\ TableInv /\ [Next]_vars => TableInv'
  <2>1. CASE UNCHANGED vars
    BY <2>1
    DEF vars, lockVars, callVars, TableInv, OutOfTable, CallTableIsTrue,
        PendingBelongsToSession, NoLeakedCall
  <2> QED
    BY <2>1, TableLifecycle, TableCalls DEF Next
<1>3. TableInv => CallTableIsTrue
  BY DEF TableInv
<1> QED
  BY <1>1, <1>2, <1>3, SessionInductive, PTL DEF Spec

\* A REST handshake ends a session of its own editor type only, although the one it
\* found in its way may have been replaced since.
THEOREM EvictionStaysHome == Spec => EvictsOwnEditorOnly
<1> DEFINE EvictsOwn ==
      \A c \in RestCalls :
          (pc[c] = "evicting" /\ pc'[c] = "retrying" /\ active' # active)
              => EditorOf[active] = EditorOf[c]
<1>1. LockInv /\ [Next]_vars => [EvictsOwn]_vars
  <2> SUFFICES ASSUME LockInv, Next, NEW c \in RestCalls,
                      pc[c] = "evicting", pc'[c] = "retrying", active' # active
               PROVE  EditorOf[active] = EditorOf[c]
    OBVIOUS
  <2>1. c \in Connections /\ pc \in [Connections -> {"idle", "admitting", "evicting",
                              "retrying", "open", "leaving", "gone", "rejected"}]
    BY DEF Connections, LockInv, LockTypes
  <2>2. PICK d \in RestCalls : Evict(d)
    <3>1. ASSUME NEW d \in Connections, Knock(d) \/ Crash(d) \/ Heartbeat(d)
          PROVE  FALSE
      BY <3>1 DEF Knock, Crash, Heartbeat
    <3>2. ASSUME NEW d \in Connections, Enter(d)
          PROVE  FALSE
      BY <2>1, <3>2 DEF Enter, At
    <3>3. ASSUME NEW s \in Sockets, SocketLeaves(s) \/ Release(s) \/ SendTaskEnds(s)
          PROVE  FALSE
      BY <2>1, <3>3 DEF SocketLeaves, Release, SendTaskEnds, At, Connections
    <3>4. ASSUME NEW policy \in Policies, SwitchTarget(policy)
          PROVE  FALSE
      BY <3>4 DEF SwitchTarget
    <3>5. ~(TimePasses \/ Watchdog \/ ClearCalls \/ ReportEnd)
      BY DEF TimePasses, Watchdog, ClearCalls, ReportEnd
    <3>6. ~Calls
      BY CallsKeepTheLock DEF lockVars
    <3> QED
      BY <3>1, <3>2, <3>3, <3>4, <3>5, <3>6 DEF Next, Lifecycle
  <2>3. d = c
    BY <2>1, <2>2 DEF Evict, At, Connections
  <2>4. active = victim[c] /\ victim[c] # Nobody
    BY <2>2, <2>3 DEF Evict, Meant, LockInv, VictimIsOwn
  <2> QED
    BY <2>4 DEF LockInv, VictimIsOwn
<1> QED
  BY <1>1, SessionInductive, PTL DEF Spec, EvictsOwnEditorOnly
=============================================================================
