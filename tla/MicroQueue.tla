----------------------------- MODULE MicroQueue -----------------------------
(***************************************************************************)
(* The micro-scoping worker queue of the dashboard                         *)
(* (src-tauri/src/ai/micro_queue.rs): any number of callers submit         *)
(* paragraph jobs, ONE worker task runs them on the local LLM, a newer job *)
(* for a paragraph supersedes the older ones, and every caller waits for   *)
(* the answer to its own job.                                              *)
(*                                                                         *)
(* Everything under the lock of `inner` is one step; what the code does    *)
(* outside it (notify_one, the inference, resetting `active`) is a step of *)
(* its own, so callers interleave with the worker exactly where they can.  *)
(*                                                                         *)
(* A job is its id.  `pending` is the set of queued ids: an id is drawn    *)
(* and pushed to the back under one acquisition of the lock, and removals  *)
(* keep the order, so the front of the deque is the smallest queued id.    *)
(***************************************************************************)
EXTENDS Integers, FiniteSets

CONSTANTS
    Paragraphs,   \* paragraph ids a job can be about
    NoParagraph,  \* what is noted for a job that was not submitted yet
    MaxJobs,      \* bound: how many jobs are ever submitted
    MaxSwitches   \* bound: how often the model is switched

ASSUME NoParagraphAssumption == NoParagraph \notin Paragraphs
ASSUME MaxJobsAssumption == MaxJobs \in Nat
ASSUME MaxSwitchesAssumption == MaxSwitches \in Nat

Jobs == 1 .. MaxJobs
NoJob == 0

\* What the worker's select! can produce, and what a caller can be sent.
WorkerOutcomes == {"ok", "error", "timeout", "cancelled"}
Unanswered == "none"

VARIABLES
    pending,      \* QueueInner.pending, as a set of ids
    nextJob,      \* QueueInner.next_job_id: the id drawn last
    isShutdown,   \* QueueInner.is_shutdown
    active,       \* QueueInner.active: id in the tracker, or NoJob
    armed,        \* the tracker still holds its cancel_tx
    worker,       \* where the worker task is
    job,          \* the worker's local `job`, or NoJob
    permit,       \* the permit stored by Notify
    toNotify,     \* callers between the unlock and notify_one, by job id
    stopper,      \* where the caller of shutdown() is
    paragraph,    \* paragraph of every job submitted so far
    answer,       \* what was sent on result_tx of every job
    count,        \* the four statistics counters
    model,        \* current_model, as the number of switches so far
    since,        \* history: `model` when the job was submitted
    used          \* `model` the job was run with

queueVars == <<pending, nextJob, isShutdown, active, armed>>
workerVars == <<worker, job, permit>>
callerVars == <<toNotify, stopper, paragraph, answer>>
modelVars == <<model, since, used>>
vars == <<queueVars, workerVars, callerVars, count, modelVars>>

Submitted == 1 .. nextJob
Answered == {j \in Jobs : answer[j] # Unanswered}
Running == worker \in {"starting", "running"}

TypeOK ==
    /\ pending \subseteq Jobs
    /\ nextJob \in 0 .. MaxJobs
    /\ isShutdown \in BOOLEAN
    /\ active \in Jobs \cup {NoJob}
    /\ armed \in BOOLEAN
    /\ worker \in {"checking", "parked", "starting", "running", "clearing", "stopped"}
    /\ job \in Jobs \cup {NoJob}
    /\ permit \in BOOLEAN
    /\ toNotify \subseteq Jobs
    /\ stopper \in {"idle", "notifying", "joining", "returned"}
    /\ paragraph \in [Jobs -> Paragraphs \cup {NoParagraph}]
    /\ answer \in [Jobs -> WorkerOutcomes \cup {Unanswered}]
    /\ count \in [WorkerOutcomes -> Nat]
    /\ model \in 0 .. MaxSwitches
    /\ since \in [Jobs -> 0 .. MaxSwitches]
    /\ used \in [Jobs -> Int]

Init ==
    /\ pending = {}
    /\ nextJob = 0
    /\ isShutdown = FALSE
    /\ active = NoJob
    /\ armed = FALSE
    /\ worker = "checking"
    /\ job = NoJob
    /\ permit = FALSE
    /\ toNotify = {}
    /\ stopper = "idle"
    /\ paragraph = [j \in Jobs |-> NoParagraph]
    /\ answer = [j \in Jobs |-> Unanswered]
    /\ count = [o \in WorkerOutcomes |-> 0]
    /\ model = 0
    /\ since = [j \in Jobs |-> 0]
    /\ used = [j \in Jobs |-> -1]

-----------------------------------------------------------------------------
(* Helpers *)

\* Submissions are refused once the queue is shut down.
Accepting_Always == TRUE                                           \* mutant
Accepting == ~isShutdown

\* The waiting jobs a new job for p supersedes.
QueuedFor_NoDebounce(p) == {}                                      \* mutant
QueuedFor(p) == {j \in pending : paragraph[j] = p}

\* Pop the jobs of S off the queue and send each Err(QueueCancelled).
CancelPending_Unanswered(S) ==                                     \* mutant
    /\ answer' = answer
    /\ count' = [count EXCEPT !["cancelled"] = @ + Cardinality(S)]
CancelPending_CountOnce(S) ==                                      \* mutant
    /\ answer' = [j \in Jobs |-> IF j \in S THEN "cancelled" ELSE answer[j]]
    /\ count' = [count EXCEPT !["cancelled"] = @ + 1]
CancelPending(S) ==
    /\ answer' = [j \in Jobs |-> IF j \in S THEN "cancelled" ELSE answer[j]]
    /\ count' = [count EXCEPT !["cancelled"] = @ + Cardinality(S)]

\* Take the tracker's cancel_tx when it is about paragraph p.
SignalActive_Never(p) == armed' = armed                            \* mutant
SignalActive(p) ==
    armed' = (armed /\ ~(active # NoJob /\ paragraph[active] = p))

\* The job pop_front returns.
Front_Newest(j) == j \in pending /\ \A k \in pending : k <= j       \* mutant
Front(j) == j \in pending /\ \A k \in pending : j <= k

\* The model a job without an override is run with.
CurrentModel == model

-----------------------------------------------------------------------------
(* Callers *)

\* submit(): the part under the lock.
Submit(p) ==
    /\ Accepting
    /\ nextJob < MaxJobs
    /\ LET new == nextJob + 1
       IN  /\ pending' = (pending \ QueuedFor(p)) \cup {new}
           /\ nextJob' = new
           /\ paragraph' = [paragraph EXCEPT ![new] = p]
           /\ since' = [since EXCEPT ![new] = model]
           /\ toNotify' = toNotify \cup {new}
    /\ CancelPending(QueuedFor(p))
    /\ SignalActive(p)
    /\ UNCHANGED <<isShutdown, active, workerVars, stopper, model, used>>

\* submit(): notify_one, after the lock is released; then the caller awaits.
NotifyAfterSubmit_IfAlone(j) ==                                    \* mutant
    /\ j \in toNotify
    /\ toNotify' = toNotify \ {j}
    /\ permit' = (permit \/ pending = {j})
    /\ UNCHANGED <<queueVars, worker, job, stopper, paragraph, answer, count,
                   modelVars>>
NotifyAfterSubmit(j) ==
    /\ j \in toNotify
    /\ toNotify' = toNotify \ {j}
    /\ permit' = TRUE
    /\ UNCHANGED <<queueVars, worker, job, stopper, paragraph, answer, count,
                   modelVars>>

CancelParagraph(p) ==
    /\ pending' = pending \ QueuedFor(p)
    /\ CancelPending(QueuedFor(p))
    /\ SignalActive(p)
    /\ UNCHANGED <<nextJob, isShutdown, active, workerVars, toNotify, stopper,
                   paragraph, modelVars>>

\* clear(): the running job is left alone.
Clear ==
    /\ pending' = {}
    /\ CancelPending(pending)
    /\ UNCHANGED <<nextJob, isShutdown, active, armed, workerVars, toNotify,
                   stopper, paragraph, modelVars>>

SetModel ==
    /\ model < MaxSwitches
    /\ model' = model + 1
    /\ UNCHANGED <<queueVars, workerVars, callerVars, count, since, used>>

\* shutdown(): the part under the lock.
Shutdown ==
    /\ stopper = "idle"
    /\ isShutdown' = TRUE
    /\ armed' = FALSE
    /\ pending' = {}
    /\ CancelPending(pending)
    /\ stopper' = "notifying"
    /\ UNCHANGED <<nextJob, active, workerVars, toNotify, paragraph, modelVars>>

NotifyAfterShutdown_Silent ==                                      \* mutant
    /\ stopper = "notifying"
    /\ stopper' = "joining"
    /\ UNCHANGED <<queueVars, workerVars, toNotify, paragraph, answer, count,
                   modelVars>>
NotifyAfterShutdown ==
    /\ stopper = "notifying"
    /\ stopper' = "joining"
    /\ permit' = TRUE
    /\ UNCHANGED <<queueVars, worker, job, toNotify, paragraph, answer, count,
                   modelVars>>

\* shutdown() returns when the worker task has ended.
JoinWorker ==
    /\ stopper = "joining"
    /\ worker = "stopped"
    /\ stopper' = "returned"
    /\ UNCHANGED <<queueVars, workerVars, toNotify, paragraph, answer, count,
                   modelVars>>

-----------------------------------------------------------------------------
(* The worker task *)

StopWorker ==
    /\ worker = "checking"
    /\ isShutdown
    /\ worker' = "stopped"
    /\ UNCHANGED <<queueVars, job, permit, callerVars, count, modelVars>>

\* Pop the front job and publish it as active, with a fresh cancel channel.
PopNext ==
    /\ worker = "checking"
    /\ ~isShutdown
    /\ \E front \in Jobs :
         /\ Front(front)
         /\ pending' = pending \ {front}
         /\ active' = front
         /\ job' = front
    /\ armed' = TRUE
    /\ worker' = "starting"
    /\ UNCHANGED <<nextJob, isShutdown, permit, callerVars, count, modelVars>>

\* Nothing queued: leave the lock and await the notification.
Park ==
    /\ worker = "checking"
    /\ ~isShutdown
    /\ pending = {}
    /\ active' = NoJob
    /\ worker' = "parked"
    /\ UNCHANGED <<pending, nextJob, isShutdown, armed, job, permit, callerVars,
                   count, modelVars>>

Wake ==
    /\ worker = "parked"
    /\ permit
    /\ permit' = FALSE
    /\ worker' = "checking"
    /\ UNCHANGED <<queueVars, job, callerVars, count, modelVars>>

\* Read current_model (its own lock) and start the inference.
StartInference ==
    /\ worker = "starting"
    /\ used' = [used EXCEPT ![job] = CurrentModel]
    /\ worker' = "running"
    /\ UNCHANGED <<queueVars, job, permit, callerVars, count, model, since>>

\* select!: the inference ends in one of three ways whenever it likes (the
\* timeout bounds it); the cancel branch needs the signal.  The branches are
\* polled in random order, so a signalled job may still end otherwise.
FinishInference(outcome) ==
    /\ worker = "running"
    /\ outcome = "cancelled" => ~armed
    /\ answer' = [answer EXCEPT ![job] = outcome]
    /\ count' = [count EXCEPT ![outcome] = @ + 1]
    /\ worker' = "clearing"
    /\ UNCHANGED <<queueVars, job, permit, toNotify, stopper, paragraph, modelVars>>

\* Reset the tracker, under the lock again.
ClearActive ==
    /\ worker = "clearing"
    /\ active' = NoJob
    /\ armed' = FALSE
    /\ job' = NoJob
    /\ worker' = "checking"
    /\ UNCHANGED <<pending, nextJob, isShutdown, permit, callerVars, count,
                   modelVars>>

-----------------------------------------------------------------------------
WorkerStep ==
    \/ StopWorker
    \/ PopNext
    \/ Park
    \/ Wake
    \/ StartInference
    \/ \E outcome \in WorkerOutcomes : FinishInference(outcome)
    \/ ClearActive

Next ==
    \/ \E p \in Paragraphs : Submit(p) \/ CancelParagraph(p)
    \/ \E j \in Jobs : NotifyAfterSubmit(j)
    \/ Clear
    \/ SetModel
    \/ Shutdown
    \/ NotifyAfterShutdown
    \/ JoinWorker
    \/ WorkerStep

Spec == Init /\ [][Next]_vars

\* Tokio polls every ready task, and the timeout around the inference makes the
\* select! of a running job ready in bounded time.  Nothing is assumed of the
\* callers' decisions: submitting, cancelling and shutting down are free.
Fairness ==
    /\ WF_vars(WorkerStep)
    /\ \A j \in Jobs : WF_vars(NotifyAfterSubmit(j))
    /\ WF_vars(NotifyAfterShutdown)
    /\ WF_vars(JoinWorker)

FairSpec == Spec /\ Fairness

-----------------------------------------------------------------------------
(* Safety *)

\* A caller still waiting is waiting for something: its job is queued or it is
\* the one the worker holds.  No path (supersede, cancel, clear, shutdown, the
\* worker) drops a job without answering it, and none answers it early.
NoLostJob ==
    \A j \in Submitted :
        answer[j] = Unanswered <=> (j \in pending \/ (Running /\ j = job))

\* No wakeup is lost although notify_one is called outside the lock: when the
\* worker sleeps and there is work (a queued job, or a shutdown to obey), a
\* permit is stored or a caller is still about to store one.
NoLostWakeup ==
    (worker = "parked" /\ (pending # {} \/ isShutdown))
        => (permit \/ toNotify # {} \/ stopper = "notifying")

\* Debounce: per paragraph at most one job waits, and it is the newest one
\* submitted for that paragraph.
NewestWaits ==
    \A j \in pending : \A k \in Submitted :
        (paragraph[k] = paragraph[j]) => k <= j

\* A running job that a newer one for its paragraph supersedes has been told to
\* stop: the window between popping a job and publishing it as active would
\* let the newer job miss it.
SupersededIsSignalled ==
    (Running /\ armed) =>
        \A j \in pending : paragraph[j] # paragraph[job]

\* The statistics account for every answer, whichever path sent it.
CountsMatchAnswers ==
    \A o \in WorkerOutcomes : count[o] = Cardinality({j \in Jobs : answer[j] = o})

\* After shutdown nothing waits in the queue, and once the worker has stopped
\* every caller has its answer.
ShutdownLeavesNobodyWaiting ==
    /\ isShutdown => pending = {}
    /\ worker = "stopped" => Answered = Submitted

\* "Subsequent jobs will immediately use this model": a job never runs with a
\* model that had already been replaced when the job was submitted.
ModelIsCurrent ==
    \A j \in Jobs : used[j] # -1 => used[j] >= since[j]

\* What the worker says of its jobs is so: types, statistics and model.
AccountsAreTrue == TypeOK /\ CountsMatchAnswers /\ ModelIsCurrent

(* Liveness, under FairSpec *)

\* Every caller is eventually answered.
EveryJobIsAnswered ==
    \A j \in Jobs : (j <= nextJob) ~> (answer[j] # Unanswered)

\* shutdown() returns, even when a job is running.
ShutdownReturns == (stopper = "notifying") ~> (stopper = "returned")

-----------------------------------------------------------------------------
(* The queue implements the job board of JobBoard. *)

Phase(j) ==
    CASE answer[j] # Unanswered -> "answered"
      [] answer[j] = Unanswered /\ Running /\ j = job -> "running"
      [] answer[j] = Unanswered /\ ~(Running /\ j = job) /\ j \in pending -> "waiting"
      [] OTHER -> "new"

Board == INSTANCE JobBoard WITH phase <- [j \in Jobs |-> Phase(j)], about <- paragraph

\* Every step of the queue is a step of the board or leaves it alone, and the
\* queue is as live as the board demands.
ImplementsBoard == Board!Spec
=============================================================================
