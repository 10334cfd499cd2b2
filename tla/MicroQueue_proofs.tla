------------------------- MODULE MicroQueue_proofs --------------------------
(***************************************************************************)
(* Proofs about MicroQueue, for any set of paragraphs and any MaxJobs and  *)
(* MaxSwitches: the safety invariants the runs check on a small instance   *)
(* hold of every behaviour of Spec.                                        *)
(*                                                                         *)
(* The invariants are not inductive alone: that a job is not lost depends  *)
(* on where the worker is and what the tracker shows.  IInv adds that      *)
(* bookkeeping (Bookkeeping) and is inductive as a whole.                  *)
(***************************************************************************)
EXTENDS MicroQueue, FiniteSetTheorems, TLAPS

\* The ids in use are exactly those drawn; the worker holds a job exactly
\* between popping it and resetting the tracker, which then shows that job.
Bookkeeping ==
    /\ pending \subseteq Submitted
    /\ toNotify \subseteq Submitted
    /\ \A j \in Jobs : j > nextJob => answer[j] = Unanswered
    /\ job = active
    /\ job \in Submitted \cup {NoJob}
    /\ job # NoJob <=> worker \in {"starting", "running", "clearing"}
    /\ job \notin pending
    /\ worker = "stopped" => isShutdown

IInv ==
    /\ TypeOK
    /\ Bookkeeping
    /\ NewestWaits
    /\ SupersededIsSignalled
    /\ NoLostJob
    /\ isShutdown => pending = {}

-----------------------------------------------------------------------------
(* Type correctness *)

LEMMA JobsFinite ==
    ASSUME NEW S \in SUBSET Jobs
    PROVE  Cardinality(S) \in Nat
<1>1. IsFiniteSet(Jobs)
  BY FS_Interval, MaxJobsAssumption DEF Jobs
<1> QED
  BY <1>1, FS_Subset, FS_CardinalityType

\* What withdrawing jobs from the queue does to answers and statistics, the
\* form in which the steps below use it.
LEMMA CancelPendingType ==
    ASSUME TypeOK, NEW S \in SUBSET Jobs, CancelPending(S)
    PROVE  /\ answer' \in [Jobs -> WorkerOutcomes \cup {Unanswered}]
           /\ count' \in [WorkerOutcomes -> Nat]
<1>1. Cardinality(S) \in Nat
  BY JobsFinite
<1> QED
  BY <1>1 DEF CancelPending, TypeOK, WorkerOutcomes

LEMMA InitTypeOK ==
    ASSUME Init
    PROVE  TypeOK
<1> USE MaxJobsAssumption, MaxSwitchesAssumption DEF NoJob
<1>1. 0 \in 0 .. MaxJobs /\ 0 \in 0 .. MaxSwitches /\ -1 \in Int
  OBVIOUS
<1>2. /\ paragraph \in [Jobs -> Paragraphs \cup {NoParagraph}]
      /\ answer \in [Jobs -> WorkerOutcomes \cup {Unanswered}]
      /\ count \in [WorkerOutcomes -> Nat]
  BY DEF Init
<1>3. /\ since \in [Jobs -> 0 .. MaxSwitches]
      /\ used \in [Jobs -> Int]
  BY <1>1 DEF Init
<1> QED
  BY <1>1, <1>2, <1>3 DEF Init, TypeOK

\* Every variable keeps its type, whatever the number of jobs.
THEOREM TypeCorrect == Spec => []TypeOK
<1> USE MaxJobsAssumption, MaxSwitchesAssumption DEF NoJob
<1>1. Init => TypeOK
  BY InitTypeOK
<1>2. TypeOK /\ [Next]_vars => TypeOK'
  <2> SUFFICES ASSUME TypeOK, [Next]_vars
               PROVE  TypeOK'
    OBVIOUS
  <2>1. ASSUME NEW p \in Paragraphs, Submit(p)
        PROVE  TypeOK'
    <3>1. QueuedFor(p) \in SUBSET Jobs
      BY DEF QueuedFor, TypeOK
    <3>2. CancelPending(QueuedFor(p))
      BY <2>1 DEF Submit
    <3>3. nextJob + 1 \in Jobs
      BY <2>1 DEF Submit, TypeOK, Jobs
    <3>4. /\ pending' \subseteq Jobs
          /\ nextJob' \in Jobs
          /\ toNotify' \subseteq Jobs
      BY <2>1, <3>3 DEF TypeOK, Submit
    <3>5. /\ paragraph' \in [Jobs -> Paragraphs \cup {NoParagraph}]
          /\ since' \in [Jobs -> 0 .. MaxSwitches]
      BY <2>1 DEF TypeOK, Submit
    <3>6. /\ answer' \in [Jobs -> WorkerOutcomes \cup {Unanswered}]
          /\ count' \in [WorkerOutcomes -> Nat]
      BY <3>1, <3>2, CancelPendingType
    <3> QED
      BY <2>1, <3>4, <3>5, <3>6 DEF TypeOK, Submit, SignalActive, workerVars, Jobs
  <2>2. ASSUME NEW p \in Paragraphs, CancelParagraph(p)
        PROVE  TypeOK'
    <3>1. QueuedFor(p) \in SUBSET Jobs
      BY DEF QueuedFor, TypeOK
    <3>2. CancelPending(QueuedFor(p))
      BY <2>2 DEF CancelParagraph
    <3> QED
      BY <2>2, <3>1, <3>2, CancelPendingType
      DEF TypeOK, CancelParagraph, SignalActive, workerVars, modelVars
  <2>3. ASSUME NEW j \in Jobs, NotifyAfterSubmit(j)
        PROVE  TypeOK'
    BY <2>3 DEF TypeOK, NotifyAfterSubmit, queueVars, modelVars
  <2>4. CASE Clear
    BY <2>4, CancelPendingType DEF TypeOK, Clear, workerVars, modelVars
  <2>5. CASE SetModel
    BY <2>5 DEF TypeOK, SetModel, queueVars, workerVars, callerVars
  <2>6. CASE Shutdown
    BY <2>6, CancelPendingType DEF TypeOK, Shutdown, workerVars, modelVars
  <2>7. CASE NotifyAfterShutdown
    BY <2>7 DEF TypeOK, NotifyAfterShutdown, queueVars, modelVars
  <2>8. CASE JoinWorker
    BY <2>8 DEF TypeOK, JoinWorker, queueVars, workerVars, modelVars
  <2>9. CASE WorkerStep
    <3>1. CASE StopWorker
      BY <3>1 DEF TypeOK, StopWorker, queueVars, callerVars, modelVars
    <3>2. CASE PopNext
      BY <3>2 DEF TypeOK, PopNext, Front, callerVars, modelVars
    <3>3. CASE Park
      BY <3>3 DEF TypeOK, Park, callerVars, modelVars
    <3>4. CASE Wake
      BY <3>4 DEF TypeOK, Wake, queueVars, callerVars, modelVars
    <3>5. CASE StartInference
      <4>1. used' \in [Jobs -> Int]
        <5>1. model \in Int
          BY DEF TypeOK
        <5>2. used \in [Jobs -> Int]
          BY DEF TypeOK
        <5>3. used' = [used EXCEPT ![job] = model]
          BY <3>5 DEF StartInference, CurrentModel
        <5> QED
          BY <5>1, <5>2, <5>3
      <4> QED
        BY <3>5, <4>1 DEF TypeOK, StartInference, queueVars, callerVars
    <3>6. ASSUME NEW o \in WorkerOutcomes, FinishInference(o)
          PROVE  TypeOK'
      <4>1. answer' \in [Jobs -> WorkerOutcomes \cup {Unanswered}]
        BY <3>6 DEF TypeOK, FinishInference
      <4>2. count' \in [WorkerOutcomes -> Nat]
        <5>1. count' = [count EXCEPT ![o] = @ + 1]
          BY <3>6 DEF FinishInference
        <5> QED
          BY <5>1 DEF TypeOK
      <4> QED
        BY <3>6, <4>1, <4>2 DEF TypeOK, FinishInference, queueVars, modelVars
    <3>7. CASE ClearActive
      BY <3>7 DEF TypeOK, ClearActive, callerVars, modelVars
    <3> QED
      BY <2>9, <3>1, <3>2, <3>3, <3>4, <3>5, <3>6, <3>7 DEF WorkerStep
  <2>10. CASE UNCHANGED vars
    BY <2>10 DEF TypeOK, vars, queueVars, workerVars, callerVars, modelVars
  <2> QED
    BY <2>1, <2>2, <2>3, <2>4, <2>5, <2>6, <2>7, <2>8, <2>9, <2>10 DEF Next
<1> QED
  BY <1>1, <1>2, PTL DEF Spec
-----------------------------------------------------------------------------
(* Wakeups *)

\* A sleeping worker with work to do has a permit, or one is on its way.
LEMMA WakeupStep ==
    ASSUME TypeOK, NoLostWakeup, [Next]_vars
    PROVE  NoLostWakeup'
<1> USE DEF NoLostWakeup
<1>1. ASSUME NEW p \in Paragraphs, Submit(p)
      PROVE  NoLostWakeup'
  BY <1>1 DEF Submit
<1>2. ASSUME NEW p \in Paragraphs, CancelParagraph(p)
      PROVE  NoLostWakeup'
  BY <1>2 DEF CancelParagraph, workerVars
<1>3. ASSUME NEW j \in Jobs, NotifyAfterSubmit(j)
      PROVE  NoLostWakeup'
  BY <1>3 DEF NotifyAfterSubmit
<1>4. CASE Clear
  BY <1>4 DEF Clear, workerVars
<1>5. CASE SetModel
  BY <1>5 DEF SetModel, queueVars, workerVars, callerVars
<1>6. CASE Shutdown
  BY <1>6 DEF Shutdown
<1>7. CASE NotifyAfterShutdown
  BY <1>7 DEF NotifyAfterShutdown
<1>8. CASE JoinWorker
  BY <1>8 DEF JoinWorker, workerVars
<1>9. CASE WorkerStep
  BY <1>9 DEF WorkerStep, StopWorker, PopNext, Park, Wake, StartInference,
              FinishInference, ClearActive
<1>10. CASE UNCHANGED vars
  BY <1>10 DEF vars, queueVars, workerVars, callerVars
<1> QED
  BY <1>1, <1>2, <1>3, <1>4, <1>5, <1>6, <1>7, <1>8, <1>9, <1>10 DEF Next

\* The worker never sleeps through work: callers notify it outside the lock,
\* and whatever the interleaving no notification is lost.
THEOREM WakeupsAreNotLost == Spec => []NoLostWakeup
<1>1. Init => NoLostWakeup
  BY DEF Init, NoLostWakeup
<1>2. TypeOK /\ NoLostWakeup /\ [Next]_vars => NoLostWakeup'
  BY WakeupStep
<1> QED
  BY <1>1, <1>2, TypeCorrect, PTL DEF Spec
-----------------------------------------------------------------------------
(* The inductive invariant, one lemma per part that a step can disturb *)

LEMMA BookkeepingStep ==
    ASSUME TypeOK, Bookkeeping, [Next]_vars
    PROVE  Bookkeeping'
<1> USE DEF Bookkeeping, Submitted
<1>0. nextJob \in Nat /\ Jobs \subseteq Nat
  BY DEF TypeOK, Jobs
<1>a. ASSUME NEW S \in SUBSET pending, CancelPending(S)
      PROVE  \A j \in Jobs : j > nextJob => answer'[j] = Unanswered
  <2>1. \A j \in Jobs : j > nextJob => j \notin S
    BY <1>0
  <2> QED
    BY <1>a, <2>1 DEF CancelPending
<1>1. ASSUME NEW p \in Paragraphs, Submit(p)
      PROVE  Bookkeeping'
  <2>1. /\ nextJob' = nextJob + 1
        /\ pending' = (pending \ QueuedFor(p)) \cup {nextJob + 1}
        /\ toNotify' = toNotify \cup {nextJob + 1}
    BY <1>1 DEF Submit
  <2>a. Submitted' = Submitted \cup {nextJob + 1}
    BY <1>0, <2>1
  <2>2. pending' \subseteq Submitted' /\ toNotify' \subseteq Submitted'
    BY <2>a, <2>1
  <2>3. \A j \in Jobs : j > nextJob' => answer'[j] = Unanswered
    BY <1>1, <1>a, <1>0, <2>1 DEF Submit, QueuedFor
  <2>4. job' = job /\ active' = active /\ worker' = worker /\ isShutdown' = isShutdown
    BY <1>1 DEF Submit, workerVars
  <2>5. job' \in Submitted' \cup {NoJob}
    BY <2>a, <2>4
  <2>6. job' \notin pending'
    BY <1>0, <2>1, <2>4 DEF NoJob
  <2> QED
    BY <2>2, <2>3, <2>4, <2>5, <2>6
<1>2. ASSUME NEW p \in Paragraphs, CancelParagraph(p)
      PROVE  Bookkeeping'
  <2>1. \A j \in Jobs : j > nextJob => answer'[j] = Unanswered
    BY <1>2, <1>a DEF CancelParagraph, QueuedFor
  <2> QED
    BY <1>2, <2>1 DEF CancelParagraph, workerVars
<1>3. ASSUME NEW j \in Jobs, NotifyAfterSubmit(j)
      PROVE  Bookkeeping'
  BY <1>3 DEF NotifyAfterSubmit, queueVars
<1>4. CASE Clear
  <2>1. \A j \in Jobs : j > nextJob => answer'[j] = Unanswered
    BY <1>4, <1>a DEF Clear
  <2> QED
    BY <1>4, <2>1 DEF Clear, workerVars
<1>5. CASE SetModel
  BY <1>5 DEF SetModel, queueVars, workerVars, callerVars
<1>6. CASE Shutdown
  <2>1. \A j \in Jobs : j > nextJob => answer'[j] = Unanswered
    BY <1>6, <1>a DEF Shutdown
  <2> QED
    BY <1>6, <2>1 DEF Shutdown, workerVars
<1>7. CASE NotifyAfterShutdown
  BY <1>7 DEF NotifyAfterShutdown, queueVars
<1>8. CASE JoinWorker
  BY <1>8 DEF JoinWorker, queueVars, workerVars
<1>9. CASE WorkerStep
  <2>1. CASE StopWorker
    BY <2>1 DEF StopWorker, queueVars, callerVars
  <2>2. CASE PopNext
    BY <2>2 DEF PopNext, Front, callerVars, Jobs, NoJob
  <2>3. CASE Park
    BY <2>3 DEF Park, callerVars
  <2>4. CASE Wake
    BY <2>4 DEF Wake, queueVars, callerVars
  <2>5. CASE StartInference
    BY <2>5 DEF StartInference, queueVars, callerVars
  <2>6. ASSUME NEW o \in WorkerOutcomes, FinishInference(o)
        PROVE  Bookkeeping'
    <3>1. job \in Submitted
      BY <2>6 DEF FinishInference
    <3>2. \A j \in Jobs : j > nextJob => answer'[j] = Unanswered
      BY <2>6, <3>1 DEF FinishInference, TypeOK
    <3> QED
      BY <2>6, <3>2 DEF FinishInference, queueVars
  <2>7. CASE ClearActive
    BY <2>7 DEF ClearActive, callerVars, NoJob
  <2> QED
    BY <1>9, <2>1, <2>2, <2>3, <2>4, <2>5, <2>6, <2>7 DEF WorkerStep
<1>10. CASE UNCHANGED vars
  BY <1>10 DEF vars, queueVars, workerVars, callerVars
<1> QED
  BY <1>1, <1>2, <1>3, <1>4, <1>5, <1>6, <1>7, <1>8, <1>9, <1>10 DEF Next

\* Steps other than Submit add nothing to the queue and leave the ids and
\* paragraphs of the submitted jobs alone.
LEMMA QueueShrinks ==
    ASSUME [Next]_vars, \A p \in Paragraphs : ~Submit(p)
    PROVE  /\ pending' \subseteq pending
           /\ nextJob' = nextJob
           /\ paragraph' = paragraph
<1>1. CASE WorkerStep
  BY <1>1 DEF WorkerStep, StopWorker, PopNext, Park, Wake, StartInference,
              FinishInference, ClearActive, queueVars, callerVars
<1>2. CASE UNCHANGED vars
  BY <1>2 DEF vars, queueVars, callerVars
<1> QED
  BY <1>1, <1>2
  DEF Next, CancelParagraph, NotifyAfterSubmit, Clear, SetModel, Shutdown,
      NotifyAfterShutdown, JoinWorker, queueVars, callerVars, QueuedFor

LEMMA NewestWaitsStep ==
    ASSUME TypeOK, Bookkeeping, NewestWaits, [Next]_vars
    PROVE  NewestWaits'
<1>1. ASSUME NEW p \in Paragraphs, Submit(p)
      PROVE  NewestWaits'
  <2> DEFINE new == nextJob + 1
  <2>0. nextJob \in Nat /\ new \in Jobs
    BY <1>1, MaxJobsAssumption DEF Submit, TypeOK, Jobs
  <2>1. /\ nextJob' = new
        /\ pending' = (pending \ QueuedFor(p)) \cup {new}
    BY <1>1 DEF Submit
  <2>2. \A k \in Jobs : paragraph'[k] = IF k = new THEN p ELSE paragraph[k]
    BY <1>1 DEF Submit, TypeOK
  <2>3. ASSUME NEW j \in pending', NEW k \in Submitted',
               paragraph'[k] = paragraph'[j]
        PROVE  k <= j
    <3>1. k \in 1 .. new /\ k \in Jobs
      BY <2>0, <2>1, MaxJobsAssumption DEF Submitted, Jobs
    <3>2. CASE j = new
      BY <3>1, <3>2, <2>0
    <3>3. CASE j # new
      <4>1. j \in pending /\ paragraph[j] # p /\ j \in Jobs
        BY <2>1, <3>3 DEF QueuedFor, TypeOK
      <4>2. k # new
        BY <2>0, <2>2, <2>3, <3>3, <4>1
      <4>3. k \in Submitted
        BY <2>0, <3>1, <4>2 DEF Submitted
      <4>4. paragraph[k] = paragraph[j]
        BY <2>2, <2>3, <3>1, <3>3, <4>1, <4>2
      <4> QED
        BY <4>1, <4>3, <4>4 DEF NewestWaits
    <3> QED
      BY <3>2, <3>3
  <2> QED
    BY <2>3 DEF NewestWaits
<1>2. CASE \A p \in Paragraphs : ~Submit(p)
  BY <1>2, QueueShrinks DEF NewestWaits, Submitted
<1> QED
  BY <1>1, <1>2
\* A newer job for the running paragraph finds the tracker published, because
\* popping a job and publishing it are one acquisition of the lock.
LEMMA SupersededStep ==
    ASSUME TypeOK, Bookkeeping, NewestWaits, SupersededIsSignalled, [Next]_vars
    PROVE  SupersededIsSignalled'
<1> USE DEF SupersededIsSignalled, Running
<1>1. ASSUME NEW p \in Paragraphs, Submit(p)
      PROVE  SupersededIsSignalled'
  <2> DEFINE new == nextJob + 1
  <2> SUFFICES ASSUME worker' \in {"starting", "running"}, armed',
                      NEW j \in pending'
               PROVE  paragraph'[j] # paragraph'[job']
    OBVIOUS
  <2>1. /\ worker' = worker /\ job' = job /\ active = job
        /\ job \in Submitted /\ job # NoJob
    BY <1>1 DEF Submit, workerVars, Bookkeeping
  <2>2. armed /\ paragraph[job] # p
    BY <1>1, <2>1 DEF Submit, SignalActive
  <2>3. nextJob \in Nat /\ new \in Jobs /\ job # new /\ job \in Jobs
    BY <1>1, <2>1, MaxJobsAssumption DEF Submit, TypeOK, Jobs, Submitted
  <2>4. \A k \in Jobs : paragraph'[k] = IF k = new THEN p ELSE paragraph[k]
    BY <1>1 DEF Submit, TypeOK
  <2>5. j = new \/ j \in pending
    BY <1>1 DEF Submit
  <2>6. paragraph'[job'] = paragraph[job]
    BY <2>1, <2>3, <2>4
  <2>7. CASE j = new
    BY <2>2, <2>3, <2>4, <2>6, <2>7
  <2>8. CASE j # new
    <3>1. j \in pending /\ j \in Jobs
      BY <2>5, <2>8 DEF TypeOK
    <3>2. paragraph'[j] = paragraph[j]
      BY <2>4, <2>8, <3>1
    <3> QED
      BY <2>1, <2>2, <2>6, <3>1, <3>2
  <2> QED
    BY <2>7, <2>8
<1>2. CASE PopNext
  <2>1. PICK front \in Jobs : Front(front) /\ pending' = pending \ {front} /\ job' = front
    BY <1>2 DEF PopNext
  <2>2. paragraph' = paragraph
    BY <1>2 DEF PopNext, callerVars
  <2>3. ASSUME NEW j \in pending', paragraph[j] = paragraph[front]
        PROVE  FALSE
    <3>1. j \in pending /\ j # front /\ front <= j
      BY <2>1 DEF Front
    <3>2. j <= front
      BY <2>1, <2>3, <3>1 DEF Front, Bookkeeping, NewestWaits
    <3> QED
      BY <3>1, <3>2 DEF TypeOK, Jobs
  <2> QED
    BY <2>1, <2>2, <2>3
<1>3. CASE (\A p \in Paragraphs : ~Submit(p)) /\ ~PopNext
  <2>1. pending' \subseteq pending /\ paragraph' = paragraph
    BY <1>3, QueueShrinks
  <2>2. Running' /\ armed' => Running /\ armed /\ job' = job
    BY <1>3
    DEF Next, WorkerStep, StopWorker, Park, Wake, StartInference, FinishInference,
        ClearActive, CancelParagraph, NotifyAfterSubmit, Clear, SetModel,
        Shutdown, NotifyAfterShutdown, JoinWorker, SignalActive, vars,
        queueVars, workerVars
  <2> QED
    BY <2>1, <2>2
<1> QED
  BY <1>1, <1>2, <1>3
\* A caller is waiting exactly while its job is queued or in the worker's hands.
LEMMA NoLostJobStep ==
    ASSUME TypeOK, Bookkeeping, NoLostJob, [Next]_vars
    PROVE  NoLostJob'
<1> USE DEF NoLostJob, Running
<1>0. /\ nextJob \in Nat
      /\ Submitted \subseteq Jobs
      /\ pending \subseteq Submitted
  BY MaxJobsAssumption DEF TypeOK, Submitted, Jobs, Bookkeeping
\* Withdrawing S answers the jobs of S, which are not the running one.
<1>a. ASSUME NEW S \in SUBSET pending, CancelPending(S), NEW j \in Submitted
      PROVE  answer'[j] = Unanswered
               <=> (j \in pending \ S \/ (Running /\ j = job))
  <2>1. answer'[j] = IF j \in S THEN "cancelled" ELSE answer[j]
    BY <1>0, <1>a DEF CancelPending
  <2>2. j \in S => j # job
    BY DEF Bookkeeping
  <2> QED
    BY <2>1, <2>2 DEF Unanswered
<1>1. ASSUME NEW p \in Paragraphs, Submit(p)
      PROVE  NoLostJob'
  <2> DEFINE new == nextJob + 1
             S == QueuedFor(p)
  <2>1. /\ S \in SUBSET pending /\ CancelPending(S)
        /\ pending' = (pending \ S) \cup {new} /\ nextJob' = new
        /\ worker' = worker /\ job' = job
    BY <1>1 DEF Submit, QueuedFor, workerVars
  <2>2. Submitted' = Submitted \cup {new} /\ new \notin Submitted /\ new \in Jobs
    BY <1>0, <1>1, <2>1, MaxJobsAssumption DEF Submit, Submitted, Jobs, TypeOK
  <2>3. answer'[new] = Unanswered
    BY <1>0, <2>1, <2>2 DEF CancelPending, Bookkeeping
  <2>4. ASSUME NEW j \in Submitted
        PROVE  answer'[j] = Unanswered
                 <=> (j \in pending' \/ (Running' /\ j = job'))
    BY <1>a, <2>1, <2>2
  <2> QED
    BY <2>1, <2>2, <2>3, <2>4
<1>2. ASSUME NEW p \in Paragraphs, CancelParagraph(p)
      PROVE  NoLostJob'
  <2>1. QueuedFor(p) \in SUBSET pending /\ CancelPending(QueuedFor(p))
    BY <1>2 DEF CancelParagraph, QueuedFor
  <2> QED
    BY <1>2, <1>a, <2>1 DEF CancelParagraph, workerVars, Submitted
<1>3. CASE Clear
  BY <1>3, <1>a DEF Clear, workerVars, Submitted
<1>4. CASE Shutdown
  BY <1>4, <1>a DEF Shutdown, workerVars, Submitted
<1>5. CASE PopNext
  BY <1>0, <1>5 DEF PopNext, Front, callerVars, Submitted, Bookkeeping
<1>6. ASSUME NEW o \in WorkerOutcomes, FinishInference(o)
      PROVE  NoLostJob'
  <2>1. /\ job \in Submitted /\ job \notin pending
        /\ o # Unanswered
    BY <1>6 DEF FinishInference, Bookkeeping, WorkerOutcomes, Unanswered
  <2>2. \A j \in Submitted : answer'[j] = IF j = job THEN o ELSE answer[j]
    BY <1>0, <1>6, <2>1 DEF FinishInference, TypeOK
  <2> QED
    BY <1>6, <2>1, <2>2 DEF FinishInference, queueVars, Submitted
<1>7. CASE StopWorker \/ Park \/ Wake \/ StartInference \/ ClearActive
  BY <1>7 DEF StopWorker, Park, Wake, StartInference, ClearActive, queueVars,
              callerVars, Submitted
<1>8. CASE SetModel \/ NotifyAfterShutdown \/ JoinWorker \/ UNCHANGED vars
  BY <1>8 DEF SetModel, NotifyAfterShutdown, JoinWorker, vars, queueVars,
              workerVars, callerVars, Submitted
<1>9. ASSUME NEW j \in Jobs, NotifyAfterSubmit(j)
      PROVE  NoLostJob'
  BY <1>9 DEF NotifyAfterSubmit, queueVars, Submitted
<1> QED
  BY <1>1, <1>2, <1>3, <1>4, <1>5, <1>6, <1>7, <1>8, <1>9 DEF Next, WorkerStep

LEMMA ShutdownStep ==
    ASSUME isShutdown => pending = {}, [Next]_vars
    PROVE  isShutdown' => pending' = {}
<1>1. ASSUME NEW p \in Paragraphs, Submit(p)
      PROVE  ~isShutdown'
  BY <1>1 DEF Submit, Accepting
<1>2. CASE \A p \in Paragraphs : ~Submit(p)
  <2>1. pending' \subseteq pending
    BY <1>2, QueueShrinks
  <2>2. isShutdown' = isShutdown \/ Shutdown
    BY <1>2
    DEF Next, WorkerStep, StopWorker, PopNext, Park, Wake, StartInference,
        FinishInference, ClearActive, CancelParagraph, NotifyAfterSubmit, Clear,
        SetModel, NotifyAfterShutdown, JoinWorker, vars, queueVars
  <2> QED
    BY <2>1, <2>2 DEF Shutdown
<1> QED
  BY <1>1, <1>2

-----------------------------------------------------------------------------
(* The theorems *)

THEOREM Inductive == Spec => []IInv
<1>1. Init => IInv
  <2> SUFFICES ASSUME Init
               PROVE  Bookkeeping /\ NewestWaits /\ SupersededIsSignalled
                      /\ NoLostJob /\ (isShutdown => pending = {})
    BY InitTypeOK DEF IInv
  <2>1. Submitted = {}
    BY DEF Init, Submitted
  <2> QED
    BY <2>1 DEF Init, Bookkeeping, NewestWaits, SupersededIsSignalled, Running,
                NoLostJob, NoJob
<1>2. TypeOK /\ TypeOK' /\ IInv /\ [Next]_vars => IInv'
  BY BookkeepingStep, NewestWaitsStep, SupersededStep, NoLostJobStep,
     ShutdownStep DEF IInv
<1> QED
  BY <1>1, <1>2, TypeCorrect, PTL DEF Spec

\* No path through the queue drops a job without answering its caller, and none
\* answers it while the job is still queued or running.
THEOREM JobsAreNotLost == Spec => []NoLostJob
<1>1. IInv => NoLostJob
  BY DEF IInv
<1> QED
  BY <1>1, Inductive, PTL

\* Debounce: whatever the callers do, per paragraph only the newest job waits.
THEOREM OnlyNewestWaits == Spec => []NewestWaits
<1>1. IInv => NewestWaits
  BY DEF IInv
<1> QED
  BY <1>1, Inductive, PTL

\* A superseded running job has always been signalled.
THEOREM SupersededAreSignalled == Spec => []SupersededIsSignalled
<1>1. IInv => SupersededIsSignalled
  BY DEF IInv
<1> QED
  BY <1>1, Inductive, PTL

\* After shutdown nothing is queued, and a stopped worker leaves no caller
\* without an answer.
THEOREM ShutdownAnswersEveryone == Spec => []ShutdownLeavesNobodyWaiting
<1>1. IInv => ShutdownLeavesNobodyWaiting
  <2> SUFFICES ASSUME IInv, worker = "stopped"
               PROVE  Answered = Submitted
    BY DEF IInv, ShutdownLeavesNobodyWaiting
  <2>1. pending = {} /\ ~Running
    BY DEF IInv, Bookkeeping, Running
  <2>2. \A j \in Submitted : answer[j] # Unanswered
    BY <2>1 DEF IInv, NoLostJob
  <2>3. \A j \in Jobs : j \in Submitted \/ j > nextJob
    BY DEF IInv, TypeOK, Jobs, Submitted
  <2>4. Submitted \subseteq Jobs
    BY MaxJobsAssumption DEF IInv, TypeOK, Jobs, Submitted
  <2> QED
    BY <2>2, <2>3, <2>4 DEF IInv, Bookkeeping, Answered
<1> QED
  BY <1>1, Inductive, PTL
-----------------------------------------------------------------------------
(* The statistics and the model *)

\* A model is only ever replaced by a later one, and a job that was not drawn yet
\* was not run: with this ModelIsCurrent is inductive.
ModelBook ==
    /\ \A j \in Jobs : since[j] <= model
    /\ \A j \in Jobs : used[j] # -1 => j <= nextJob

\* Withdrawing waiting jobs, which have no answer yet, moves exactly them into
\* the set the counter of cancelled jobs stands for.
LEMMA CancelPendingCounts ==
    ASSUME IInv, CountsMatchAnswers, NEW S \in SUBSET pending, CancelPending(S)
    PROVE  CountsMatchAnswers'
<1>1. S \subseteq Jobs /\ \A j \in S : answer[j] = Unanswered
  BY MaxJobsAssumption DEF IInv, TypeOK, Bookkeeping, NoLostJob, Submitted, Jobs
<1>2. \A j \in Jobs : answer'[j] = IF j \in S THEN "cancelled" ELSE answer[j]
  BY DEF CancelPending
<1>3. ASSUME NEW o \in WorkerOutcomes, o # "cancelled"
      PROVE  count'[o] = Cardinality({j \in Jobs : answer'[j] = o})
  <2>1. {j \in Jobs : answer'[j] = o} = {j \in Jobs : answer[j] = o}
    BY <1>1, <1>2, <1>3 DEF WorkerOutcomes, Unanswered
  <2>2. count'[o] = count[o]
    BY <1>3 DEF CancelPending, IInv, TypeOK
  <2> QED
    BY <2>1, <2>2 DEF CountsMatchAnswers
<1>4. count'["cancelled"] = Cardinality({j \in Jobs : answer'[j] = "cancelled"})
  <2> DEFINE Old == {j \in Jobs : answer[j] = "cancelled"}
  <2>1. {j \in Jobs : answer'[j] = "cancelled"} = Old \cup S
    BY <1>1, <1>2
  <2>2. Old \cap S = {}
    BY <1>1 DEF Unanswered
  <2>3. IsFiniteSet(Jobs)
    BY FS_Interval, MaxJobsAssumption DEF Jobs
  <2>4. IsFiniteSet(Old) /\ IsFiniteSet(S)
    BY <1>1, <2>3, FS_Subset
  <2>5. Cardinality(Old \cup S) = Cardinality(Old) + Cardinality(S)
    <3>1. Cardinality(Old \cup S) = Cardinality(Old) + Cardinality(S) - Cardinality(Old \cap S)
      BY <2>4, FS_Union
    <3>2. Cardinality(Old \cap S) = 0
      BY <2>2, FS_EmptySet
    <3>3. Cardinality(Old) \in Nat /\ Cardinality(S) \in Nat
      BY <2>4, FS_CardinalityType
    <3> QED
      BY <3>1, <3>2, <3>3
  <2>6. count'["cancelled"] = count["cancelled"] + Cardinality(S)
    BY DEF CancelPending, IInv, TypeOK, WorkerOutcomes
  <2>7. count["cancelled"] = Cardinality(Old)
    BY DEF CountsMatchAnswers, WorkerOutcomes
  <2> QED
    BY <2>1, <2>5, <2>6, <2>7
<1> QED
  BY <1>3, <1>4 DEF CountsMatchAnswers

\* The end of an inference adds one answer and counts it once.
LEMMA FinishInferenceCounts ==
    ASSUME IInv, CountsMatchAnswers, NEW o \in WorkerOutcomes, FinishInference(o)
    PROVE  CountsMatchAnswers'
<1>1. job \in Jobs /\ answer[job] = Unanswered
  BY MaxJobsAssumption
  DEF FinishInference, IInv, TypeOK, Bookkeeping, NoLostJob, Running, Submitted, Jobs, NoJob
<1>2. \A j \in Jobs : answer'[j] = IF j = job THEN o ELSE answer[j]
  BY <1>1 DEF FinishInference, IInv, TypeOK
<1>3. \A q \in WorkerOutcomes : count'[q] = IF q = o THEN count[q] + 1 ELSE count[q]
  BY DEF FinishInference, IInv, TypeOK
<1>4. ASSUME NEW q \in WorkerOutcomes, q # o
      PROVE  count'[q] = Cardinality({j \in Jobs : answer'[j] = q})
  <2>1. {j \in Jobs : answer'[j] = q} = {j \in Jobs : answer[j] = q}
    BY <1>1, <1>2, <1>4 DEF WorkerOutcomes, Unanswered
  <2> QED
    BY <1>3, <1>4, <2>1 DEF CountsMatchAnswers
<1>5. count'[o] = Cardinality({j \in Jobs : answer'[j] = o})
  <2> DEFINE Old == {j \in Jobs : answer[j] = o}
  <2>1. {j \in Jobs : answer'[j] = o} = Old \cup {job} /\ job \notin Old
    BY <1>1, <1>2 DEF WorkerOutcomes, Unanswered
  <2>2. IsFiniteSet(Old)
    <3>1. IsFiniteSet(Jobs)
      BY FS_Interval, MaxJobsAssumption DEF Jobs
    <3> QED
      BY <3>1, FS_Subset
  <2>3. Cardinality(Old \cup {job}) = Cardinality(Old) + 1
    BY <2>1, <2>2, FS_AddElement
  <2>4. count[o] = Cardinality(Old)
    BY DEF CountsMatchAnswers
  <2> QED
    BY <1>3, <2>1, <2>3, <2>4
<1> QED
  BY <1>4, <1>5 DEF CountsMatchAnswers

LEMMA CountsStep ==
    ASSUME IInv, CountsMatchAnswers, [Next]_vars
    PROVE  CountsMatchAnswers'
<1>1. ASSUME NEW p \in Paragraphs, Submit(p) \/ CancelParagraph(p)
      PROVE  CountsMatchAnswers'
  <2>1. QueuedFor(p) \in SUBSET pending /\ CancelPending(QueuedFor(p))
    BY <1>1 DEF Submit, CancelParagraph, QueuedFor
  <2> QED
    BY <2>1, CancelPendingCounts
<1>2. CASE Clear \/ Shutdown
  BY <1>2, CancelPendingCounts DEF Clear, Shutdown
<1>3. ASSUME NEW o \in WorkerOutcomes, FinishInference(o)
      PROVE  CountsMatchAnswers'
  BY <1>3, FinishInferenceCounts
<1>4. CASE UNCHANGED <<answer, count>>
  BY <1>4 DEF CountsMatchAnswers
<1>5. ASSUME NEW j \in Jobs, NotifyAfterSubmit(j)
      PROVE  UNCHANGED <<answer, count>>
  BY <1>5 DEF NotifyAfterSubmit
<1>6. SetModel \/ NotifyAfterShutdown \/ JoinWorker \/ StopWorker \/ PopNext \/ Park
      \/ Wake \/ StartInference \/ ClearActive \/ UNCHANGED vars
        => UNCHANGED <<answer, count>>
  BY DEF SetModel, NotifyAfterShutdown, JoinWorker, StopWorker, PopNext, Park, Wake,
         StartInference, ClearActive, callerVars, vars
<1> QED
  BY <1>1, <1>2, <1>3, <1>4, <1>5, <1>6 DEF Next, WorkerStep

LEMMA ModelStep ==
    ASSUME IInv, ModelBook, ModelIsCurrent, [Next]_vars
    PROVE  ModelBook' /\ ModelIsCurrent'
<1> USE MaxJobsAssumption, MaxSwitchesAssumption
<1>0. /\ model \in Nat /\ nextJob \in Nat
      /\ since \in [Jobs -> 0 .. MaxSwitches] /\ used \in [Jobs -> Int]
      /\ Jobs \subseteq Nat
      /\ \A j \in Jobs : since[j] \in Nat /\ used[j] \in Int
  BY DEF IInv, TypeOK, Jobs
<1>1. ASSUME NEW p \in Paragraphs, Submit(p)
      PROVE  ModelBook' /\ ModelIsCurrent'
  <2>1. /\ model' = model /\ used' = used /\ nextJob' = nextJob + 1
        /\ \A j \in Jobs : since'[j] = IF j = nextJob + 1 THEN model ELSE since[j]
    BY <1>0, <1>1 DEF Submit
  <2>2. nextJob + 1 \in Jobs => used[nextJob + 1] = -1
    BY <1>0 DEF ModelBook
  <2> QED
    BY <1>0, <2>1, <2>2 DEF ModelBook, ModelIsCurrent
<1>2. CASE SetModel
  BY <1>0, <1>2 DEF SetModel, ModelBook, ModelIsCurrent, queueVars
<1>3. CASE StartInference
  <2>1. job \in Jobs /\ job <= nextJob
    BY <1>0, <1>3 DEF StartInference, IInv, TypeOK, Bookkeeping, Submitted, NoJob
  <2>2. /\ model' = model /\ since' = since /\ nextJob' = nextJob
        /\ \A j \in Jobs : used'[j] = IF j = job THEN model ELSE used[j]
    BY <1>0, <1>3 DEF StartInference, CurrentModel, queueVars
  <2> QED
    BY <1>0, <2>1, <2>2 DEF ModelBook, ModelIsCurrent
<1>4. CASE UNCHANGED <<model, since, used, nextJob>>
  BY <1>4 DEF ModelBook, ModelIsCurrent
<1>5. ASSUME NEW p \in Paragraphs, CancelParagraph(p)
      PROVE  UNCHANGED <<model, since, used, nextJob>>
  BY <1>5 DEF CancelParagraph, modelVars
<1>6. ASSUME NEW j \in Jobs, NotifyAfterSubmit(j)
      PROVE  UNCHANGED <<model, since, used, nextJob>>
  BY <1>6 DEF NotifyAfterSubmit, modelVars, queueVars
<1>7. ASSUME NEW o \in WorkerOutcomes, FinishInference(o)
      PROVE  UNCHANGED <<model, since, used, nextJob>>
  BY <1>7 DEF FinishInference, modelVars, queueVars
<1>8. Clear \/ Shutdown \/ NotifyAfterShutdown \/ JoinWorker \/ StopWorker \/ PopNext
      \/ Park \/ Wake \/ ClearActive \/ UNCHANGED vars
        => UNCHANGED <<model, since, used, nextJob>>
  BY DEF Clear, Shutdown, NotifyAfterShutdown, JoinWorker, StopWorker, PopNext, Park,
         Wake, ClearActive, vars, modelVars, queueVars
<1> QED
  BY <1>1, <1>2, <1>3, <1>4, <1>5, <1>6, <1>7, <1>8 DEF Next, WorkerStep

\* What the worker says of its jobs is so: the counters of get_stats() add up to the
\* answers that were sent on every path, and no job runs with a model that had been
\* replaced before it was submitted.
THEOREM AccountsAreCorrect == Spec => []AccountsAreTrue
<1>1. Init => CountsMatchAnswers /\ ModelBook /\ ModelIsCurrent
  <2> SUFFICES ASSUME Init
               PROVE  CountsMatchAnswers /\ ModelBook /\ ModelIsCurrent
    OBVIOUS
  <2>1. ASSUME NEW o \in WorkerOutcomes
        PROVE  count[o] = Cardinality({j \in Jobs : answer[j] = o})
    <3>1. {j \in Jobs : answer[j] = o} = {}
      BY DEF Init, WorkerOutcomes, Unanswered
    <3> QED
      BY <3>1, FS_EmptySet DEF Init
  <2> QED
    BY <2>1 DEF Init, CountsMatchAnswers, ModelBook, ModelIsCurrent
<1>2. IInv /\ CountsMatchAnswers /\ ModelBook /\ ModelIsCurrent /\ [Next]_vars
        => CountsMatchAnswers' /\ ModelBook' /\ ModelIsCurrent'
  BY CountsStep, ModelStep
<1>3. IInv /\ CountsMatchAnswers /\ ModelIsCurrent => AccountsAreTrue
  BY DEF IInv, AccountsAreTrue
<1> QED
  BY <1>1, <1>2, <1>3, Inductive, PTL DEF Spec

-----------------------------------------------------------------------------
(* The queue implements the job board *)

Phases == [j \in Jobs |-> Phase(j)]

\* What the phase of a job says of the queue; the second lemma is the first
\* about the next state.
LEMMA PhaseSays ==
    ASSUME IInv, NEW j \in Jobs
    PROVE  /\ Phases[j] = "answered" <=> answer[j] # Unanswered
           /\ Phases[j] = "running" <=> answer[j] = Unanswered /\ Running /\ j = job
           /\ Phases[j] = "waiting" <=> j \in pending
           /\ Phases[j] = "new" <=> j > nextJob
           /\ Phases[j] \in {"answered", "running", "waiting", "new"}
<1>1. /\ j \in pending => answer[j] = Unanswered /\ ~(Running /\ j = job) /\ j \in Submitted
      /\ Running /\ j = job => j \in Submitted
      /\ j \in Submitted =>
           (answer[j] = Unanswered <=> (j \in pending \/ (Running /\ j = job)))
      /\ j > nextJob => answer[j] = Unanswered
      /\ j \in Submitted <=> ~(j > nextJob)
  BY MaxJobsAssumption
  DEF IInv, TypeOK, Bookkeeping, NoLostJob, Submitted, Jobs, NoJob
<1> QED
  BY <1>1 DEF Phases, Phase

LEMMA PhaseWillSay ==
    ASSUME IInv', NEW j \in Jobs
    PROVE  /\ Phases'[j] = "answered" <=> answer'[j] # Unanswered
           /\ Phases'[j] = "running" <=> answer'[j] = Unanswered /\ Running' /\ j = job'
           /\ Phases'[j] = "waiting" <=> j \in pending'
           /\ Phases'[j] = "new" <=> j > nextJob'
           /\ Phases'[j] \in {"answered", "running", "waiting", "new"}
<1>1. /\ j \in pending' => answer'[j] = Unanswered /\ ~(Running' /\ j = job') /\ j \in Submitted'
      /\ Running' /\ j = job' => j \in Submitted'
      /\ j \in Submitted' =>
           (answer'[j] = Unanswered <=> (j \in pending' \/ (Running' /\ j = job')))
      /\ j > nextJob' => answer'[j] = Unanswered
      /\ j \in Submitted' <=> ~(j > nextJob')
  BY MaxJobsAssumption
  DEF IInv, TypeOK, Bookkeeping, NoLostJob, Submitted, Jobs, NoJob
<1> QED
  BY <1>1 DEF Phases, Phase

\* Two descriptions of the phases of the next state agree when they agree on
\* every job.
LEMMA PhasesAre ==
    ASSUME NEW f, f = [j \in Jobs |-> f[j]], \A j \in Jobs : Phases'[j] = f[j]
    PROVE  Phases' = f
BY DEF Phases

\* submit() is the arrival of the next job.
LEMMA SubmitArrives ==
    ASSUME IInv, IInv', NEW p \in Paragraphs, Submit(p)
    PROVE  \E j \in Jobs : Board!Arrive(j, p)
<1> DEFINE new == nextJob + 1
           After == [k \in Jobs |->
                       IF k = new THEN "waiting"
                       ELSE IF Phases[k] = "waiting" /\ paragraph[k] = p THEN "answered"
                       ELSE Phases[k]]
<1>1. new \in Jobs /\ Jobs \subseteq Nat /\ nextJob \in Nat
  BY MaxJobsAssumption DEF Submit, IInv, TypeOK, Jobs
<1>2. Phases[new] = "new" /\ \A k \in Jobs : Phases[k] = "new" => new <= k
  BY <1>1, PhaseSays
<1>3. /\ pending' = (pending \ QueuedFor(p)) \cup {new}
      /\ nextJob' = new
      /\ \A k \in Jobs : answer'[k] = IF k \in QueuedFor(p) THEN "cancelled" ELSE answer[k]
      /\ worker' = worker /\ job' = job
      /\ paragraph' = [paragraph EXCEPT ![new] = p]
  BY DEF Submit, CancelPending, workerVars
<1>4. ASSUME NEW k \in Jobs
      PROVE  Phases'[k] = After[k]
  <2>1. k \in QueuedFor(p) <=> Phases[k] = "waiting" /\ paragraph[k] = p
    BY PhaseSays DEF QueuedFor
  <2>2. CASE k = new
    BY <1>3, <2>2, PhaseWillSay
  <2>3. CASE k # new /\ k \in QueuedFor(p)
    BY <1>3, <2>1, <2>3, PhaseWillSay DEF Unanswered
  <2>4. CASE k # new /\ k \notin QueuedFor(p)
    <3>1. Running' = Running
      BY <1>3 DEF Running
    <3>2. k \in pending' <=> k \in pending
      BY <1>3, <2>4
    <3>3. answer'[k] = answer[k]
      BY <1>3, <2>4
    <3>4. k > nextJob' <=> k > nextJob
      BY <1>1, <1>3, <2>4
    <3>5. Phases'[k] = Phases[k]
      BY <1>3, <3>1, <3>2, <3>3, <3>4, PhaseSays, PhaseWillSay
    <3> QED
      BY <2>1, <2>4, <3>5
  <2> QED
    BY <2>2, <2>3, <2>4
<1>5. Phases' = After
  BY <1>4, PhasesAre
<1> QED
  BY <1>1, <1>2, <1>3, <1>5
  DEF Board!Arrive, Board!In, Board!BoardJobs, Phases, Jobs

\* cancel_paragraph(), clear() and shutdown() withdraw waiting jobs.
LEMMA RemovalWithdraws ==
    ASSUME IInv, IInv', NEW S \in SUBSET pending, CancelPending(S),
           pending' = pending \ S, UNCHANGED <<nextJob, worker, job, paragraph>>
    PROVE  \E W \in SUBSET Jobs : Board!Withdraw(W)
<1> DEFINE After == [k \in Jobs |-> IF k \in S THEN "answered" ELSE Phases[k]]
<1>1. S \subseteq Jobs /\ \A k \in S : Phases[k] = "waiting"
  BY PhaseSays DEF IInv, TypeOK
<1>2. ASSUME NEW k \in Jobs
      PROVE  Phases'[k] = After[k]
  <2>1. answer'[k] = IF k \in S THEN "cancelled" ELSE answer[k]
    BY DEF CancelPending
  <2>2. Running' = Running
    BY DEF Running
  <2>3. CASE k \in S
    BY <2>1, <2>3, PhaseWillSay DEF Unanswered
  <2>4. CASE k \notin S
    <3>1. Phases'[k] = Phases[k]
      BY <2>1, <2>2, <2>4, PhaseSays, PhaseWillSay
    <3> QED
      BY <2>4, <3>1
  <2> QED
    BY <2>3, <2>4
<1>3. Phases' = After
  BY <1>2, PhasesAre
<1> QED
  BY <1>1, <1>3 DEF Board!Withdraw, Board!MoveTo, Board!In, Board!BoardJobs, Phases, Jobs

\* Popping the front job is the start of the oldest waiting one, and only then
\* does a job run.
LEMMA PopStarts ==
    ASSUME IInv, IInv', PopNext
    PROVE  \E j \in Jobs : Board!Start(j)
<1>1. PICK front \in Jobs : Front(front) /\ pending' = pending \ {front} /\ job' = front
  BY DEF PopNext
<1> DEFINE After == [k \in Jobs |-> IF k \in {front} THEN "running" ELSE Phases[k]]
<1>2. ~Running /\ Running' /\ answer' = answer /\ nextJob' = nextJob
  BY DEF PopNext, Running, callerVars
<1>3. \A k \in Jobs : Phases[k] # "running"
  BY <1>2, PhaseSays
<1>4. Phases[front] = "waiting" /\ \A k \in Jobs : Phases[k] = "waiting" => front <= k
  BY <1>1, PhaseSays DEF Front
<1>5. ASSUME NEW k \in Jobs
      PROVE  Phases'[k] = After[k]
  <2>1. answer'[front] = Unanswered
    BY <1>1, <1>2, <1>4, PhaseSays
  <2>2. CASE k = front
    BY <1>1, <1>2, <2>1, <2>2, PhaseWillSay
  <2>3. CASE k # front
    <3>1. Phases'[k] = Phases[k]
      BY <1>1, <1>2, <2>3, PhaseSays, PhaseWillSay
    <3> QED
      BY <2>3, <3>1
  <2> QED
    BY <2>2, <2>3
<1>6. Phases' = After
  BY <1>5, PhasesAre
<1>7. paragraph' = paragraph
  BY DEF PopNext, callerVars
<1> QED
  BY <1>3, <1>4, <1>6, <1>7
  DEF Board!Start, Board!MoveTo, Board!In, Board!BoardJobs, Phases, Jobs

\* However the inference ends, the running job is answered.
LEMMA FinishAnswers ==
    ASSUME IInv, IInv', NEW o \in WorkerOutcomes, FinishInference(o)
    PROVE  \E j \in Jobs : Board!Answer(j)
<1> DEFINE After == [k \in Jobs |-> IF k \in {job} THEN "answered" ELSE Phases[k]]
<1>1. job \in Jobs /\ Running
  BY MaxJobsAssumption
  DEF FinishInference, IInv, TypeOK, Bookkeeping, Running, Submitted, Jobs, NoJob
<1>2. /\ answer' = [answer EXCEPT ![job] = o]
      /\ ~Running' /\ nextJob' = nextJob /\ pending' = pending
      /\ paragraph' = paragraph
  BY DEF FinishInference, Running, queueVars
<1>3. answer[job] = Unanswered
  BY <1>1 DEF IInv, Bookkeeping, NoLostJob, Running, NoJob, Jobs
<1>4. Phases[job] = "running"
  BY <1>1, <1>3, PhaseSays
<1>5. ASSUME NEW k \in Jobs
      PROVE  Phases'[k] = After[k]
  <2>1. answer'[k] = IF k = job THEN o ELSE answer[k]
    BY <1>1, <1>2 DEF IInv, TypeOK
  <2>2. CASE k = job
    BY <2>1, <2>2, PhaseWillSay DEF WorkerOutcomes, Unanswered
  <2>3. CASE k # job
    <3>1. Phases'[k] = Phases[k]
      BY <1>2, <2>1, <2>3, PhaseSays, PhaseWillSay
    <3> QED
      BY <2>3, <3>1
  <2> QED
    BY <2>2, <2>3
<1>6. Phases' = After
  BY <1>5, PhasesAre
<1> QED
  BY <1>1, <1>2, <1>4, <1>6
  DEF Board!Answer, Board!MoveTo, Board!In, Board!BoardJobs, Phases, Jobs

\* A step that keeps the queue, the answers and the job that runs is none of
\* the board's.
LEMMA OthersStutter ==
    ASSUME UNCHANGED <<answer, pending, paragraph>>, Running' = Running,
           Running => job' = job
    PROVE  UNCHANGED Board!boardVars
BY DEF Board!boardVars, Phase

LEMMA StepIsBoardStep ==
    ASSUME IInv, IInv', [Next]_vars
    PROVE  [Board!BoardNext]_(Board!boardVars)
<1>1. ASSUME NEW p \in Paragraphs, Submit(p)
      PROVE  Board!BoardNext
  BY <1>1, SubmitArrives DEF Board!BoardNext, Board!BoardJobs, Jobs
<1>2. ASSUME NEW p \in Paragraphs, CancelParagraph(p)
      PROVE  Board!BoardNext
  <2>1. QueuedFor(p) \in SUBSET pending
    BY DEF QueuedFor
  <2> QED
    BY <1>2, <2>1, RemovalWithdraws
    DEF CancelParagraph, workerVars, Board!BoardNext, Board!BoardJobs, Jobs
<1>3. CASE Clear \/ Shutdown
  <2>1. pending' = pending \ pending
    BY <1>3 DEF Clear, Shutdown
  <2> QED
    BY <1>3, <2>1, RemovalWithdraws
    DEF Clear, Shutdown, workerVars, Board!BoardNext, Board!BoardJobs, Jobs
<1>4. CASE PopNext
  BY <1>4, PopStarts DEF Board!BoardNext, Board!Progress, Board!BoardJobs, Jobs
<1>5. ASSUME NEW o \in WorkerOutcomes, FinishInference(o)
      PROVE  Board!BoardNext
  BY <1>5, FinishAnswers DEF Board!BoardNext, Board!Progress, Board!BoardJobs, Jobs
<1>6. ASSUME NEW j \in Jobs, NotifyAfterSubmit(j)
      PROVE  UNCHANGED Board!boardVars
  BY <1>6, OthersStutter DEF NotifyAfterSubmit, queueVars, Running
<1>7. CASE SetModel \/ NotifyAfterShutdown \/ JoinWorker \/ UNCHANGED vars
  BY <1>7, OthersStutter
  DEF SetModel, NotifyAfterShutdown, JoinWorker, vars, queueVars, workerVars,
      callerVars, Running
<1>8. CASE StopWorker \/ Park \/ Wake \/ StartInference \/ ClearActive
  BY <1>8, OthersStutter
  DEF StopWorker, Park, Wake, StartInference, ClearActive, queueVars, callerVars, Running
<1> QED
  BY <1>1, <1>2, <1>3, <1>4, <1>5, <1>6, <1>7, <1>8 DEF Next, WorkerStep

\* The queue is the job board its callers are promised: whatever lock, tracker
\* and signals do in between, jobs arrive in order, the oldest one starts, one at
\* a time, the debounced ones are answered at once and no job is answered twice.
THEOREM QueueIsABoard == Spec => Board!SafeSpec
<1>1. Init => Board!BoardInit
  <2> SUFFICES ASSUME Init
               PROVE  Board!BoardInit
    OBVIOUS
  <2>1. \A j \in Jobs : Phase(j) = "new"
    BY DEF Init, Phase, Running
  <2> QED
    BY <2>1 DEF Init, Board!BoardInit, Board!BoardJobs, Jobs
<1>2. IInv /\ IInv' /\ [Next]_vars => [Board!BoardNext]_(Board!boardVars)
  BY StepIsBoardStep
<1> QED
  BY <1>1, <1>2, Inductive, PTL DEF Spec, Board!SafeSpec
=============================================================================
