------------------------------ MODULE JobBoard ------------------------------
(***************************************************************************)
(* What the micro-scoping queue promises the commands that submit to it,   *)
(* without lock, notification, tracker or cancel channel: jobs are taken   *)
(* one at a time and oldest first, a job that still waits when a newer one *)
(* for its paragraph arrives is answered at once, and every job is         *)
(* eventually answered, exactly once.                                      *)
(***************************************************************************)
EXTENDS Integers

CONSTANTS Paragraphs, NoParagraph, MaxJobs

VARIABLES
    phase,   \* phase of every job
    about    \* its paragraph, once submitted

boardVars == <<phase, about>>

BoardJobs == 1 .. MaxJobs
In(ph) == {j \in BoardJobs : phase[j] = ph}

MoveTo(S, ph) == phase' = [j \in BoardJobs |-> IF j \in S THEN ph ELSE phase[j]]

BoardInit ==
    /\ phase = [j \in BoardJobs |-> "new"]
    /\ about = [j \in BoardJobs |-> NoParagraph]

\* The next job arrives; those of its paragraph that wait are answered.
Arrive(j, p) ==
    /\ phase[j] = "new"
    /\ \A k \in In("new") : j <= k
    /\ about' = [about EXCEPT ![j] = p]
    /\ phase' = [k \in BoardJobs |->
                   IF k = j THEN "waiting"
                   ELSE IF phase[k] = "waiting" /\ about[k] = p THEN "answered"
                   ELSE phase[k]]

\* Some waiting jobs are withdrawn, which answers them.
Withdraw(S) ==
    /\ S \subseteq In("waiting")
    /\ MoveTo(S, "answered")
    /\ UNCHANGED about

\* The oldest waiting job starts; only one runs at a time.
Start(j) ==
    /\ In("running") = {}
    /\ j \in In("waiting")
    /\ \A k \in In("waiting") : j <= k
    /\ MoveTo({j}, "running")
    /\ UNCHANGED about

Answer(j) ==
    /\ phase[j] = "running"
    /\ MoveTo({j}, "answered")
    /\ UNCHANGED about

Progress == \E j \in BoardJobs : Start(j) \/ Answer(j)

BoardNext ==
    \/ \E j \in BoardJobs, p \in Paragraphs : Arrive(j, p)
    \/ \E S \in SUBSET BoardJobs : Withdraw(S)
    \/ Progress

SafeSpec == BoardInit /\ [][BoardNext]_boardVars

\* The board keeps moving while a job waits or runs.
Spec == SafeSpec /\ WF_boardVars(Progress)
=============================================================================
