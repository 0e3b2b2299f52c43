------------------------------ MODULE QueueDrain ------------------------------
(***************************************************************************)
(* One process draining a work queue: the loop of Runner.Run and the       *)
(* switch of Runner.runOne (internal/unattended/runner.go), with what an   *)
(* execution means taken from ControllerResult and everything durable left *)
(* out.  A run may start from whatever an earlier process of it left in    *)
(* the journal.                                                            *)
(***************************************************************************)
EXTENDS WorkQueue, ControllerResult

CONSTANTS
    Supervised,     \* the tasks that declare a structured result
    LeftoverResumes \* bound on the resumes an earlier process recorded

ASSUME SupervisedAssumption == Supervised \subseteq Tasks /\ LeftoverResumes \in Nat

VARIABLES
    q,      \* the queue
    stop,   \* why the run left the loop early, "none" while it has not
    last    \* the last drive: the task, what its result said, what it meant

vars == <<q, stop, last>>

NoDrive == [task |-> 0, said |-> "nothing", capped |-> FALSE, class |-> "none"]

\* What an earlier process of the run can have left in the journal: work done in
\* the order of the plan, an attempt or two, and resumes up to one over budget.
Leftovers ==
    {rs \in [succeeded : SUBSET Tasks, attempts : [Tasks -> 0 .. 1],
             resumes : [Tasks -> 0 .. LeftoverResumes]] :
        \A t \in Tasks :
            /\ t \in rs.succeeded => Needs[t] \subseteq rs.succeeded
            /\ rs.attempts[t] + rs.resumes[t] > 0 => Needs[t] \subseteq rs.succeeded
            /\ rs.resumes[t] <= MaxResumes[t] + 1}

Init ==
    /\ \E B \in SUBSET Bounded, rs \in Leftovers :
          q = Restore(NewQueue(B), rs)
    /\ stop = "none"
    /\ last = NoDrive

\* driveAgain
DriveAgain(t) ==
    LET q1 == RecordResume(q, t) IN IF MayResume(q1, t) THEN q1 ELSE Hold(q1, t)

\* The queue after one drive of t that meant v.
Settle(t, v) ==
    CASE v.disposition = "succeeded"     -> RecordSuccess(q, t)
      [] Resumable(v)                    -> DriveAgain(t)
      [] v.disposition = "human-blocked" -> Hold(q, t)
      [] OTHER                           -> RecordFailure(q, t, v.class)

StopFor(v) ==
    CASE v.disposition = "human-blocked" -> "boundary"
      [] v.disposition \in {"retry", "fail-safe"} /\ PolicyFor(v.class).stopsRun -> "class"
      [] OTHER -> "none"

RunOne(t, o) ==
    /\ stop = "none"
    /\ t \in Offered(q)
    /\ q' = Settle(t, o.verdict)
    /\ stop' = StopFor(o.verdict)
    /\ last' = [task |-> t, said |-> o.said, capped |-> o.capped, class |-> o.verdict.class]

Next == \E t \in Tasks : \E o \in Outcomes[(t \in Supervised)] : RunOne(t, o)

\* Every drive ends: a task's command runs under a timeout.
Spec == Init /\ [][Next]_vars /\ WF_vars(Next)

-----------------------------------------------------------------------------
(* Properties                                                               *)

\* The queue never reports work remaining that it will never select: when it
\* has nothing to offer, no task is still pending (propagateHolds, Exhausted).
DrainedMeansSettled ==
    Offered(q) = {} => \A t \in Tasks : q.state[t] # "pending"

\* What can keep a task and all that rests on it from being done: preflight may
\* find its capability behind a boundary, it failed, it has spent its resumes, or
\* it has just asked for a human.
Culprit(t) ==
    \/ t \in Bounded
    \/ q.state[t] = "failed"
    \/ q.resumes[t] > MaxResumes[t]
    \/ stop = "boundary" /\ last.task = t

\* With a task the set has everything it rests on.
Grounded(S) == \A t \in S : Needs[t] \subseteq S

\* Nothing is held for nothing: a held task is a culprit or rests, directly or
\* through others, on one (propagateHolds, Restore, driveAgain).  A task that is
\* done and is found behind a boundary afterwards still counts as one.
HoldsHaveACause ==
    \A S \in SUBSET Tasks :
        (Grounded(S) /\ \A t \in S : ~Culprit(t)) => \A t \in S : q.state[t] # "held"

\* A turn cap costs no attempt and fails nothing, whatever state the harness
\* wrote beside it and whatever the exit status (controller.go on max_turns).
InterruptionIsFree ==
    [][last'.capped => q'.attempts = q.attempts /\ q'.state[last'.task] # "failed"]_vars

\* A step that finishes a supervised task read COMPLETE in its document.
DeclaredStep ==
    \A t \in Supervised :
        (q.state[t] # "succeeded" /\ q'.state[t] = "succeeded") => last'.said = "COMPLETE"

\* A supervised task is never finished on the strength of its exit status: it
\* succeeds only if the result it declared says COMPLETE.
SuccessIsDeclared == [][DeclaredStep]_vars

\* No chain of interruptions, retries and holds keeps the run going for ever:
\* the budgets end it, with nothing left to offer or with a stop.
Drains == <>[](Offered(q) = {} \/ stop # "none")

=============================================================================
