------------------------------ MODULE WorkQueue ------------------------------
(***************************************************************************)
(* The run's work queue (internal/unattended/queue.go, plan.go) as a value *)
(* and the operations on it.  Tasks are the positions of the plan; a queue *)
(* gives each task its state, the attempts it has spent and the resumes it *)
(* has consumed.  propagateHolds is written as the least set it reaches,   *)
(* not as the sweeps that reach it.                                        *)
(***************************************************************************)
EXTENDS FailurePolicy, FiniteSets

CONSTANTS
    N,          \* the number of tasks of the plan
    Needs,      \* the tasks each task depends on
    Band,       \* the preference rank of each task's band, 0 the highest
    MaxAttempts,\* each task's own attempt budget, 0 for the class policy's
    MaxResumes, \* each task's resume budget: its own or the default
    Bounded     \* the tasks whose capabilities preflight may find behind a boundary

Tasks == 1 .. N

\* Plan.Validate and findTaskCycle accept only plans like this: every need is a
\* task of the plan, and every set of tasks has one that needs none of them.
ASSUME PlanAssumption ==
    /\ N \in Nat
    /\ Needs \in [Tasks -> SUBSET Tasks]
    /\ \A S \in SUBSET Tasks : S # {} => \E t \in S : Needs[t] \cap S = {}
    /\ Band \in [Tasks -> Nat]
    /\ MaxAttempts \in [Tasks -> Nat]
    /\ MaxResumes \in [Tasks -> Nat \ {0}]
    /\ Bounded \subseteq Tasks

TaskStates == {"pending", "succeeded", "failed", "held"}

Queues == [state : [Tasks -> TaskStates], attempts : [Tasks -> Nat], resumes : [Tasks -> Nat]]

\* QueuedTask.budget
Budget(t, class) == IF MaxAttempts[t] > 0 THEN MaxAttempts[t] ELSE PolicyFor(class).attempts

-----------------------------------------------------------------------------
(* propagateHolds                                                           *)

Lost(st, H) == {t \in Tasks : st[t] \in {"failed", "held"}} \cup H

\* H holds every pending task that needs a lost one.
Swept(st, H) ==
    \A t \in Tasks : (st[t] = "pending" /\ Needs[t] \cap Lost(st, H) # {}) => t \in H

Doomed(st) == {t \in Tasks : st[t] = "pending" /\ \A H \in SUBSET Tasks : Swept(st, H) => t \in H}

\* Mutant: one level of dependents only.
PropagateOnce(st) ==
    [t \in Tasks |-> IF st[t] = "pending" /\ Needs[t] \cap Lost(st, {}) # {} THEN "held" ELSE st[t]]

\* Mutant: a need that is not done yet is taken for one that is lost.
PropagateEagerly(st) ==
    [t \in Tasks |-> IF st[t] = "pending" /\ \E d \in Needs[t] : st[d] # "succeeded" THEN "held" ELSE st[t]]

PropagateHolds(st) == [t \in Tasks |-> IF t \in Doomed(st) THEN "held" ELSE st[t]]

SetState(q, t, s) == [q EXCEPT !.state = PropagateHolds([q.state EXCEPT ![t] = s])]

-----------------------------------------------------------------------------
(* NewQueue, Next and the operations the runner calls                       *)

\* B: the tasks that need a capability this preflight found behind a boundary.
NewQueue(B) ==
    [state    |-> PropagateHolds([t \in Tasks |-> IF t \in B THEN "held" ELSE "pending"]),
     attempts |-> [t \in Tasks |-> 0],
     resumes  |-> [t \in Tasks |-> 0]]

\* Mutant: what a task needs is not consulted.
ReadyAlways(q, t) == q.state[t] = "pending"

\* dependenciesSatisfied
Ready(q, t) == q.state[t] = "pending" /\ \A d \in Needs[t] : q.state[d] = "succeeded"

\* Next: the first of the ready tasks in band order, then in plan order.
Offered(q) ==
    {t \in Tasks :
        /\ Ready(q, t)
        /\ \A u \in Tasks : Ready(q, u) => (Band[t] < Band[u] \/ (Band[t] = Band[u] /\ t <= u))}

RecordSuccess(q, t) == SetState([q EXCEPT !.attempts[t] = @ + 1], t, "succeeded")

RecordFailure(q, t, class) ==
    LET q1 == [q EXCEPT !.attempts[t] = @ + 1]
    IN  IF q1.attempts[t] >= Budget(t, class) THEN SetState(q1, t, "failed") ELSE q1

\* Mutant: a resume is not counted.
RecordResumeUncounted(q, t) == q

RecordResume(q, t) == [q EXCEPT !.resumes[t] = @ + 1]

MayResume(q, t) == q.resumes[t] <= MaxResumes[t]

Hold(q, t) == SetState(q, t, "held")

-----------------------------------------------------------------------------
(* Restore folds what the journal says of an earlier process of this run    *)
(* into the queue: rs has the tasks that succeeded and both counts.         *)

Overdriven(rs, t) == t \notin rs.succeeded /\ rs.resumes[t] > MaxResumes[t]

RestoreCounts(q, rs) ==
    [q EXCEPT !.attempts = [t \in Tasks |-> IF t \in rs.succeeded THEN @[t] ELSE rs.attempts[t]],
              !.resumes  = [t \in Tasks |-> IF t \in rs.succeeded THEN @[t] ELSE rs.resumes[t]]]

\* Mutant: the count comes back, the hold it had produced does not.
RestoreCountOnly(q, rs) ==
    [RestoreCounts(q, rs) EXCEPT
        !.state = PropagateHolds([t \in Tasks |-> IF t \in rs.succeeded THEN "succeeded" ELSE @[t]])]

\* Mutant: every pending task keeps its state, the succeeded ones included.
RestoreForgetful(q, rs) == RestoreCounts(q, rs)

Restore(q, rs) ==
    [RestoreCounts(q, rs) EXCEPT
        !.state = PropagateHolds([t \in Tasks |-> IF t \in rs.succeeded THEN "succeeded"
                                                  ELSE IF Overdriven(rs, t) THEN "held"
                                                  ELSE @[t]])]

=============================================================================
