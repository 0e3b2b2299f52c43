--------------------------- MODULE QueueDrainProofs ---------------------------
(***************************************************************************)
(* The queue never strands work: for every plan, whatever boundaries       *)
(* preflight found, whatever the journal restored and however each drive   *)
(* came out, a queue with nothing to offer has nothing pending.            *)
(***************************************************************************)
EXTENDS QueueDrain, WellFoundedInduction, TLAPS

-----------------------------------------------------------------------------
(* The operations of the queue, as far as a drain needs them: propagateHolds *)
(* reaches a state in which no pending task needs a lost one.                *)

StateMaps == [Tasks -> TaskStates]

\* No pending task needs work that was lost.
NoneStranded(st) ==
    \A t \in Tasks : st[t] = "pending" => \A d \in Needs[t] : st[d] \notin {"failed", "held"}

\* propagateHolds touches pending tasks only, holds some of them, and strands none.
LEMMA PropagateSweeps ==
    ASSUME NEW st \in StateMaps
    PROVE  /\ PropagateHolds(st) \in StateMaps
           /\ NoneStranded(PropagateHolds(st))
           /\ \A t \in Tasks : st[t] # "pending" => PropagateHolds(st)[t] = st[t]
           /\ \A t \in Tasks : PropagateHolds(st)[t] \in {st[t], "held"}
<1> DEFINE P == PropagateHolds(st)
<1>1. P \in StateMaps /\ \A t \in Tasks : P[t] = IF t \in Doomed(st) THEN "held" ELSE st[t]
  BY DEF StateMaps, TaskStates, PropagateHolds
<1>2. \A t \in Doomed(st) : st[t] = "pending"
  BY DEF Doomed
<1>3. NoneStranded(P)
  <2> SUFFICES ASSUME NEW t \in Tasks, P[t] = "pending", NEW d \in Needs[t], P[d] \in {"failed", "held"}
               PROVE  FALSE
    BY DEF NoneStranded
  <2>1. st[t] = "pending" /\ t \notin Doomed(st) /\ d \in Tasks
    BY <1>1, PlanAssumption
  <2>2. PICK H \in SUBSET Tasks : Swept(st, H) /\ t \notin H
    BY <2>1 DEF Doomed
  <2>3. d \in Lost(st, H)
    <3>1. CASE d \in Doomed(st)
      BY <3>1, <2>2 DEF Doomed, Lost
    <3>2. CASE d \notin Doomed(st)
      BY <3>2, <1>1, <2>1 DEF Lost
    <3> QED BY <3>1, <3>2
  <2> QED BY <2>1, <2>2, <2>3 DEF Swept
<1> QED BY <1>1, <1>2, <1>3

Sound(p) == p \in Queues /\ NoneStranded(p.state)

\* A new queue is sound, whatever boundaries preflight found.
LEMMA NewQueueSound ==
    ASSUME NEW B
    PROVE  Sound(NewQueue(B))
<1> DEFINE st == [t \in Tasks |-> IF t \in B THEN "held" ELSE "pending"]
<1>1. st \in StateMaps
  BY DEF StateMaps, TaskStates
<1> HIDE DEF st
<1>2. PropagateHolds(st) \in StateMaps /\ NoneStranded(PropagateHolds(st))
  BY <1>1, PropagateSweeps
<1>3. NewQueue(B) = [state |-> PropagateHolds(st), attempts |-> [t \in Tasks |-> 0],
                     resumes |-> [t \in Tasks |-> 0]]
  BY DEF NewQueue, st
<1> QED BY <1>2, <1>3 DEF Sound, Queues, StateMaps

\* Giving a task a state and sweeping yields a sound queue.
LEMMA SetStateSound ==
    ASSUME NEW p \in Queues, NEW t \in Tasks, NEW s \in TaskStates
    PROVE  Sound(SetState(p, t, s))
<1> DEFINE st == [p.state EXCEPT ![t] = s]
<1>1. st \in StateMaps
  BY DEF StateMaps, Queues
<1> HIDE DEF st
<1>2. PropagateHolds(st) \in StateMaps /\ NoneStranded(PropagateHolds(st))
  BY <1>1, PropagateSweeps
<1>3. SetState(p, t, s) = [p EXCEPT !.state = PropagateHolds(st)]
  BY DEF SetState, st
<1> QED BY <1>2, <1>3 DEF Sound, Queues, StateMaps

\* Restore yields a sound queue, whatever counts the journal holds.
LEMMA RestoreSound ==
    ASSUME NEW p \in Queues, NEW rs \in Leftovers
    PROVE  Sound(Restore(p, rs))
<1> DEFINE c == RestoreCounts(p, rs)
           z == [t \in Tasks |-> IF t \in rs.succeeded THEN "succeeded"
                                 ELSE IF Overdriven(rs, t) THEN "held" ELSE c.state[t]]
<1>1. rs.attempts \in [Tasks -> Nat] /\ rs.resumes \in [Tasks -> Nat]
  BY SupervisedAssumption DEF Leftovers
<1>2. c \in Queues
  BY <1>1 DEF RestoreCounts, Queues
<1>3. z \in StateMaps
  BY <1>2 DEF StateMaps, TaskStates, Queues
<1>4. Restore(p, rs) = [c EXCEPT !.state = PropagateHolds(z)]
  BY DEF Restore
<1> HIDE DEF c, z
<1>5. PropagateHolds(z) \in StateMaps /\ NoneStranded(PropagateHolds(z))
  BY <1>3, PropagateSweeps
<1> QED BY <1>2, <1>4, <1>5 DEF Sound, Queues, StateMaps

-----------------------------------------------------------------------------
(* Next: as long as a task is pending, there is one to offer.               *)

\* Every nonempty set of naturals has a least element: bands and plan positions.
LEMMA LeastNatural ==
    ASSUME NEW T \in SUBSET Nat, T # {}
    PROVE  \E x \in T : \A y \in T : x <= y
<1> DEFINE R == {ss \in Nat \X Nat : ss[1] < ss[2]}
<1>1. IsWellFoundedOn(R, Nat)
  BY NatLessThanWellFounded DEF OpToRel
<1>2. PICK x \in T : \A y \in T : ~(<<y, x>> \in R)
  <2>1. T \subseteq Nat
    OBVIOUS
  <2> HIDE DEF R
  <2>2. \E x \in T : \A y \in T : ~(<<y, x>> \in R)
    BY <1>1, <2>1, WFMin, Zenon
  <2> QED BY <2>2
<1>3. ASSUME NEW y \in T PROVE ~(y < x)
  <2>1. <<y, x>> \in Nat \X Nat
    OBVIOUS
  <2> QED BY <2>1, <1>2
<1>4. \A y \in T : x <= y
  BY <1>3
<1> QED BY <1>4

\* In a sound queue a pending task that needs no other pending task is ready, so
\* any pending task at all means a ready one.
LEMMA PendingMeansReady ==
    ASSUME NEW p, Sound(p), NEW u \in Tasks, p.state[u] = "pending"
    PROVE  \E t \in Tasks : Ready(p, t)
<1> DEFINE S == {t \in Tasks : p.state[t] = "pending"}
<1>1. S \in SUBSET Tasks /\ S # {}
  OBVIOUS
<1>2. PICK t \in S : Needs[t] \cap S = {}
  BY <1>1, PlanAssumption
<1>3. \A d \in Needs[t] : d \in Tasks /\ p.state[d] \in TaskStates \ {"failed", "held", "pending"}
  BY <1>2, PlanAssumption DEF Sound, NoneStranded, Queues
<1> QED BY <1>2, <1>3 DEF Ready, TaskStates

\* Of the ready tasks one is first in band order and then in plan order, so Next
\* has an answer whenever a task is pending.
LEMMA PendingMeansOffered ==
    ASSUME NEW p, Sound(p), NEW u \in Tasks, p.state[u] = "pending"
    PROVE  Offered(p) # {}
<1> DEFINE R == {t \in Tasks : Ready(p, t)}
           Bands == {Band[t] : t \in R}
<1>1. R # {}
  BY PendingMeansReady
<1>2. Bands \in SUBSET Nat /\ Bands # {}
  BY <1>1, PlanAssumption
<1>3. PICK b \in Bands : \A c \in Bands : b <= c
  BY <1>2, LeastNatural
<1> DEFINE F == {t \in R : Band[t] = b}
<1>4. F \in SUBSET Nat /\ F # {}
  BY <1>3 DEF Tasks
<1>5. PICK t \in F : \A v \in F : t <= v
  BY <1>4, LeastNatural
<1>6. ASSUME NEW v \in Tasks, Ready(p, v)
      PROVE  Band[t] < Band[v] \/ (Band[t] = Band[v] /\ t <= v)
  <2>1. Band[v] \in Bands /\ Band[t] = b /\ Band[v] \in Nat /\ b \in Nat /\ b <= Band[v]
    BY <1>2, <1>3, <1>5, <1>6, PlanAssumption
  <2>2. CASE Band[v] = b
    BY <2>2, <2>1, <1>5, <1>6
  <2>3. CASE Band[v] # b
    BY <2>3, <2>1
  <2> QED BY <2>2, <2>3
<1> QED BY <1>5, <1>6 DEF Offered

-----------------------------------------------------------------------------
(* The drain                                                                *)

\* The inductive invariant: the queue is well formed and no pending task needs a
\* task that failed or is held.
DrainInv == Sound(q)

\* Counting an attempt or a resume touches no task's state.
LEMMA CountSound ==
    ASSUME NEW r, Sound(r), NEW t \in Tasks
    PROVE  /\ Sound([r EXCEPT !.attempts[t] = @ + 1])
           /\ Sound([r EXCEPT !.resumes[t] = @ + 1])
<1>1. [r EXCEPT !.attempts[t] = @ + 1] \in Queues /\ [r EXCEPT !.attempts[t] = @ + 1].state = r.state
  BY DEF Sound, Queues
<1>2. [r EXCEPT !.resumes[t] = @ + 1] \in Queues /\ [r EXCEPT !.resumes[t] = @ + 1].state = r.state
  BY DEF Sound, Queues
<1> QED BY <1>1, <1>2 DEF Sound

\* Every drive, whatever it meant, leaves a sound queue.
LEMMA SettleSound ==
    ASSUME DrainInv, NEW t \in Tasks, NEW v
    PROVE  Sound(Settle(t, v))
<1> DEFINE a == [q EXCEPT !.attempts[t] = @ + 1]
           m == RecordResume(q, t)
<1>1. Sound(q) /\ Sound(a) /\ Sound(m)
  BY CountSound DEF DrainInv, RecordResume
<1> HIDE DEF m
<1>2. \A s \in TaskStates : Sound(SetState(q, t, s)) /\ Sound(SetState(a, t, s)) /\ Sound(SetState(m, t, s))
  BY <1>1, SetStateSound DEF Sound
<1>3. Sound(RecordSuccess(q, t))
  BY <1>2 DEF RecordSuccess, TaskStates
<1>4. Sound(Hold(q, t)) /\ Sound(Hold(m, t))
  BY <1>2 DEF Hold, TaskStates
<1>5. Sound(DriveAgain(t))
  BY <1>1, <1>4 DEF DriveAgain, m
<1>6. Sound(RecordFailure(q, t, v.class))
  BY <1>1, <1>2 DEF RecordFailure, TaskStates
<1> QED BY <1>3, <1>4, <1>5, <1>6 DEF Settle

\* A process that restores what an earlier one left starts with a sound queue.
LEMMA DrainInit == Init => DrainInv
<1> SUFFICES ASSUME NEW B \in SUBSET Bounded, NEW rs \in Leftovers, q = Restore(NewQueue(B), rs)
             PROVE  DrainInv
  BY DEF Init
<1>1. NewQueue(B) \in Queues
  BY NewQueueSound DEF Sound
<1> QED BY <1>1, RestoreSound DEF DrainInv

\* Every step keeps the queue sound.
LEMMA DrainNext == DrainInv /\ [Next]_vars => DrainInv'
<1> SUFFICES ASSUME DrainInv, [Next]_vars PROVE DrainInv'
  OBVIOUS
<1>1. CASE Next
  <2>1. PICK t \in Tasks : \E o : q' = Settle(t, o.verdict)
    BY <1>1 DEF Next, RunOne
  <2>2. PICK o : q' = Settle(t, o.verdict)
    BY <2>1
  <2> QED BY <2>2, SettleSound DEF DrainInv, Sound
<1>2. CASE UNCHANGED vars
  BY <1>2 DEF vars, DrainInv
<1> QED BY <1>1, <1>2

\* In every reachable state a queue that offers nothing has no pending task: the
\* loop of Run never ends on work it could still have selected, and never reports
\* outstanding work it will not select.
THEOREM NothingIsStranded == Spec => []DrainedMeansSettled
<1>1. DrainInv => DrainedMeansSettled
  BY PendingMeansOffered DEF DrainInv, DrainedMeansSettled
<1> QED BY DrainInit, DrainNext, <1>1, PTL DEF Spec

-----------------------------------------------------------------------------
(* What one drive may do, for every plan and every execution.               *)

\* The drive of a step: the task it drove was on offer, and its outcome is one
\* an execution of that task can have.
LEMMA DriveOf ==
    ASSUME Next
    PROVE  \E t \in Tasks : \E e \in Executions(t \in Supervised) :
              t \in Offered(q) /\ RunOne(t, Outcome(e))
<1>1. PICK t \in Tasks : \E o \in Outcomes[(t \in Supervised)] : RunOne(t, o)
  BY DEF Next
<1>2. Outcomes[(t \in Supervised)] = {Outcome(e) : e \in Executions(t \in Supervised)}
  BY DEF Outcomes
<1>3. PICK e \in Executions(t \in Supervised) : RunOne(t, Outcome(e))
  BY <1>1, <1>2
<1> QED BY <1>3 DEF RunOne

-----------------------------------------------------------------------------
(* Holds                                                                    *)

\* propagateHolds leaves a grounded set alone that has nothing lost in it: what
\* it holds outside of the set is swept already.
LEMMA PropagateStaysOutside ==
    ASSUME NEW st \in StateMaps, NEW S \in SUBSET Tasks, Grounded(S),
           \A t \in S : st[t] \notin {"failed", "held"}
    PROVE  \A t \in S : PropagateHolds(st)[t] = st[t]
<1> DEFINE H == Tasks \ S
<1>1. Swept(st, H)
  <2> SUFFICES ASSUME NEW u \in S, NEW d \in Needs[u], d \in Lost(st, H)
               PROVE  FALSE
    BY DEF Swept
  <2>1. d \in S
    BY DEF Grounded
  <2> QED BY <2>1 DEF Lost
<1>2. \A t \in S : t \notin Doomed(st)
  BY <1>1 DEF Doomed
<1> QED BY <1>2 DEF PropagateHolds

\* A task of such a set is not held because another one was given a state.
LEMMA SetStateStaysOutside ==
    ASSUME NEW r \in Queues, NEW t \in Tasks, NEW s \in TaskStates,
           NEW S \in SUBSET Tasks, Grounded(S), \A u \in S : r.state[u] \notin {"failed", "held"},
           t \in S => s \notin {"failed", "held"}
    PROVE  \A u \in S : SetState(r, t, s).state[u] # "held"
<1> DEFINE st == [r.state EXCEPT ![t] = s]
<1>1. st \in StateMaps /\ \A u \in S : st[u] \notin {"failed", "held"}
  BY DEF Queues, StateMaps
<1>2. SetState(r, t, s).state = PropagateHolds(st)
  BY DEF SetState, Queues
<1> HIDE DEF st
<1> QED BY <1>1, <1>2, PropagateStaysOutside

\* A queue restored from a journal holds nothing for nothing.
LEMMA CauseInit == Init => HoldsHaveACause
<1> SUFFICES ASSUME NEW B \in SUBSET Bounded, NEW rs \in Leftovers, q = Restore(NewQueue(B), rs),
                    NEW S \in SUBSET Tasks, Grounded(S), \A t \in S : ~Culprit(t)
             PROVE  \A t \in S : q.state[t] # "held"
  BY DEF Init, HoldsHaveACause
<1> DEFINE n == NewQueue(B)
           b == [t \in Tasks |-> IF t \in B THEN "held" ELSE "pending"]
           c == RestoreCounts(n, rs)
           z == [t \in Tasks |-> IF t \in rs.succeeded THEN "succeeded"
                                 ELSE IF Overdriven(rs, t) THEN "held" ELSE c.state[t]]
<1>1. n \in Queues
  BY NewQueueSound DEF Sound
<1>2. \A t \in S : n.state[t] = "pending"
  <2>1. b \in StateMaps /\ \A t \in S : b[t] = "pending"
    BY DEF StateMaps, TaskStates, Culprit
  <2>2. n.state = PropagateHolds(b)
    BY DEF NewQueue
  <2> HIDE DEF b, n
  <2> QED BY <2>1, <2>2, PropagateStaysOutside
<1>3. /\ c \in Queues /\ c.state = n.state
      /\ \A t \in Tasks : t \notin rs.succeeded => c.resumes[t] = rs.resumes[t]
  <2>1. rs.attempts \in [Tasks -> Nat] /\ rs.resumes \in [Tasks -> Nat]
    BY SupervisedAssumption DEF Leftovers
  <2> HIDE DEF n
  <2> QED BY <1>1, <2>1 DEF RestoreCounts, Queues
<1>4. q = [c EXCEPT !.state = PropagateHolds(z)]
  BY DEF Restore
<1> HIDE DEF c, n
<1>5. q.state = PropagateHolds(z) /\ q.resumes = c.resumes /\ z \in StateMaps
  BY <1>3, <1>4 DEF Queues, StateMaps, TaskStates
<1>6. \A t \in S : z[t] \notin {"failed", "held"}
  BY <1>2, <1>3, <1>5 DEF Culprit, Overdriven
<1> HIDE DEF z
<1>7. \A t \in S : q.state[t] = z[t]
  BY <1>5, <1>6, PropagateStaysOutside
<1> QED BY <1>6, <1>7

\* One drive: what it holds or fails is a culprit, and culprits stay culprits.
LEMMA CauseNext == DrainInv /\ HoldsHaveACause /\ [Next]_vars => HoldsHaveACause'
<1> SUFFICES ASSUME DrainInv, HoldsHaveACause, NEW t \in Tasks, NEW o, RunOne(t, o),
                    NEW S \in SUBSET Tasks, Grounded(S), \A u \in S : ~Culprit(u)'
             PROVE  \A u \in S : q'.state[u] # "held"
  BY DEF Next, vars, HoldsHaveACause, Culprit
<1> DEFINE v == o.verdict
           a == [q EXCEPT !.attempts[t] = @ + 1]
           m == RecordResume(q, t)
<1>1. q' = Settle(t, v) /\ stop' = StopFor(v) /\ last'.task = t /\ stop = "none"
  BY DEF RunOne
<1>2. /\ q \in Queues /\ a \in Queues /\ m \in Queues
      /\ a.state = q.state /\ m.state = q.state /\ a.resumes = q.resumes
      /\ m.resumes = [q.resumes EXCEPT ![t] = @ + 1]
      /\ q.state[t] = "pending"
  BY CountSound DEF DrainInv, Sound, Queues, RecordResume, RunOne, Offered, Ready
<1> HIDE DEF a, m, v
\* A drive fails no task but t, un-fails none, and takes no resume back.
<1>3. \A r \in Queues, s \in TaskStates :
         /\ SetState(r, t, s).resumes = r.resumes
         /\ r.state = q.state => \A u \in Tasks : q.state[u] = "failed" => SetState(r, t, s).state[u] = "failed"
         /\ s # "pending" => SetState(r, t, s).state[t] = s
  <2> SUFFICES ASSUME NEW r \in Queues, NEW s \in TaskStates
               PROVE  /\ SetState(r, t, s).resumes = r.resumes
                      /\ r.state = q.state => \A u \in Tasks : q.state[u] = "failed" => SetState(r, t, s).state[u] = "failed"
                      /\ s # "pending" => SetState(r, t, s).state[t] = s
    OBVIOUS
  <2> DEFINE st == [r.state EXCEPT ![t] = s]
  <2>1. st \in StateMaps /\ st[t] = s /\ \A u \in Tasks : u # t => st[u] = r.state[u]
    BY DEF Queues, StateMaps
  <2>2. SetState(r, t, s).state = PropagateHolds(st) /\ SetState(r, t, s).resumes = r.resumes
    BY DEF SetState, Queues
  <2> HIDE DEF st
  <2>3. \A u \in Tasks : st[u] # "pending" => PropagateHolds(st)[u] = st[u]
    BY <2>1, PropagateSweeps
  <2> QED BY <1>2, <2>1, <2>2, <2>3
<1>4. \A u \in S : u \in Tasks /\ u \notin Bounded /\ q'.state[u] # "failed" /\ q'.resumes[u] <= MaxResumes[u]
                   /\ ~(stop' = "boundary" /\ u = t)
  <2>1. q' \in Queues
    BY <1>1, SettleSound DEF Sound
  <2> QED BY <1>1, <2>1, PlanAssumption DEF Culprit, Queues
\* One case for each way to settle a drive.
<1>5. ASSUME NEW r \in Queues, r.state = q.state, \A u \in S : q.resumes[u] <= r.resumes[u],
             NEW s \in {"succeeded", "failed", "held"}, q' = SetState(r, t, s), s # "succeeded" => t \notin S
      PROVE  \A u \in S : q'.state[u] # "held"
  <2>1. \A u \in S : ~Culprit(u)
    <3> SUFFICES ASSUME NEW u \in S
                 PROVE  ~Culprit(u)
      OBVIOUS
    <3>1. s \in TaskStates /\ u \in Tasks
      BY DEF TaskStates
    <3>2. SetState(r, t, s).resumes = r.resumes
      BY <1>3, <3>1
    <3>3. q.state[u] # "failed"
      BY <1>3, <1>4, <1>5, <3>1
    <3>4. q.resumes[u] <= r.resumes[u] /\ r.resumes[u] <= MaxResumes[u]
      BY <1>4, <1>5, <3>2
    <3>5. q.resumes[u] \in Nat /\ r.resumes[u] \in Nat /\ MaxResumes[u] \in Nat
      BY <1>2, <3>1, PlanAssumption DEF Queues
    <3>6. ~(q.resumes[u] > MaxResumes[u])
      BY <3>4, <3>5
    <3> QED BY <1>1, <1>4, <3>3, <3>6 DEF Culprit
  <2>2. \A u \in S : q.state[u] \notin {"failed", "held"}
    BY <2>1 DEF HoldsHaveACause, Culprit
  <2> QED BY <1>5, <2>2, SetStateStaysOutside DEF TaskStates
<1>6. ASSUME NEW r \in Queues, r.state = q.state, \A u \in S : q.resumes[u] <= r.resumes[u], q' = r
      PROVE  \A u \in S : q'.state[u] # "held"
  <2>1. \A u \in S : ~Culprit(u)
    <3> SUFFICES ASSUME NEW u \in S
                 PROVE  ~Culprit(u)
      OBVIOUS
    <3>1. q.resumes[u] \in Nat /\ r.resumes[u] \in Nat /\ MaxResumes[u] \in Nat
      BY <1>2, PlanAssumption DEF Queues
    <3>2. q.state[u] # "failed" /\ ~(q.resumes[u] > MaxResumes[u])
      BY <1>4, <1>6, <3>1
    <3> QED BY <1>1, <1>4, <3>2 DEF Culprit
  <2> QED BY <1>6, <2>1 DEF HoldsHaveACause
<1>7. /\ \A u \in S : q.resumes[u] <= a.resumes[u]
      /\ \A u \in S : q.resumes[u] <= m.resumes[u]
  BY <1>2 DEF Queues
<1>8. CASE v.disposition = "succeeded"
  <2>1. q' = SetState(a, t, "succeeded")
    BY <1>1, <1>8 DEF Settle, RecordSuccess, Resumable, a
  <2> QED BY <1>2, <1>5, <1>7, <2>1
<1>9. CASE Resumable(v) /\ v.disposition # "succeeded"
  <2>1. q' = IF MayResume(m, t) THEN m ELSE SetState(m, t, "held")
    BY <1>1, <1>9 DEF Settle, DriveAgain, Hold, Resumable, m
  <2>2. CASE MayResume(m, t)
    BY <1>2, <1>6, <1>7, <2>1, <2>2
  <2>3. CASE ~MayResume(m, t)
    <3>1. q' = SetState(m, t, "held") /\ m.resumes[t] > MaxResumes[t]
      BY <1>2, <2>1, <2>3, PlanAssumption DEF MayResume, Queues
    <3>2. t \notin S
      BY <1>2, <1>3, <1>4, <3>1, PlanAssumption DEF TaskStates, Queues
    <3> QED BY <1>2, <1>5, <1>7, <3>1, <3>2
  <2> QED BY <2>2, <2>3
<1>10. CASE v.disposition = "human-blocked"
  <2>1. q' = SetState(q, t, "held") /\ stop' = "boundary"
    BY <1>1, <1>10 DEF Settle, Hold, Resumable, StopFor
  <2>2. t \notin S
    BY <1>4, <2>1
  <2>3. \A u \in S : q.resumes[u] <= q.resumes[u]
    BY <1>2 DEF Queues
  <2> QED BY <1>2, <1>5, <2>1, <2>2, <2>3
<1>11. CASE v.disposition # "succeeded" /\ ~Resumable(v) /\ v.disposition # "human-blocked"
  <2>1. q' = a \/ q' = SetState(a, t, "failed")
    BY <1>1, <1>11 DEF Settle, RecordFailure, a
  <2>2. CASE q' = a
    BY <1>2, <1>6, <1>7, <2>2
  <2>3. CASE q' = SetState(a, t, "failed")
    <3>1. t \notin S
      BY <1>2, <1>3, <1>4, <2>3 DEF TaskStates
    <3> QED BY <1>2, <1>5, <1>7, <2>3, <3>1
  <2> QED BY <2>1, <2>2, <2>3
<1> QED BY <1>8, <1>9, <1>10, <1>11

\* For every plan and every journal, a task is held only when it, or something it
\* rests on, is behind a boundary, failed, has spent its resumes or asked for a
\* human: the sweeps of propagateHolds reach no further.
THEOREM HoldsAreCaused == Spec => []HoldsHaveACause
BY CauseInit, CauseNext, DrainInit, DrainNext, PTL DEF Spec

-----------------------------------------------------------------------------
\* Only a success makes a task succeeded, and only a failure makes one failed: a
\* hold that propagates reaches pending tasks and leaves them held.
LEMMA SetStateTouches ==
    ASSUME NEW r \in Queues, NEW t \in Tasks, NEW s \in TaskStates, NEW u \in Tasks
    PROVE  /\ SetState(r, t, s).attempts = r.attempts
           /\ SetState(r, t, s).state[u] \in {r.state[u], "held"} \cup (IF u = t THEN {s} ELSE {})
<1> DEFINE st == [r.state EXCEPT ![t] = s]
<1>1. st \in StateMaps /\ st[u] = IF u = t THEN s ELSE r.state[u]
  BY DEF Queues, StateMaps
<1>2. PropagateHolds(st)[u] \in {st[u], "held"}
  BY <1>1, PropagateSweeps
<1>3. SetState(r, t, s) = [r EXCEPT !.state = PropagateHolds(st)]
  BY DEF SetState
<1>4. SetState(r, t, s).state = PropagateHolds(st) /\ SetState(r, t, s).attempts = r.attempts
  BY <1>3 DEF Queues
<1> QED BY <1>1, <1>2, <1>4

\* A turn cap means resume, whatever else the execution says.
LEMMA CappedResumes ==
    ASSUME NEW sup \in BOOLEAN, NEW e \in Executions(sup), Outcome(e).capped
    PROVE  Outcome(e).verdict.disposition = "resume"
<1>1. Usable(e.doc) /\ EffectiveReason(e.doc) \in ResumableReasons
  BY DEF Outcome
<1>2. e.declared
  BY <1>1 DEF Executions, Usable, Unreadable, States
<1>3. InterpretExecution(e) = InterpretStructured(e.doc, e.signature)
  BY <1>1, <1>2 DEF InterpretExecution
<1> QED BY <1>1, <1>3 DEF Outcome, InterpretStructured, Verdict

\* An interruption costs no attempt and fails nothing, for every plan.
THEOREM InterruptionsAreFree == Spec => InterruptionIsFree
<1>1. DrainInv /\ Next => (last'.capped => q'.attempts = q.attempts /\ q'.state[last'.task] # "failed")
  <2> SUFFICES ASSUME DrainInv, NEW t \in Tasks, NEW e \in Executions(t \in Supervised),
                      t \in Offered(q), RunOne(t, Outcome(e)), Outcome(e).capped
               PROVE  q'.attempts = q.attempts /\ q'.state[t] # "failed"
    BY DriveOf DEF RunOne
  <2>1. Outcome(e).verdict.disposition = "resume"
    <3>1. (t \in Supervised) \in BOOLEAN
      OBVIOUS
    <3> QED BY <3>1, CappedResumes
  <2>2. q' = DriveAgain(t)
    BY <2>1 DEF RunOne, Settle, Resumable
  <2> DEFINE m == RecordResume(q, t)
  <2>3. m \in Queues /\ m.attempts = q.attempts /\ m.state = q.state /\ q.state[t] = "pending"
    BY CountSound DEF DrainInv, Sound, Queues, RecordResume, Offered, Ready
  <2>4. Hold(m, t).attempts = m.attempts /\ Hold(m, t).state[t] \in {m.state[t], "held"}
    BY <2>3, SetStateTouches DEF Hold, TaskStates
  <2> QED BY <2>2, <2>3, <2>4 DEF DriveAgain
<1> QED BY <1>1, DrainInit, DrainNext, PTL DEF Spec, InterruptionIsFree

\* A supervised task's verdict is a success only if its document says COMPLETE.
LEMMA SuccessSaysComplete ==
    ASSUME NEW e \in Executions(TRUE), Outcome(e).verdict.disposition = "succeeded"
    PROVE  Outcome(e).said = "COMPLETE"
<1>1. e.declared /\ InterpretExecution(e).disposition = "succeeded"
  BY DEF Executions, Outcome
<1>2. Usable(e.doc)
  BY <1>1 DEF InterpretExecution, Verdict
<1>3. InterpretStructured(e.doc, e.signature).disposition = "succeeded"
  BY <1>1, <1>2 DEF InterpretExecution
<1>4. e.doc.state = "COMPLETE"
  BY <1>2, <1>3 DEF InterpretStructured, Verdict, Usable, States
<1> QED BY <1>2, <1>4 DEF Outcome

\* No supervised task succeeds on its exit status, for every plan.
THEOREM SuccessesAreDeclared == Spec => SuccessIsDeclared
<1>1. DrainInv /\ Next => DeclaredStep
  <2> SUFFICES ASSUME DrainInv, NEW t \in Tasks, NEW e \in Executions(t \in Supervised),
                      t \in Offered(q), RunOne(t, Outcome(e)),
                      NEW u \in Supervised, q.state[u] # "succeeded", q'.state[u] = "succeeded"
               PROVE  Outcome(e).said = "COMPLETE"
    BY DriveOf DEF RunOne, DeclaredStep
  <2> DEFINE v == Outcome(e).verdict
             a == [q EXCEPT !.attempts[t] = @ + 1]
             m == RecordResume(q, t)
  <2>1. u \in Tasks /\ q' = Settle(t, v)
    BY SupervisedAssumption DEF RunOne
  <2>2. /\ q \in Queues /\ a \in Queues /\ m \in Queues
        /\ a.state = q.state /\ m.state = q.state
    BY CountSound DEF DrainInv, Sound, Queues, RecordResume
  <2>3. \A r \in Queues : r.state = q.state => \A s \in {"held", "failed"} :
           SetState(r, t, s).state[u] # "succeeded"
    BY <2>1, SetStateTouches DEF TaskStates
  <2>4. Hold(q, t).state[u] # "succeeded" /\ DriveAgain(t).state[u] # "succeeded"
    BY <2>2, <2>3 DEF Hold, DriveAgain
  <2>5. RecordFailure(q, t, v.class).state[u] # "succeeded"
    BY <2>2, <2>3 DEF RecordFailure
  <2>6. v.disposition = "succeeded"
    BY <2>1, <2>4, <2>5 DEF Settle
  <2>7. q' = SetState(a, t, "succeeded")
    BY <2>1, <2>6 DEF Settle, RecordSuccess, Resumable
  <2> HIDE DEF a
  <2>8. SetState(a, t, "succeeded").state[u] \in {a.state[u], "held"} \cup (IF u = t THEN {"succeeded"} ELSE {})
    BY <2>1, <2>2, SetStateTouches DEF TaskStates
  <2>9. u = t
    BY <2>2, <2>7, <2>8
  <2>10. (t \in Supervised) = TRUE
    BY <2>9
  <2>11. e \in Executions(TRUE)
    BY <2>10
  <2>12. Outcome(e).verdict.disposition = "succeeded"
    BY <2>6
  <2> QED BY <2>11, <2>12, SuccessSaysComplete, Zenon
<1> QED BY <1>1, DrainInit, DrainNext, PTL DEF Spec, SuccessIsDeclared

=============================================================================
